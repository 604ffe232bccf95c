--------------------------- MODULE Lv2LocksProofs ---------------------------
(***************************************************************************)
(* What is proved of the locks that MCLv2Locks puts side by side.  Where   *)
(* the lock is a light-weight mutex, the word in guest memory and the      *)
(* kernel object behind it agree on who owns it, and nobody who is queued  *)
(* for it, counted in its word or awakened for it is forgotten.  Where it  *)
(* is a condition variable with its mutex, nobody returns from wait or     *)
(* lock who does not own the mutex, at the depth he had, and nobody is     *)
(* lost between the two queues.  Where it is a mutex, exclusion and the    *)
(* hand-over survive savestates.                                           *)
(***************************************************************************)
EXTENDS MCLv2Locks, QueueLemmas

\* Timeouts and savestates may both occur, but not in one behaviour.
OneFault == \A f \in Faults : ~({"timeout", "save"} \subseteq f)

-----------------------------------------------------------------------------
(* The light-weight mutex: its invariant *)

LwWord == [owner : Threads \union {Free, Reserved, Dead}, waiter : Nat]

\* The labels of a thread that owns the word and has not told the guest so, of
\* the calls that take a reserved word, and of the calls that a savestate
\* interrupts.
LwHolding == {"l_dec", "d_kernel", "d_unlock", "d_dead", "u_release"}
LwTaking == {"l_own", "y_kernel", "y_own", "d_try", "d_own"}
LwUnlocking == {"u_release", "k_unlock", "k_reown", "k_awake", "a_unlock", "u_redo",
                "d_kernel", "d_try", "d_own", "d_dead", "d_unlock"}
LwSaveLabels == {"a_lock", "a_unlock", "l_redo", "u_redo"}
LwTimeLabels == {"t_check", "t_test", "t_over", "t_lock"}

\* Right and Counted of the module.
LwRight(t) ==
  \/ pc[t] \in {"r_got", "l_own", "y_own", "d_own", "k_unlock", "k_reown", "a_unlock", "u_redo"}
  \/ pc[t] \in LwMutex!Sleeping /\ ~Contains(sq, t)
LwRights == {t \in Threads : LwRight(t)}

LwCounted(t) ==
  \/ pc[t] \in LwMutex!Sleeping
  \/ pc[t] \in {"l_try", "l_dec", "k_lock", "r_got", "r_err", "a_lock", "l_redo"}
  \/ pc[t] = "l_spin" /\ mode[t] = "aborted"
LwCounteds == {t \in Threads : LwCounted(t)}

\* A counted thread that has seen the word taken.
LwBeyond(t) == LwCounted(t) /\ (pc[t] # "l_try" \/ mode[t] = "aborted")

\* A thread that will look at a free word, or awaken one that will.
LwTaker(t) ==
  \/ pc[t] \in {"k_awake", "l_spin", "l_try", "l_redo", "r_got", "k_unlock", "k_reown", "a_unlock"}
  \/ pc[t] \in LwMutex!Sleeping /\ ~Contains(sq, t)

LwAwaited(t) == \E u \in Threads : pc[u] = "k_awake" /\ next[u] = t

LwLocals ==
  /\ pc \in [Threads -> LwMutex!PCs] /\ timed \in [Threads -> BOOLEAN]
  /\ mode \in [Threads -> {"first", "aborted", "loop"}]
  /\ next \in [Threads -> Threads \union {NoThread}]
  /\ held \in [Threads -> 0..MaxLocks + 1]

LwTypes ==
  /\ ObjTypeOK(LwMutex!PCs) /\ LwLocals
  /\ retry \in BOOLEAN /\ recursive \in BOOLEAN /\ signaled \in BOOLEAN /\ lost \in BOOLEAN
  /\ lock \in LwWord /\ count \in 0..MaxLocks /\ sq \in Seq(Threads)

LwFaultInv ==
  /\ stopped # {} \/ toSleep # {} => "save" \in faults
  /\ stopped # {} => saves < MaxSaves
  /\ \A t \in Threads :
       /\ pc[t] \in LwSaveLabels \/ mode[t] = "aborted" => "save" \in faults
       /\ timed[t] \/ pc[t] \in LwTimeLabels => "timeout" \in faults

LwGuardInv == \A t \in Threads : guard = t <=> pc[t] = "k_awake"

LwListInv ==
  /\ Distinct(sq)
  /\ \A t \in Threads :
       /\ Contains(sq, t) => pc[t] \in (LwMutex!Sleeping \ {"t_over"}) \union {"a_lock"}
       /\ pc[t] = "a_lock" => Contains(sq, t)

\* Who owns the word is in guest code with its depth, or on its way.
LwOwnInv ==
  /\ lock.owner \notin Threads => count = 0
  /\ \A t \in Threads :
       IF lock.owner = t
       THEN \/ pc[t] = "idle" /\ held[t] = count + 1
            \/ pc[t] \in LwHolding /\ held[t] = 0 /\ count = 0
       ELSE held[t] = 0 /\ pc[t] \notin LwHolding

LwExistsInv ==
  /\ ~exists => /\ sq = <<>>
                /\ lock.owner = Dead \/ \E t \in Threads : lock.owner = t /\ pc[t] = "d_dead"
  /\ lock.owner = Dead => ~exists
  /\ \A t \in Threads : pc[t] = "d_dead" => ~exists
  /\ signaled => sq = <<>>

LwRightInv ==
  /\ ~retry => /\ Cardinality(LwRights) + Ind(signaled) = Ind(lock.owner = Reserved /\ ~lost)
               /\ lost => lock.owner = Reserved
  /\ retry => lock.owner # Reserved /\ \A t \in Threads : pc[t] \notin LwTaking

LwCountInv ==
  /\ lock.waiter >= Cardinality(LwCounteds)
  /\ (retry /\ saves > 0) \/ lock.waiter = Cardinality(LwCounteds)
  /\ ~retry => \A t \in Threads : LwBeyond(t) => lock.owner # Free

LwRetryInv ==
  retry /\ "timeout" \notin faults /\ lock.owner = Free
    /\ (sq # <<>> \/ \E t \in Threads : pc[t] = "k_lock") =>
  signaled \/ \E t \in Threads : LwTaker(t)

LwThreadInv(t) ==
  /\ pc[t] \notin {"k_sleep", "k_wait", "t_check"} /\ t \notin stopped => sched[t] = "on"
  /\ pc[t] \in LwUnlocking => sched[t] = "on"
  /\ sched[t] = "cancelled" => pc[t] = "k_sleep" /\ ~Contains(sq, t) /\ ~LwAwaited(t)
  /\ pc[t] = "k_wait" /\ (Contains(sq, t) \/ LwAwaited(t)) => sched[t] = "asleep"
  /\ pc[t] = "a_lock" => sched[t] = "asleep"
  /\ pc[t] = "idle" => mode[t] = "first"
  /\ pc[t] = "l_redo" => mode[t] = "aborted" /\ t \in toSleep
  /\ pc[t] = "l_redo" => saves > 0
  /\ mode[t] = "aborted" => saves > 0
  /\ LwAwaited(t) => pc[t] \in LwMutex!Sleeping /\ ~Contains(sq, t)
  /\ pc[t] = "k_awake" => next[t] \in Threads

\* While loaded sleepers have not slept again, only they make steps, and they
\* find the word taken.
LwLoadInv ==
  ~retry /\ toSleep # {} =>
    /\ exists /\ ~signaled
    /\ \A t \in Threads :
         /\ pc[t] \in {"idle", "l_redo", "l_spin", "l_try", "k_lock", "k_sleep", "k_wait",
                       "a_lock", "u_redo"}
         /\ t \in toSleep =>
              pc[t] \in {"l_redo", "l_spin", "l_try", "k_lock", "k_sleep"} /\ mode[t] = "aborted"
         /\ pc[t] \in {"l_spin", "l_try", "k_lock", "k_sleep"} => t \in toSleep
         /\ pc[t] \in {"k_sleep", "k_wait"} => Contains(sq, t)

LwInv ==
  /\ LwTypes /\ LwFaultInv /\ LwGuardInv /\ LwListInv /\ LwOwnInv /\ LwExistsInv
  /\ LwRightInv /\ LwCountInv /\ LwRetryInv /\ LwLoadInv
  /\ \A t \in Threads : LwThreadInv(t)


-----------------------------------------------------------------------------
(* What a thread changes in a step of the light-weight mutex *)

(***************************************************************************)
(* The module counts and looks into its list as this one.                  *)
(***************************************************************************)
LEMMA LwSame ==
  ASSUME NEW S, NEW q, NEW x
  PROVE  /\ LwMutex!Cardinality(S) = Cardinality(S)
         /\ LwMutex!Contains(q, x) <=> Contains(q, x)
         /\ LwMutex!Without(q, x) = RemoveFirst(q, x)
<1>1. LwMutex!Cardinality(S) = Cardinality(S)
  BY DEF LwMutex!Cardinality, Cardinality
<1>2. LwMutex!Contains(q, x) <=> Contains(q, x)
  BY DEF LwMutex!Contains, Contains
<1>3. LwMutex!Without(q, x) = RemoveFirst(q, x)
  BY DEF LwMutex!Without, LwMutex!RemoveFirst, LwMutex!RemoveAt, LwMutex!SelectInSeq, LwMutex!Min,
         RemoveFirst, RemoveAt, SelectInSeq, Min
<1>4. QED
  BY <1>1, <1>2, <1>3

\* The other threads keep their local variables.
LwOthers(t) ==
  \A u \in Threads \ {t} : /\ pc'[u] = pc[u] /\ timed'[u] = timed[u] /\ mode'[u] = mode[u]
                           /\ held'[u] = held[u] /\ next'[u] = next[u]

\* The others stay in the list, or outside.
LwListStep(t) ==
  /\ sq' \in Seq(Threads) /\ Distinct(sq')
  /\ \A u \in Threads \ {t} : Contains(sq', u) <=> Contains(sq, u)
  /\ Contains(sq', t) => pc'[t] \in (LwMutex!Sleeping \ {"t_over"}) \union {"a_lock"}
  /\ pc'[t] = "a_lock" => Contains(sq', t)

LwOwnStep(t) ==
  /\ lock' \in LwWord /\ count' \in 0..MaxLocks
  /\ lock'.owner \notin Threads => count' = 0
  /\ IF lock'.owner = t
     THEN \/ pc'[t] = "idle" /\ held'[t] = count' + 1
          \/ pc'[t] \in LwHolding /\ held'[t] = 0 /\ count' = 0
     ELSE held'[t] = 0 /\ pc'[t] \notin LwHolding
  /\ \A u \in Threads \ {t} : lock'.owner = u <=> lock.owner = u
  /\ lock.owner \in Threads \ {t} => count' = count

LwExistsStep(t) ==
  /\ ~exists => /\ sq' = <<>>
                /\ \/ lock'.owner = Dead
                   \/ /\ lock'.owner = lock.owner
                      /\ lock.owner = t /\ pc[t] = "d_dead" => pc'[t] = "d_dead"
  /\ lock'.owner = Dead => ~exists
  /\ pc'[t] = "d_dead" => ~exists
  /\ signaled' => sq' = <<>>

LwRightStep(t) ==
  /\ signaled' \in BOOLEAN /\ lost' \in BOOLEAN
  /\ ~retry => /\ Ind(LwRight(t)') + Ind(signaled') + Ind(lock.owner = Reserved /\ ~lost)
                    = Ind(LwRight(t)) + Ind(signaled) + Ind(lock'.owner = Reserved /\ ~lost')
               /\ lost' => lock'.owner = Reserved
  /\ retry => lock'.owner # Reserved /\ pc'[t] \notin LwTaking

LwCountStep(t) ==
  /\ lock'.waiter + Ind(LwCounted(t)) >= lock.waiter + Ind(LwCounted(t)')
  /\ \/ retry /\ saves > 0
     \/ lock'.waiter + Ind(LwCounted(t)) = lock.waiter + Ind(LwCounted(t)')
  /\ ~retry => /\ LwBeyond(t)' => lock'.owner # Free
               /\ lock'.owner = Free => lock.owner = Free \/ lock.waiter = 0

LwRetryStep(t) ==
  retry /\ "timeout" \notin faults /\ lock'.owner = Free =>
    \/ signaled' \/ LwTaker(t)'
    \/ /\ lock.owner = Free /\ ~LwTaker(t) /\ (signaled => signaled') /\ pc'[t] # "k_lock"
       /\ sq' # <<>> => sq # <<>> \/ pc[t] = "k_lock"
    \/ lock.waiter = 0 /\ sq' = sq /\ pc'[t] # "k_lock"

LwLocalStep(t) ==
  /\ LwOthers(t) /\ LwLocals'
  /\ sched' \in [Threads -> SchedStates] /\ \A u \in Threads \ {t} : sched'[u] = sched[u]
  /\ pc[t] # "k_awake" /\ pc'[t] # "k_awake"
  /\ pc'[t] \notin {"k_sleep", "k_wait", "t_check"} /\ t \notin stopped => sched'[t] = "on"
  /\ pc'[t] \in LwUnlocking => sched'[t] = "on"
  /\ sched'[t] = "cancelled" => pc'[t] = "k_sleep" /\ ~Contains(sq', t) /\ ~LwAwaited(t)
  /\ pc'[t] = "k_wait" /\ (Contains(sq', t) \/ LwAwaited(t)) => sched'[t] = "asleep"
  /\ pc'[t] = "a_lock" => sched'[t] = "asleep"
  /\ pc'[t] = "idle" => mode'[t] = "first"
  /\ pc'[t] # "l_redo"
  /\ mode'[t] = "aborted" => mode[t] = "aborted"
  /\ LwAwaited(t) => pc'[t] \in LwMutex!Sleeping /\ ~Contains(sq', t)
  /\ pc'[t] \in LwSaveLabels => "save" \in faults
  /\ timed'[t] \/ pc'[t] \in LwTimeLabels => "timeout" \in faults

LwLoadStep(t) ==
  /\ toSleep' \subseteq toSleep /\ toSleep \ {t} \subseteq toSleep'
  /\ ~retry /\ toSleep' # {} =>
       /\ ~signaled'
       /\ pc'[t] \in {"idle", "l_redo", "l_spin", "l_try", "k_lock", "k_sleep", "k_wait",
                      "a_lock", "u_redo"}
       /\ t \in toSleep' =>
            pc'[t] \in {"l_redo", "l_spin", "l_try", "k_lock", "k_sleep"} /\ mode'[t] = "aborted"
       /\ pc'[t] \in {"l_spin", "l_try", "k_lock", "k_sleep"} => t \in toSleep'
       /\ pc'[t] \in {"k_sleep", "k_wait"} => Contains(sq', t)

(***************************************************************************)
(* The numbers of threads with a claim to the word, and of those counted,  *)
(* change as one thread does.                                              *)
(***************************************************************************)
LEMMA LwCardinals ==
  ASSUME NEW t \in Threads,
         \A u \in Threads \ {t} : (LwRight(u)' <=> LwRight(u)) /\ (LwCounted(u)' <=> LwCounted(u))
  PROVE  /\ Cardinality(LwRights) \in Nat /\ Cardinality(LwCounteds) \in Nat
         /\ Cardinality(LwRights)' \in Nat /\ Cardinality(LwCounteds)' \in Nat
         /\ Cardinality(LwRights)' = Cardinality(LwRights) + Ind(LwRight(t)') - Ind(LwRight(t))
         /\ Cardinality(LwCounteds)' =
              Cardinality(LwCounteds) + Ind(LwCounted(t)') - Ind(LwCounted(t))
<1>A. IsFiniteSet(Threads)
  BY ThreadsAssumption
<1>1. /\ Cardinality(LwRights) \in Nat /\ Cardinality(LwRights)' \in Nat
      /\ Cardinality(LwRights)' = Cardinality(LwRights) + Ind(LwRight(t)') - Ind(LwRight(t))
  <2> DEFINE A == LwRights
             B == LwRights'
  <2>1. A \in SUBSET Threads /\ B \in SUBSET Threads
    BY DEF LwRights
  <2>2. \A u \in Threads : (u \in A <=> LwRight(u)) /\ (u \in B <=> LwRight(u)')
    BY DEF LwRights
  <2>3. Ind(t \in A) = Ind(LwRight(t)) /\ Ind(t \in B) = Ind(LwRight(t)')
    BY <2>2 DEF Ind
  <2>4. \A u \in Threads : u # t => (u \in A <=> u \in B)
    BY <2>2
  <2> HIDE DEF A, B
  <2>5. /\ Cardinality(A) \in Nat /\ Cardinality(B) \in Nat
        /\ Cardinality(B) = Cardinality(A) + Ind(t \in B) - Ind(t \in A)
    BY <1>A, <2>1, <2>4, CardOne
  <2>6. QED
    BY <2>3, <2>5 DEF A, B
<1>2. /\ Cardinality(LwCounteds) \in Nat /\ Cardinality(LwCounteds)' \in Nat
      /\ Cardinality(LwCounteds)' = Cardinality(LwCounteds) + Ind(LwCounted(t)') - Ind(LwCounted(t))
  <2> DEFINE A == LwCounteds
             B == LwCounteds'
  <2>1. A \in SUBSET Threads /\ B \in SUBSET Threads
    BY DEF LwCounteds
  <2>2. \A u \in Threads : (u \in A <=> LwCounted(u)) /\ (u \in B <=> LwCounted(u)')
    BY DEF LwCounteds
  <2>3. Ind(t \in A) = Ind(LwCounted(t)) /\ Ind(t \in B) = Ind(LwCounted(t)')
    BY <2>2 DEF Ind
  <2>4. \A u \in Threads : u # t => (u \in A <=> u \in B)
    BY <2>2
  <2> HIDE DEF A, B
  <2>5. /\ Cardinality(A) \in Nat /\ Cardinality(B) \in Nat
        /\ Cardinality(B) = Cardinality(A) + Ind(t \in B) - Ind(t \in A)
    BY <1>A, <2>1, <2>4, CardOne
  <2>6. QED
    BY <2>3, <2>5 DEF A, B
<1>3. QED
  BY <1>1, <1>2

(***************************************************************************)
(* When the word says that nobody waits, nobody is counted or queued.      *)
(***************************************************************************)
LEMMA LwNobody ==
  ASSUME LwInv, lock.waiter = 0
  PROVE  sq = <<>> /\ \A t \in Threads : ~LwCounted(t)
<1>1. LwCounteds \in SUBSET Threads
  BY DEF LwCounteds
<1>2. IsFiniteSet(LwCounteds)
  BY <1>1, ThreadsAssumption, FS_Subset
<1>3. Cardinality(LwCounteds) \in Nat /\ Cardinality(LwCounteds) <= 0
  BY <1>2, FS_CardinalityType DEF LwInv, LwCountInv
<1>4. LwCounteds = {}
  BY <1>2, <1>3, FS_EmptySet
<1>5. \A t \in Threads : ~LwCounted(t)
  BY <1>4 DEF LwCounteds
<1>6. \A t \in Threads : ~Contains(sq, t)
  BY <1>5 DEF LwCounted, LwInv, LwListInv
<1>7. sq \in Seq(Threads)
  BY DEF LwInv, LwTypes
<1>8. sq = <<>>
  <2>1. SUFFICES ASSUME sq # <<>> PROVE FALSE
    OBVIOUS
  <2>2. 1 \in 1..Len(sq) /\ sq[1] \in Threads
    BY <1>7, <2>1
  <2>3. Contains(sq, sq[1])
    BY <2>2 DEF Contains
  <2>4. QED
    BY <1>6, <2>2, <2>3
<1>9. QED
  BY <1>5, <1>8

(***************************************************************************)
(* A thread goes on, and changes the word, the list and the signal only as *)
(* far as its own part in them changes.                                    *)
(***************************************************************************)
LEMMA LwStepInv ==
  ASSUME LwInv, NEW t \in Threads,
         LwLocalStep(t), LwListStep(t), LwOwnStep(t), LwExistsStep(t), LwRightStep(t),
         LwCountStep(t), LwRetryStep(t), LwLoadStep(t),
         UNCHANGED <<fifo, exists, stopped, saves, faults, guard, retry, recursive>>
  PROVE  LwInv'
<1> USE ThreadsAssumption
<1>1. LwTypes
  BY DEF LwInv
<1>T. LwTypes'
  BY <1>1 DEF LwTypes, ObjTypeOK, LwLocalStep, LwLocals, LwListStep, LwOwnStep, LwRightStep,
              LwLoadStep
<1>O. \A u \in Threads \ {t} : /\ pc'[u] = pc[u] /\ timed'[u] = timed[u] /\ mode'[u] = mode[u]
                               /\ held'[u] = held[u] /\ next'[u] = next[u] /\ sched'[u] = sched[u]
                               /\ Contains(sq', u) <=> Contains(sq, u)
  BY DEF LwLocalStep, LwOthers, LwListStep
<1>F. LwFaultInv'
  BY <1>O DEF LwInv, LwFaultInv, LwLocalStep, LwLoadStep
<1>G. LwGuardInv'
  BY <1>O DEF LwInv, LwGuardInv, LwLocalStep
<1>L. LwListInv'
  BY <1>O DEF LwInv, LwListInv, LwListStep
<1>W. LwOwnInv'
  <2>1. ASSUME NEW u \in Threads \ {t}
        PROVE  IF lock'.owner = u
               THEN \/ pc'[u] = "idle" /\ held'[u] = count' + 1
                    \/ pc'[u] \in LwHolding /\ held'[u] = 0 /\ count' = 0
               ELSE held'[u] = 0 /\ pc'[u] \notin LwHolding
    BY <1>O, <2>1 DEF LwInv, LwOwnInv, LwOwnStep
  <2>2. QED
    BY <2>1 DEF LwOwnInv, LwOwnStep
<1>X. LwExistsInv'
  BY <1>O DEF LwInv, LwExistsInv, LwExistsStep
<1>R. \A u \in Threads \ {t} : /\ LwRight(u)' <=> LwRight(u)
                               /\ LwCounted(u)' <=> LwCounted(u)
                               /\ LwBeyond(u)' <=> LwBeyond(u)
                               /\ LwTaker(u)' <=> LwTaker(u)
  BY <1>O DEF LwRight, LwCounted, LwBeyond, LwTaker
<1>N. /\ Cardinality(LwRights) \in Nat /\ Cardinality(LwCounteds) \in Nat
      /\ Cardinality(LwRights)' \in Nat /\ Cardinality(LwCounteds)' \in Nat
      /\ Cardinality(LwRights)' = Cardinality(LwRights) + Ind(LwRight(t)') - Ind(LwRight(t))
      /\ Cardinality(LwCounteds)' =
           Cardinality(LwCounteds) + Ind(LwCounted(t)') - Ind(LwCounted(t))
  BY <1>R, LwCardinals
<1>I. \A b : Ind(b) \in Nat
  BY DEF Ind
<1>V. lock.waiter \in Nat /\ lock'.waiter \in Nat
  BY <1>1 DEF LwTypes, LwOwnStep, LwWord
<1>P. LwRightInv'
  <2>1. ~retry' => /\ Cardinality(LwRights)' + Ind(signaled') = Ind(lock'.owner = Reserved /\ ~lost')
                   /\ lost' => lock'.owner = Reserved
    <3>1. SUFFICES ASSUME ~retry
                   PROVE  /\ Cardinality(LwRights)' + Ind(signaled')
                               = Ind(lock'.owner = Reserved /\ ~lost')
                          /\ lost' => lock'.owner = Reserved
      OBVIOUS
    <3>2. Cardinality(LwRights) + Ind(signaled) = Ind(lock.owner = Reserved /\ ~lost)
      BY <3>1 DEF LwInv, LwRightInv
    <3>3. /\ Ind(LwRight(t)') + Ind(signaled') + Ind(lock.owner = Reserved /\ ~lost)
               = Ind(LwRight(t)) + Ind(signaled) + Ind(lock'.owner = Reserved /\ ~lost')
          /\ lost' => lock'.owner = Reserved
      BY <3>1 DEF LwRightStep
    <3>4. /\ Ind(LwRight(t)') \in Nat /\ Ind(signaled') \in Nat /\ Ind(LwRight(t)) \in Nat
          /\ Ind(signaled) \in Nat /\ Ind(lock.owner = Reserved /\ ~lost) \in Nat
          /\ Ind(lock'.owner = Reserved /\ ~lost') \in Nat
      BY <1>I
    <3>5. QED
      BY <1>N, <3>2, <3>3, <3>4
  <2>2. retry' => lock'.owner # Reserved /\ \A u \in Threads : pc'[u] \notin LwTaking
    BY <1>O DEF LwInv, LwRightInv, LwRightStep
  <2>3. QED
    BY <2>1, <2>2 DEF LwRightInv
<1>C. LwCountInv'
  <2>1. lock'.waiter >= Cardinality(LwCounteds)'
    BY <1>N, <1>I, <1>V DEF LwInv, LwCountInv, LwCountStep
  <2>2. (retry' /\ saves' > 0) \/ lock'.waiter = Cardinality(LwCounteds)'
    BY <1>N, <1>I, <1>V DEF LwInv, LwCountInv, LwCountStep
  <2>3. ASSUME ~retry, NEW u \in Threads, LwBeyond(u)', lock'.owner = Free PROVE FALSE
    <3>1. CASE u = t
      BY <2>3, <3>1 DEF LwCountStep
    <3>2. CASE u # t
      <4>1. LwBeyond(u)
        BY <1>R, <2>3, <3>2
      <4>2. lock.owner # Free
        BY <2>3, <4>1 DEF LwInv, LwCountInv
      <4>3. lock.waiter = 0
        BY <2>3, <4>2 DEF LwCountStep
      <4>4. QED
        BY <4>1, <4>3, LwNobody DEF LwBeyond
    <3>3. QED
      BY <3>1, <3>2
  <2>4. QED
    BY <2>1, <2>2, <2>3 DEF LwCountInv
<1>Y. LwRetryInv'
  <2>1. SUFFICES ASSUME retry, "timeout" \notin faults, lock'.owner = Free,
                        sq' # <<>> \/ \E u \in Threads : pc'[u] = "k_lock",
                        ~signaled', ~LwTaker(t)'
                 PROVE  \E u \in Threads : LwTaker(u)'
    BY DEF LwRetryInv
  <2>2. CASE /\ lock.owner = Free /\ ~LwTaker(t) /\ (signaled => signaled') /\ pc'[t] # "k_lock"
             /\ sq' # <<>> => sq # <<>> \/ pc[t] = "k_lock"
    <3>1. sq # <<>> \/ \E u \in Threads : pc[u] = "k_lock"
      BY <1>O, <2>1, <2>2
    <3>2. PICK u \in Threads : LwTaker(u)
      BY <2>1, <2>2, <3>1 DEF LwInv, LwRetryInv
    <3>3. QED
      BY <1>R, <2>2, <3>2
  <2>3. CASE lock.waiter = 0 /\ sq' = sq /\ pc'[t] # "k_lock"
    <3>1. sq = <<>> /\ \A u \in Threads : ~LwCounted(u)
      BY <2>3, LwNobody
    <3>2. PICK u \in Threads : pc'[u] = "k_lock"
      BY <2>1, <2>3, <3>1
    <3>3. pc[u] = "k_lock"
      BY <1>O, <2>3, <3>2
    <3>4. QED
      BY <3>1, <3>3 DEF LwCounted
  <2>4. QED
    BY <2>1, <2>2, <2>3 DEF LwRetryStep
<1>A. \A u \in Threads : LwAwaited(u)' <=> LwAwaited(u)
  BY <1>O DEF LwAwaited, LwLocalStep
<1>H. ASSUME NEW u \in Threads PROVE LwThreadInv(u)'
  <2>1. CASE u = t
    BY <1>A, <2>1 DEF LwInv, LwThreadInv, LwLocalStep
  <2>2. CASE u # t
    BY <1>A, <1>O, <2>2 DEF LwInv, LwThreadInv, LwLoadStep
  <2>3. QED
    BY <2>1, <2>2
<1>D. LwLoadInv'
  <2>1. SUFFICES ASSUME ~retry, toSleep' # {} PROVE LwLoadInv'
    BY DEF LwLoadInv
  <2>2. toSleep # {} /\ \A u \in Threads \ {t} : u \in toSleep' <=> u \in toSleep
    BY <2>1 DEF LwLoadStep
  <2>3. exists /\ ~signaled'
    BY <2>1, <2>2 DEF LwInv, LwLoadInv, LwLoadStep
  <2>4. QED
    BY <1>O, <2>1, <2>2, <2>3 DEF LwInv, LwLoadInv, LwLoadStep
<1> QED
  BY <1>T, <1>F, <1>G, <1>L, <1>W, <1>X, <1>P, <1>C, <1>Y, <1>H, <1>D DEF LwInv


(***************************************************************************)
(* The types of what the steps read.                                       *)
(***************************************************************************)
LEMMA LwReads ==
  ASSUME LwInv, NEW t \in Threads
  PROVE  /\ LwTypes /\ pc[t] \in LwMutex!PCs /\ timed[t] \in BOOLEAN
         /\ mode[t] \in {"first", "aborted", "loop"} /\ held[t] \in 0..MaxLocks + 1
         /\ lock.owner \in Threads \union {Free, Reserved, Dead} /\ lock.waiter \in Nat
         /\ lock = [owner |-> lock.owner, waiter |-> lock.waiter]
         /\ count \in 0..MaxLocks /\ MaxLocks \in Nat /\ signaled \in BOOLEAN /\ lost \in BOOLEAN
         /\ retry \in BOOLEAN
BY LocksAssumption DEF LwInv, LwTypes, LwLocals, LwWord

(***************************************************************************)
(* A thread goes to a label, and only its guest may be told.               *)
(***************************************************************************)
LEMMA LwEnterIs ==
  ASSUME LwInv, NEW t \in Threads, NEW l \in LwMutex!PCs, NEW to \in BOOLEAN,
         NEW m \in {"first", "aborted", "loop"},
         LwMutex!Enter(t, l, to, m), next' = next, held' \in [Threads -> 0..MaxLocks + 1],
         \A u \in Threads \ {t} : held'[u] = held[u]
  PROVE  /\ pc'[t] = l /\ LwOthers(t) /\ LwLocals'
         /\ timed'[t] => to /\ l # "idle"
         /\ l # "idle" => timed'[t] = to
         /\ mode'[t] = IF l = "idle" THEN "first" ELSE m
<1>1. /\ pc' = [pc EXCEPT ![t] = l]
      /\ timed' = [timed EXCEPT ![t] = l # "idle" /\ to]
      /\ mode' = [mode EXCEPT ![t] = IF l = "idle" THEN "first" ELSE m]
  BY DEF LwMutex!Enter
<1>2. LwLocals
  BY DEF LwInv, LwTypes
<1>3. timed' \in [Threads -> BOOLEAN] /\ timed'[t] = (l # "idle" /\ to)
      /\ \A u \in Threads \ {t} : timed'[u] = timed[u]
  BY <1>1, <1>2, Zenon DEF LwLocals
<1>4. mode' \in [Threads -> {"first", "aborted", "loop"}]
      /\ mode'[t] = (IF l = "idle" THEN "first" ELSE m)
      /\ \A u \in Threads \ {t} : mode'[u] = mode[u]
  BY <1>1, <1>2 DEF LwLocals
<1>5. pc' \in [Threads -> LwMutex!PCs] /\ pc'[t] = l /\ \A u \in Threads \ {t} : pc'[u] = pc[u]
  BY <1>1, <1>2 DEF LwLocals
<1>6. LwOthers(t) /\ LwLocals'
  BY <1>2, <1>3, <1>4, <1>5 DEF LwOthers, LwLocals
<1>7. QED
  BY <1>3, <1>4, <1>5, <1>6

(***************************************************************************)
(* The same where the guest is not told anything.                          *)
(***************************************************************************)
LEMMA LwGotoIs ==
  ASSUME LwInv, NEW t \in Threads, NEW l \in LwMutex!PCs, NEW to \in BOOLEAN,
         NEW m \in {"first", "aborted", "loop"},
         LwMutex!Enter(t, l, to, m), held' = held, next' = next
  PROVE  /\ pc'[t] = l /\ held'[t] = held[t] /\ LwOthers(t) /\ LwLocals'
         /\ timed'[t] => to /\ l # "idle"
         /\ l # "idle" => timed'[t] = to
         /\ mode'[t] = IF l = "idle" THEN "first" ELSE m
<1>1. held' \in [Threads -> 0..MaxLocks + 1]
  BY DEF LwInv, LwTypes, LwLocals
<1>2. QED
  BY <1>1, LwEnterIs

\* A thread outside the kernel's lock.
LwOutside(t) == pc[t] \notin LwMutex!Sleeping \union {"a_lock", "k_awake"}

\* What a loaded sleeper does on its way back.
LwMoveLoad(t, l) ==
  ~retry /\ toSleep # {} =>
    /\ signaled' = signaled /\ mode'[t] = mode[t]
    /\ \/ pc[t] = "l_redo" /\ l = "l_spin"
       \/ pc[t] = "l_spin" /\ l = "l_try"
       \/ pc[t] = "l_try" /\ l = "k_lock"

(***************************************************************************)
(* A thread outside the kernel's lock stays there.                         *)
(***************************************************************************)
LEMMA LwMoveInv ==
  ASSUME LwInv, NEW t \in Threads, LwOutside(t), NEW l \in LwMutex!PCs,
         pc'[t] = l, LwOthers(t), LwLocals',
         l \notin LwMutex!Sleeping \union {"a_lock", "k_awake", "l_redo"},
         UNCHANGED <<fifo, exists, stopped, toSleep, saves, faults, guard, sched, retry,
                     recursive, sq>>,
         LwOwnStep(t), LwExistsStep(t), LwRightStep(t), LwCountStep(t), LwRetryStep(t),
         LwMoveLoad(t, l),
         l \in LwUnlocking => sched[t] = "on",
         l = "idle" => mode'[t] = "first",
         mode'[t] = "aborted" => mode[t] = "aborted",
         l \in LwSaveLabels => "save" \in faults,
         timed'[t] => "timeout" \in faults
  PROVE  LwInv'
<1>1. ~Contains(sq, t)
  BY DEF LwInv, LwListInv, LwOutside
<1>2. ~LwAwaited(t) /\ sched[t] # "cancelled" /\ (t \notin stopped => sched[t] = "on")
  BY DEF LwInv, LwThreadInv, LwOutside, LwMutex!Sleeping
<1>3. l \notin LwTimeLabels /\ l \notin {"k_sleep", "k_wait", "t_check"}
  BY DEF LwTimeLabels, LwMutex!Sleeping
<1>4. sched' \in [Threads -> SchedStates]
  BY DEF LwInv, LwTypes, ObjTypeOK
<1>5. LwLocalStep(t)
  BY <1>1, <1>2, <1>3, <1>4 DEF LwLocalStep, LwOutside
<1>6. LwListStep(t)
  BY <1>1 DEF LwListStep, LwInv, LwTypes, LwListInv, Distinct
<1>7. LwLoadStep(t)
  <2>1. ASSUME ~retry, toSleep # {}
        PROVE  /\ ~signaled' /\ t \in toSleep /\ mode'[t] = "aborted"
               /\ l \in {"l_spin", "l_try", "k_lock"}
    <3>1. pc[t] = "l_redo" => t \in toSleep
      BY DEF LwInv, LwThreadInv
    <3>2. QED
      BY <2>1, <3>1 DEF LwInv, LwLoadInv, LwMoveLoad
  <2>2. QED
    BY <2>1 DEF LwLoadStep
<1>8. QED
  BY <1>5, <1>6, <1>7, LwStepInv

(***************************************************************************)
(* A thread outside, as the list and the word see it.                      *)
(***************************************************************************)
LEMMA LwOutsideIs ==
  ASSUME LwInv, NEW t \in Threads, LwOutside(t)
  PROVE  /\ ~Contains(sq, t)
         /\ LwRight(t) <=> pc[t] \in {"r_got", "l_own", "y_own", "d_own", "k_unlock", "k_reown",
                                      "a_unlock", "u_redo"}
         /\ LwCounted(t) <=> \/ pc[t] \in {"l_try", "l_dec", "k_lock", "r_got", "r_err", "l_redo"}
                             \/ pc[t] = "l_spin" /\ mode[t] = "aborted"
         /\ LwTaker(t) <=> pc[t] \in {"l_spin", "l_try", "l_redo", "r_got", "k_unlock", "k_reown",
                                      "a_unlock"}
BY DEF LwInv, LwListInv, LwOutside, LwRight, LwCounted, LwTaker

(***************************************************************************)
(* The same of where it goes.                                              *)
(***************************************************************************)
LEMMA LwGoesOutside ==
  ASSUME NEW t, NEW l, pc'[t] = l, l \notin LwMutex!Sleeping \union {"a_lock", "k_awake"}
  PROVE  /\ LwRight(t)' <=> l \in {"r_got", "l_own", "y_own", "d_own", "k_unlock", "k_reown",
                                   "a_unlock", "u_redo"}
         /\ LwCounted(t)' <=> \/ l \in {"l_try", "l_dec", "k_lock", "r_got", "r_err", "l_redo"}
                              \/ l = "l_spin" /\ mode'[t] = "aborted"
         /\ LwTaker(t)' <=> l \in {"l_spin", "l_try", "l_redo", "r_got", "k_unlock", "k_reown",
                                   "a_unlock"}
         /\ LwBeyond(t)' <=> LwCounted(t)' /\ (l # "l_try" \/ mode'[t] = "aborted")
BY DEF LwRight, LwCounted, LwTaker, LwBeyond

(***************************************************************************)
(* Claims to the word stay as they are.                                    *)
(***************************************************************************)
LEMMA LwRightSame ==
  ASSUME LwInv, NEW t \in Threads, LwRight(t)' <=> LwRight(t), signaled' = signaled, lost' = lost,
         lock'.owner = Reserved <=> lock.owner = Reserved, retry => pc'[t] \notin LwTaking
  PROVE  LwRightStep(t)
<1>1. Ind(LwRight(t)') = Ind(LwRight(t)) /\ Ind(signaled') = Ind(signaled)
      /\ Ind(lock'.owner = Reserved /\ ~lost') = Ind(lock.owner = Reserved /\ ~lost)
  BY DEF Ind
<1>2. Ind(LwRight(t)) \in Nat /\ Ind(signaled) \in Nat /\ Ind(lock.owner = Reserved /\ ~lost) \in Nat
  BY DEF Ind
<1>3. /\ signaled' \in BOOLEAN /\ lost' \in BOOLEAN
      /\ ~retry /\ lost' => lock'.owner = Reserved
      /\ retry => lock'.owner # Reserved
  BY DEF LwInv, LwTypes, LwRightInv
<1>4. Ind(LwRight(t)') + Ind(signaled') + Ind(lock.owner = Reserved /\ ~lost)
        = Ind(LwRight(t)) + Ind(signaled) + Ind(lock'.owner = Reserved /\ ~lost')
  BY <1>1, <1>2
<1>5. QED
  BY <1>3, <1>4 DEF LwRightStep

(***************************************************************************)
(* The number of waiters stays as it is.  A retrying lock call that was    *)
(* made again may leave without counting itself out.                       *)
(***************************************************************************)
LEMMA LwCountSame ==
  ASSUME LwInv, NEW t \in Threads, lock'.waiter = lock.waiter,
         \/ LwCounted(t)' <=> LwCounted(t)
         \/ retry /\ saves > 0 /\ ~LwCounted(t)',
         ~retry /\ LwBeyond(t)' => lock'.owner # Free,
         ~retry /\ lock'.owner = Free => lock.owner = Free \/ lock.waiter = 0
  PROVE  LwCountStep(t)
<1>1. /\ Ind(LwCounted(t)') \in Nat /\ Ind(LwCounted(t)) \in Nat
      /\ Ind(LwCounted(t)') <= Ind(LwCounted(t))
      /\ (retry /\ saves > 0) \/ Ind(LwCounted(t)') = Ind(LwCounted(t))
  BY DEF Ind
<1>2. lock.waiter \in Nat
  BY LwReads
<1>3. /\ lock'.waiter + Ind(LwCounted(t)) >= lock.waiter + Ind(LwCounted(t)')
      /\ \/ retry /\ saves > 0
         \/ lock'.waiter + Ind(LwCounted(t)) = lock.waiter + Ind(LwCounted(t)')
  BY <1>1, <1>2
<1>4. QED
  BY <1>3 DEF LwCountStep

(***************************************************************************)
(* The depth and the owner stay as they are.                               *)
(***************************************************************************)
LEMMA LwOwnSame ==
  ASSUME LwInv, NEW t \in Threads, lock' = lock, count' = count, held'[t] = held[t],
         IF lock.owner = t THEN \/ pc[t] = "idle" /\ pc'[t] = "idle"
                                \/ pc[t] \in LwHolding /\ pc'[t] \in LwHolding
         ELSE pc'[t] \notin LwHolding
  PROVE  LwOwnStep(t)
<1>1. lock \in LwWord /\ count \in 0..MaxLocks
  BY DEF LwInv, LwTypes
<1>2. \A l : ~(l = "idle" /\ l \in LwHolding)
  BY DEF LwHolding
<1>3. QED
  BY <1>1, <1>2 DEF LwOwnStep, LwInv, LwOwnInv


(***************************************************************************)
(* A thread outside goes on, and leaves the word and the signal alone.     *)
(***************************************************************************)
LEMMA LwQuietInv ==
  ASSUME LwInv, NEW t \in Threads, LwOutside(t), NEW l \in LwMutex!PCs,
         pc'[t] = l, LwOthers(t), LwLocals', held'[t] = held[t],
         l \notin LwMutex!Sleeping \union {"a_lock", "k_awake", "l_redo", "d_dead"}, pc[t] # "d_dead",
         UNCHANGED <<fifo, exists, stopped, toSleep, saves, faults, guard, sched, retry,
                     recursive, sq, lock, count, signaled, lost>>,
         IF lock.owner = t THEN \/ pc[t] = "idle" /\ l = "idle"
                                \/ pc[t] \in LwHolding /\ l \in LwHolding
         ELSE l \notin LwHolding,
         LwRight(t)' <=> LwRight(t), LwCounted(t)' <=> LwCounted(t),
         retry => l \notin LwTaking,
         ~retry /\ LwBeyond(t)' => lock.owner # Free,
         retry /\ lock.owner = Free /\ LwTaker(t) => LwTaker(t)',
         retry /\ lock.owner = Free => l # "k_lock",
         LwMoveLoad(t, l),
         l \in LwUnlocking => sched[t] = "on",
         l = "idle" => mode'[t] = "first",
         mode'[t] = "aborted" => mode[t] = "aborted",
         l \in LwSaveLabels => "save" \in faults,
         timed'[t] => "timeout" \in faults
  PROVE  LwInv'
<1>1. LwOwnStep(t)
  BY LwOwnSame
<1>2. LwExistsStep(t)
  BY DEF LwExistsStep, LwInv, LwExistsInv
<1>3. LwRightStep(t)
  BY LwRightSame
<1>4. LwCountStep(t)
  BY LwCountSame
<1>5. LwRetryStep(t)
  BY DEF LwRetryStep
<1>6. QED
  BY <1>1, <1>2, <1>3, <1>4, <1>5, LwMoveInv

(***************************************************************************)
(* A thread that takes a free or reserved word is its owner, with depth    *)
(* one if the guest is told.                                               *)
(***************************************************************************)
LEMMA LwTakeIs ==
  ASSUME LwInv, NEW t \in Threads, NEW l \in LwMutex!PCs, l \in {"idle", "l_dec", "d_kernel"},
         NEW to \in BOOLEAN,
         lock.owner \in {Free, Reserved}, LwMutex!Take(t, l, to), next' = next, count' = count
  PROVE  /\ l \in LwMutex!PCs /\ pc'[t] = l /\ LwOthers(t) /\ LwLocals'
         /\ timed'[t] => to
         /\ l = "idle" => mode'[t] = "first"
         /\ mode'[t] = "aborted" => mode[t] = "aborted"
         /\ LwOwnStep(t)
         /\ lock'.owner = t /\ lock'.waiter = lock.waiter
<1>1. /\ lock' = [lock EXCEPT !.owner = t]
      /\ LwMutex!Enter(t, l, to, mode[t])
      /\ held' = IF l = "idle" THEN [held EXCEPT ![t] = @ + 1] ELSE held
  BY DEF LwMutex!Take, LwMutex!Told
<1>2. l \in LwMutex!PCs
  OBVIOUS
<1>3. lock.owner \notin Threads /\ lock.owner # t
  BY WordsAssumption
<1>4. held[t] = 0 /\ count = 0
  BY <1>3 DEF LwInv, LwOwnInv
<1>5. lock' = [owner |-> t, waiter |-> lock.waiter] /\ lock'.owner = t /\ lock'.waiter = lock.waiter
      /\ lock' \in LwWord
  BY <1>1, LwReads DEF LwWord
<1>6. held \in [Threads -> 0..MaxLocks + 1] /\ MaxLocks \in Nat
  BY LwReads DEF LwTypes, LwLocals
<1>7. /\ held' \in [Threads -> 0..MaxLocks + 1] /\ \A u \in Threads \ {t} : held'[u] = held[u]
      /\ l = "idle" => held'[t] = 1
      /\ l # "idle" => held'[t] = 0
  <2>1. CASE l = "idle"
    <3>1. held' = [held EXCEPT ![t] = held[t] + 1] /\ held[t] + 1 \in 0..MaxLocks + 1
      BY <1>1, <1>4, <1>6, <2>1
    <3>2. QED
      BY <1>4, <1>6, <2>1, <3>1
  <2>2. CASE l # "idle"
    BY <1>1, <1>4, <1>6, <2>2
  <2>3. QED
    BY <2>1, <2>2
<1>8. /\ pc'[t] = l /\ LwOthers(t) /\ LwLocals'
      /\ timed'[t] => to /\ l # "idle"
      /\ mode'[t] = IF l = "idle" THEN "first" ELSE mode[t]
  <2>1. mode[t] \in {"first", "aborted", "loop"}
    BY LwReads
  <2>2. QED
    BY <1>1, <1>7, <2>1, LwEnterIs
<1>9. LwOwnStep(t)
  <2>1. \/ pc'[t] = "idle" /\ held'[t] = count' + 1
        \/ pc'[t] \in LwHolding /\ held'[t] = 0 /\ count' = 0
    BY <1>4, <1>7, <1>8 DEF LwHolding
  <2>2. count' \in 0..MaxLocks
    BY LwReads
  <2>3. QED
    BY <1>3, <1>4, <1>5, <2>1, <2>2 DEF LwOwnStep
<1>10. QED
  BY <1>2, <1>5, <1>8, <1>9

(***************************************************************************)
(* What a thread outside the lock call may be when the word is free.       *)
(***************************************************************************)
LEMMA LwFreeIsQuiet ==
  ASSUME LwInv, lock.owner = Free
  PROVE  /\ exists
         /\ ~retry => /\ toSleep = {} /\ ~lost /\ ~signaled
                      /\ \A t \in Threads : ~LwRight(t) /\ ~LwBeyond(t)
<1>1. exists
  BY WordsAssumption DEF LwInv, LwExistsInv
<1>2. ASSUME ~retry PROVE toSleep = {} /\ ~lost /\ ~signaled /\ \A t \in Threads : ~LwRight(t) /\ ~LwBeyond(t)
  <2>1. ~lost
    BY <1>2, WordsAssumption DEF LwInv, LwRightInv
  <2>2. \A t \in Threads : ~LwBeyond(t)
    BY <1>2 DEF LwInv, LwCountInv
  <2>3. toSleep = {}
    <3>1. SUFFICES ASSUME toSleep # {} PROVE FALSE
      OBVIOUS
    <3>2. PICK t \in toSleep : TRUE
      BY <3>1
    <3>3. t \in Threads
      BY <3>2 DEF LwInv, LwTypes, ObjTypeOK
    <3>4. pc[t] \in {"l_redo", "l_spin", "l_try", "k_lock", "k_sleep"} /\ mode[t] = "aborted"
      BY <1>2, <3>1, <3>2, <3>3 DEF LwInv, LwLoadInv
    <3>5. LwBeyond(t)
      BY <3>4 DEF LwBeyond, LwCounted, LwMutex!Sleeping
    <3>6. QED
      BY <2>2, <3>3, <3>5
  <2>4. Cardinality(LwRights) + Ind(signaled) = 0
    BY <1>2, WordsAssumption DEF LwInv, LwRightInv, Ind
  <2>5. LwRights \in SUBSET Threads
    BY DEF LwRights
  <2>6. IsFiniteSet(LwRights)
    BY <2>5, ThreadsAssumption, FS_Subset
  <2>7. Cardinality(LwRights) \in Nat /\ Ind(signaled) \in Nat
    BY <2>6, FS_CardinalityType DEF Ind
  <2>8. Cardinality(LwRights) = 0 /\ Ind(signaled) = 0
    BY <2>4, <2>7
  <2>9. LwRights = {} /\ ~signaled
    BY <2>6, <2>8, FS_EmptySet DEF Ind
  <2>10. QED
    BY <2>1, <2>2, <2>3, <2>9 DEF LwRights
<1>3. QED
  BY <1>1, <1>2

(***************************************************************************)
(* Who has a claim to the word finds it reserved, with nobody else having  *)
(* one, unless the threads compete for it.                                 *)
(***************************************************************************)
LEMMA LwRightIsAlone ==
  ASSUME LwInv, ~retry
  PROVE  /\ \A t \in Threads : LwRight(t) => ~signaled /\ lock.owner = Reserved /\ ~lost
         /\ signaled => lock.owner = Reserved /\ ~lost /\ \A t \in Threads : ~LwRight(t)
<1>1. LwRights \in SUBSET Threads
  BY DEF LwRights
<1>2. IsFiniteSet(LwRights)
  BY <1>1, ThreadsAssumption, FS_Subset
<1>3. Cardinality(LwRights) \in Nat
  BY <1>2, FS_CardinalityType
<1>4. Cardinality(LwRights) + Ind(signaled) = Ind(lock.owner = Reserved /\ ~lost)
  BY DEF LwInv, LwRightInv
<1>5. ASSUME NEW t \in Threads, LwRight(t) PROVE ~signaled /\ lock.owner = Reserved /\ ~lost
  <2>1. Cardinality(LwRights) # 0
    BY <1>2, <1>5, FS_EmptySet DEF LwRights
  <2>2. QED
    BY <1>3, <1>4, <2>1 DEF Ind
<1>6. ASSUME signaled PROVE lock.owner = Reserved /\ ~lost /\ \A t \in Threads : ~LwRight(t)
  <2>1. Ind(signaled) = 1
    BY <1>6 DEF Ind
  <2>2. lock.owner = Reserved /\ ~lost
    BY <1>3, <1>4, <2>1 DEF Ind
  <2>3. QED
    BY <1>5, <1>6, <2>2
<1>7. QED
  BY <1>5, <1>6


(***************************************************************************)
(* A thread that takes a free word, or one that was kept for it.           *)
(***************************************************************************)
LEMMA LwTakeInv ==
  ASSUME LwInv, NEW t \in Threads, NEW l \in LwMutex!PCs, l \in {"idle", "l_dec", "d_kernel"},
         NEW to \in BOOLEAN, to => "timeout" \in faults, LwMutex!Take(t, l, to),
         UNCHANGED <<fifo, exists, stopped, toSleep, saves, faults, guard, sched, retry,
                     recursive, count, sq, signaled, next, lost>>,
         \/ lock.owner = Free /\ pc[t] \in {"idle", "l_redo", "l_spin", "l_try"}
         \/ pc[t] \in {"l_own", "y_own", "d_own"},
         l = "l_dec" <=> pc[t] = "l_try",
         l = "d_kernel" => sched[t] = "on"
  PROVE  LwInv'
<1>1. LwOutside(t)
  BY DEF LwOutside, LwMutex!Sleeping
<1>2. /\ LwRight(t) <=> pc[t] \in {"l_own", "y_own", "d_own"}
      /\ LwCounted(t) <=> pc[t] \in {"l_try", "l_redo"} \/ (pc[t] = "l_spin" /\ mode[t] = "aborted")
  BY <1>1, LwOutsideIs
<1>3. /\ pc[t] \in {"l_own", "y_own", "d_own"} => lock.owner = Reserved /\ ~retry /\ ~lost /\ ~signaled
      /\ lock.owner \in {Free, Reserved} /\ exists
  <2>1. ASSUME pc[t] \in {"l_own", "y_own", "d_own"}
        PROVE  lock.owner = Reserved /\ ~retry /\ ~lost /\ ~signaled
    <3>1. ~retry
      BY <2>1 DEF LwInv, LwRightInv, LwTaking
    <3>2. QED
      BY <1>2, <2>1, <3>1, LwRightIsAlone
  <2>2. lock.owner \in {Free, Reserved}
    BY <2>1
  <2>3. exists
    BY <2>2, WordsAssumption DEF LwInv, LwExistsInv
  <2>4. QED
    BY <2>1, <2>2, <2>3
<1>4. /\ pc'[t] = l /\ LwOthers(t) /\ LwLocals'
      /\ timed'[t] => to
      /\ l = "idle" => mode'[t] = "first"
      /\ mode'[t] = "aborted" => mode[t] = "aborted"
      /\ LwOwnStep(t)
      /\ lock'.owner = t /\ lock'.waiter = lock.waiter
  BY <1>3, LwTakeIs
<1>5. t # Free /\ t # Reserved /\ t # Dead
  BY WordsAssumption
<1>6. /\ l \notin LwMutex!Sleeping \union {"a_lock", "k_awake", "l_redo"} /\ l # "d_dead"
      /\ l \notin LwTaking /\ l \notin LwSaveLabels /\ (l \in LwUnlocking => l = "d_kernel")
  BY DEF LwMutex!Sleeping, LwTaking, LwSaveLabels, LwUnlocking
<1>7. ~LwRight(t)' /\ (LwCounted(t)' <=> l = "l_dec")
  BY <1>4, <1>6, LwGoesOutside
<1>8. LwExistsStep(t)
  BY <1>3, <1>4, <1>5, <1>6 DEF LwExistsStep, LwInv, LwExistsInv
<1>9. LwRightStep(t)
  <2>1. CASE pc[t] \in {"l_own", "y_own", "d_own"}
    <3>1. /\ Ind(LwRight(t)') = 0 /\ Ind(signaled') = 0 /\ Ind(lock.owner = Reserved /\ ~lost) = 1
          /\ Ind(LwRight(t)) = 1 /\ Ind(signaled) = 0 /\ Ind(lock'.owner = Reserved /\ ~lost') = 0
      BY <1>2, <1>3, <1>4, <1>5, <1>7, <2>1 DEF Ind
    <3>2. signaled' \in BOOLEAN /\ lost' \in BOOLEAN
      BY LwReads
    <3>3. QED
      BY <1>3, <2>1, <3>1, <3>2 DEF LwRightStep
  <2>2. CASE pc[t] \notin {"l_own", "y_own", "d_own"}
    BY <1>2, <1>4, <1>5, <1>6, <1>7, <2>2, LwRightSame, WordsAssumption
  <2>3. QED
    BY <2>1, <2>2
<1>10. \/ LwCounted(t)' <=> LwCounted(t)
       \/ retry /\ saves > 0 /\ ~LwCounted(t)'
  <2>1. SUFFICES ASSUME pc[t] = "l_redo" \/ (pc[t] = "l_spin" /\ mode[t] = "aborted")
                 PROVE  retry /\ saves > 0 /\ ~LwCounted(t)'
    BY <1>2, <1>7
  <2>2. ~LwCounted(t)' /\ lock.owner = Free
    BY <1>7, <2>1
  <2>3. mode[t] = "aborted" /\ saves > 0
    BY <2>1 DEF LwInv, LwThreadInv
  <2>4. LwBeyond(t)
    BY <1>2, <2>1 DEF LwBeyond
  <2>5. retry
    BY <2>2, <2>4, LwFreeIsQuiet
  <2>6. QED
    BY <2>2, <2>3, <2>5
<1>11. LwCountStep(t)
  BY <1>4, <1>5, <1>10, LwCountSame
<1>12. LwRetryStep(t)
  BY <1>4, <1>5 DEF LwRetryStep
<1>13. LwMoveLoad(t, l)
  <2>1. SUFFICES ASSUME ~retry, toSleep # {} PROVE FALSE
    BY DEF LwMoveLoad
  <2>2. lock.owner # Free
    BY <2>1, LwFreeIsQuiet
  <2>3. pc[t] \in {"l_own", "y_own", "d_own"}
    BY <2>2
  <2>4. QED
    BY <2>1, <2>3 DEF LwInv, LwLoadInv
<1>14. QED
  BY <1>1, <1>4, <1>6, <1>8, <1>9, <1>11, <1>12, <1>13, LwMoveInv

(***************************************************************************)
(* The compare-and-swap at the beginning of a call.                        *)
(***************************************************************************)
LEMMA LwAcquireInv ==
  ASSUME LwInv, NEW t \in Threads, NEW from \in LwMutex!PCs, NEW free \in LwMutex!PCs,
         NEW reserved \in LwMutex!PCs, NEW busy \in LwMutex!PCs, NEW to \in BOOLEAN,
         to => "timeout" \in faults,
         \/ from = "idle" /\ free = "idle" /\ reserved = "l_spin" /\ busy = "l_spin"
         \/ from = "l_redo" /\ free = "idle" /\ reserved = "l_spin" /\ busy = "l_spin"
         \/ from = "idle" /\ free = "idle" /\ reserved = "y_kernel" /\ busy = "idle"
         \/ from = "idle" /\ free = "d_kernel" /\ reserved = "d_try" /\ busy = "idle",
         LwMutex!Acquire(t, from, free, reserved, busy, to)
  PROVE  LwInv'
<1>1. /\ LwMutex!MayStep(t, from)
      /\ \/ lock.owner = Free /\ LwMutex!Take(t, free, to) /\ UNCHANGED count
         \/ /\ lock.owner = t
            /\ IF free = "idle" /\ recursive /\ count < MaxLocks
               THEN count' = count + 1 /\ LwMutex!Goto(t, "idle") /\ LwMutex!Told(t, "idle")
               ELSE UNCHANGED <<count, held>> /\ LwMutex!Goto(t, "idle")
            /\ UNCHANGED lock
         \/ /\ lock.owner \notin {Free, t}
            /\ LwMutex!Enter(t, CASE lock.owner = Dead -> "idle"
                                  [] lock.owner = Reserved -> reserved
                                  [] OTHER -> busy, to, mode[t])
            /\ UNCHANGED <<lock, count, held>>
      /\ UNCHANGED <<fifo, exists, stopped, toSleep, saves, faults, guard, sched, retry, recursive,
                     sq, signaled, next, lost>>
  BY DEF LwMutex!Acquire, LwMutex!world
<1>2. /\ pc[t] = from
      /\ from = "idle" => t \notin stopped /\ toSleep = {}
      /\ toSleep = {} \/ t \in toSleep
  BY <1>1 DEF LwMutex!MayStep
<1>3. LwOutside(t)
  BY <1>2 DEF LwOutside, LwMutex!Sleeping
<1>4. ~LwRight(t) /\ (LwCounted(t) <=> from = "l_redo") /\ ~(LwTaker(t) /\ from = "idle")
  BY <1>2, <1>3, LwOutsideIs
<1>5. /\ from = "idle" => sched[t] = "on" /\ mode[t] = "first"
      /\ from = "l_redo" => mode[t] = "aborted" /\ saves > 0 /\ t \in toSleep
  BY <1>2 DEF LwInv, LwThreadInv
<1>6. timed[t] \in BOOLEAN /\ mode[t] \in {"first", "aborted", "loop"}
      /\ (timed[t] => "timeout" \in faults)
  BY LwReads DEF LwInv, LwFaultInv
<1>7. CASE lock.owner = Free
  <2>1. t # Free
    BY WordsAssumption
  <2>2. LwMutex!Take(t, free, to) /\ count' = count
    BY <1>1, <1>7, <2>1
  <2>3. free \in {"idle", "l_dec", "d_kernel"} /\ from \in {"idle", "l_redo"} /\ free # "l_dec"
        /\ (free = "d_kernel" => from = "idle")
    OBVIOUS
  <2>4. QED
    BY <1>1, <1>2, <1>5, <1>7, <2>2, <2>3, LwTakeInv
<1>8. CASE lock.owner = t
  <2>1. t # Free /\ t # Reserved /\ t # Dead
    BY WordsAssumption
  <2>2. from = "idle" /\ held[t] = count + 1
    BY <1>2, <1>8 DEF LwInv, LwOwnInv, LwHolding
  <2>3. PICK l \in LwMutex!PCs : l = "idle"
    BY DEF LwMutex!PCs
  <2>4. LwMutex!Enter(t, l, timed[t], mode[t]) /\ lock' = lock
    BY <1>1, <1>8, <2>1, <2>3 DEF LwMutex!Goto
  <2>5. l \notin LwMutex!Sleeping \union {"a_lock", "k_awake", "l_redo", "d_dead"}
        /\ l \notin LwTaking /\ l \notin LwSaveLabels /\ l \notin LwUnlocking /\ l \notin LwHolding
    BY <2>3 DEF LwMutex!Sleeping, LwTaking, LwSaveLabels, LwUnlocking, LwHolding
  <2>6. LwMoveLoad(t, l)
    BY <1>2, <2>2 DEF LwMoveLoad
  <2>7. CASE free = "idle" /\ recursive /\ count < MaxLocks
    <3>1. count' = count + 1 /\ held' = [held EXCEPT ![t] = held[t] + 1]
      BY <1>1, <1>8, <2>1, <2>7 DEF LwMutex!Told
    <3>2. held \in [Threads -> 0..MaxLocks + 1] /\ count \in 0..MaxLocks /\ MaxLocks \in Nat
      BY LwReads DEF LwTypes, LwLocals
    <3>3. held[t] + 1 \in 0..MaxLocks + 1 /\ count' \in 0..MaxLocks
      BY <2>2, <2>7, <3>1, <3>2
    <3>4. held' \in [Threads -> 0..MaxLocks + 1] /\ held'[t] = held[t] + 1
          /\ \A u \in Threads \ {t} : held'[u] = held[u]
      BY <3>1, <3>2, <3>3
    <3>5. held'[t] = count' + 1
      BY <2>2, <3>1, <3>2, <3>4
    <3>6. /\ pc'[t] = l /\ LwOthers(t) /\ LwLocals'
          /\ timed'[t] => timed[t] /\ l # "idle"
          /\ mode'[t] = IF l = "idle" THEN "first" ELSE mode[t]
      BY <1>1, <1>6, <2>4, <3>4, LwEnterIs
    <3>7. LwOwnStep(t)
      BY <1>8, <2>3, <2>4, <3>3, <3>5, <3>6 DEF LwOwnStep, LwInv, LwTypes
    <3>8. LwExistsStep(t)
      BY <1>1, <1>2, <2>2, <2>4, <2>5, <3>6 DEF LwExistsStep, LwInv, LwExistsInv
    <3>9. ~LwRight(t)' /\ ~LwCounted(t)' /\ ~LwTaker(t)'
      BY <2>3, <2>5, <3>6, LwGoesOutside
    <3>10. LwRightStep(t)
      BY <1>1, <1>4, <2>4, <2>5, <3>6, <3>9, LwRightSame
    <3>11. LwCountStep(t)
      BY <1>4, <1>8, <2>1, <2>2, <2>4, <3>9, LwCountSame
    <3>12. LwRetryStep(t)
      BY <1>8, <2>1, <2>4 DEF LwRetryStep
    <3>13. QED
      BY <1>1, <1>3, <1>5, <1>6, <2>2, <2>3, <2>5, <2>6, <3>6, <3>7, <3>8, <3>10, <3>11, <3>12, LwMoveInv
  <2>8. CASE ~(free = "idle" /\ recursive /\ count < MaxLocks)
    <3>1. count' = count /\ held' = held
      BY <1>1, <1>8, <2>1, <2>8
    <3>2. /\ pc'[t] = l /\ held'[t] = held[t] /\ LwOthers(t) /\ LwLocals'
          /\ timed'[t] => timed[t] /\ l # "idle"
          /\ mode'[t] = IF l = "idle" THEN "first" ELSE mode[t]
      BY <1>1, <1>6, <2>4, <3>1, LwGotoIs
    <3>3. ~LwRight(t)' /\ ~LwCounted(t)' /\ ~LwTaker(t)'
      BY <2>3, <2>5, <3>2, LwGoesOutside
    <3>4. ~LwBeyond(t)'
      BY <3>3 DEF LwBeyond
    <3>5. QED
      BY <1>1, <1>2, <1>3, <1>4, <1>6, <1>8, <2>1, <2>2, <2>3, <2>4, <2>5, <2>6, <3>1, <3>2, <3>3, <3>4,
         LwQuietInv
  <2>9. QED
    BY <2>7, <2>8
<1>9. CASE lock.owner \notin {Free, t}
  <2>1. PICK l \in LwMutex!PCs : l = (CASE lock.owner = Dead -> "idle"
                                        [] lock.owner = Reserved -> reserved
                                        [] OTHER -> busy)
    <3>1. "idle" \in LwMutex!PCs
      BY DEF LwMutex!PCs
    <3>2. QED
      BY <3>1
  <2>2. LwMutex!Enter(t, l, to, mode[t]) /\ lock' = lock /\ count' = count /\ held' = held
    BY <1>1, <1>9, <2>1
  <2>3. /\ pc'[t] = l /\ held'[t] = held[t] /\ LwOthers(t) /\ LwLocals'
        /\ timed'[t] => to /\ l # "idle"
        /\ mode'[t] = IF l = "idle" THEN "first" ELSE mode[t]
    BY <1>1, <1>6, <2>2, LwGotoIs
  <2>4. /\ lock.owner = Dead => l = "idle"
        /\ lock.owner = Reserved => l = reserved
        /\ lock.owner \notin {Dead, Reserved} => l = busy
    BY <2>1, WordsAssumption
  <2>5. l \in {"idle", "l_spin", "y_kernel", "d_try"}
    BY <2>4
  <2>6. /\ l \notin LwMutex!Sleeping \union {"a_lock", "k_awake", "l_redo", "d_dead"}
        /\ l \notin LwSaveLabels /\ (l \in LwUnlocking => l = "d_try") /\ l \notin LwHolding
        /\ (l \in LwTaking => l \in {"y_kernel", "d_try"})
    BY <2>5 DEF LwMutex!Sleeping, LwTaking, LwSaveLabels, LwUnlocking, LwHolding
  <2>7. ~LwRight(t)' /\ (LwCounted(t)' <=> l = "l_spin" /\ mode'[t] = "aborted")
    BY <2>3, <2>5, <2>6, LwGoesOutside
  <2>8. from = "l_redo" /\ ~retry => l = "l_spin"
    <3>1. SUFFICES ASSUME from = "l_redo", ~retry PROVE l = "l_spin"
      OBVIOUS
    <3>2. exists
      BY <1>5, <3>1 DEF LwInv, LwLoadInv
    <3>3. lock.owner # Dead
      BY <3>2 DEF LwInv, LwExistsInv
    <3>4. QED
      BY <2>4, <3>1, <3>3
  <2>9. \/ LwCounted(t)' <=> LwCounted(t)
        \/ retry /\ saves > 0 /\ ~LwCounted(t)'
    <3>1. CASE from = "idle"
      BY <1>4, <1>5, <2>3, <2>7, <3>1
    <3>2. CASE from = "l_redo"
      <4>1. l \in {"idle", "l_spin"}
        BY <2>4, <3>2
      <4>2. QED
        BY <1>4, <1>5, <2>3, <2>7, <2>8, <3>2, <4>1
    <3>3. QED
      BY <3>1, <3>2
  <2>10. LwCountStep(t)
    BY <1>9, <2>2, <2>9, LwCountSame
  <2>11. retry => l \notin LwTaking
    <3>1. retry => lock.owner # Reserved
      BY DEF LwInv, LwRightInv
    <3>2. QED
      BY <2>4, <2>6, <3>1
  <2>12. LwRightStep(t)
    BY <1>1, <1>4, <2>2, <2>3, <2>7, <2>11, LwRightSame
  <2>13. LwOwnStep(t)
    BY <1>9, <2>2, <2>3, <2>6, LwOwnSame
  <2>14. LwExistsStep(t)
    BY <1>1, <1>9, <2>2, <2>3, <2>6 DEF LwExistsStep, LwInv, LwExistsInv
  <2>15. LwRetryStep(t)
    BY <1>9, <2>2 DEF LwRetryStep
  <2>16. LwMoveLoad(t, l)
    BY <1>1, <1>2, <2>3, <2>8 DEF LwMoveLoad
  <2>17. /\ l \in LwUnlocking => sched[t] = "on"
         /\ l = "idle" => mode'[t] = "first"
         /\ mode'[t] = "aborted" => mode[t] = "aborted"
         /\ timed'[t] => "timeout" \in faults
    <3>1. l = "d_try" => from = "idle"
      BY <2>4
    <3>2. QED
      BY <1>5, <2>3, <2>6, <3>1
  <2>18. QED
    BY <1>1, <1>3, <2>3, <2>6, <2>10, <2>12, <2>13, <2>14, <2>15, <2>16, <2>17, LwMoveInv
<1>10. QED
  BY <1>7, <1>8, <1>9


(***************************************************************************)
(* A thread elsewhere than a loaded sleeper can be: nothing is loading.    *)
(***************************************************************************)
LEMMA LwNotLoading ==
  ASSUME LwInv, NEW t \in Threads,
         pc[t] \notin {"idle", "l_redo", "l_spin", "l_try", "k_lock", "k_sleep", "k_wait",
                       "a_lock", "u_redo"}
  PROVE  \A l : LwMoveLoad(t, l)
BY DEF LwInv, LwLoadInv, LwMoveLoad

(***************************************************************************)
(* The number of waiters changes, and who owns the word does not.          *)
(***************************************************************************)
LEMMA LwWaiterIs ==
  ASSUME LwInv, NEW t \in Threads, NEW n \in Int, lock' = [lock EXCEPT !.waiter = @ + n],
         lock.waiter + n \in Nat, count' = count, held'[t] = held[t],
         pc[t] \notin LwHolding /\ pc[t] # "idle", pc'[t] \notin LwHolding
  PROVE  /\ lock'.owner = lock.owner /\ lock'.waiter = lock.waiter + n
         /\ lock.owner # t /\ LwOwnStep(t)
<1>1. lock = [owner |-> lock.owner, waiter |-> lock.waiter]
      /\ lock.owner \in Threads \union {Free, Reserved, Dead}
  BY LwReads
<1>2. lock' = [owner |-> lock.owner, waiter |-> lock.waiter + n]
  BY <1>1
<1>3. lock' \in LwWord /\ lock'.owner = lock.owner /\ lock'.waiter = lock.waiter + n
  BY <1>1, <1>2 DEF LwWord
<1>4. lock.owner # t /\ held[t] = 0 /\ (lock.owner \notin Threads => count = 0)
  BY DEF LwInv, LwOwnInv
<1>5. count' \in 0..MaxLocks
  BY LwReads
<1>6. QED
  BY <1>3, <1>4, <1>5 DEF LwOwnStep

(***************************************************************************)
(* Whom the word counts is not zero.                                       *)
(***************************************************************************)
LEMMA LwSomebody ==
  ASSUME LwInv, NEW t \in Threads, LwCounted(t)
  PROVE  lock.waiter \in Nat /\ lock.waiter + (-1) \in Nat /\ lock.waiter # 0
<1>1. lock.waiter # 0
  BY LwNobody
<1>2. lock.waiter \in Nat
  BY LwReads
<1>3. QED
  BY <1>1, <1>2

(***************************************************************************)
(* The thread is counted as the word says.                                 *)
(***************************************************************************)
LEMMA LwCountChanges ==
  ASSUME LwInv, NEW t \in Threads, NEW n \in Int, lock'.waiter = lock.waiter + n,
         lock'.owner = lock.owner, ~retry /\ LwBeyond(t)' => lock.owner # Free,
         \/ n = 1 /\ LwCounted(t)' /\ ~LwCounted(t)
         \/ n = 0 /\ (LwCounted(t)' <=> LwCounted(t))
         \/ n = -1 /\ ~LwCounted(t)' /\ LwCounted(t)
  PROVE  LwCountStep(t)
<1>1. Ind(LwCounted(t)') \in Nat /\ Ind(LwCounted(t)) \in Nat /\ lock.waiter \in Nat
      /\ Ind(LwCounted(t)') = Ind(LwCounted(t)) + n
  BY LwReads DEF Ind
<1>2. lock'.waiter + Ind(LwCounted(t)) = lock.waiter + Ind(LwCounted(t)')
      /\ lock'.waiter + Ind(LwCounted(t)) \in Int
  BY <1>1
<1>3. QED
  BY <1>1, <1>2 DEF LwCountStep

(***************************************************************************)
(* The busy-waiting loop, and the second compare-and-swap after it.        *)
(***************************************************************************)
LEMMA LwSpinInv ==
  ASSUME LwInv, NEW t \in Threads,
         LwMutex!LockSpin(t) \/ LwMutex!LockCount(t) \/ LwMutex!LockTry(t)
  PROVE  LwInv'
<1>0. timed[t] \in BOOLEAN /\ mode[t] \in {"first", "aborted", "loop"}
      /\ (timed[t] => "timeout" \in faults) /\ FALSE \in BOOLEAN
  BY LwReads DEF LwInv, LwFaultInv
<1>1. CASE LwMutex!LockSpin(t)
  <2>1. /\ pc[t] = "l_spin" /\ lock.owner = Free /\ LwMutex!Take(t, "idle", FALSE)
        /\ UNCHANGED <<fifo, exists, stopped, toSleep, saves, faults, guard, sched, retry, recursive,
                       count, sq, signaled, next, lost>>
    BY <1>1 DEF LwMutex!LockSpin, LwMutex!world
  <2>2. PICK l \in LwMutex!PCs : l = "idle"
    BY DEF LwMutex!PCs
  <2>3. LwMutex!Take(t, l, FALSE) /\ l \in {"idle", "l_dec", "d_kernel"} /\ l # "l_dec" /\ l # "d_kernel"
    BY <2>1, <2>2
  <2>4. QED
    BY <1>0, <2>1, <2>2, <2>3, LwTakeInv
<1>2. CASE LwMutex!LockCount(t)
  <2>1. PICK n \in Int : n = IF mode[t] = "aborted" THEN 0 ELSE 1
    OBVIOUS
  <2>2. PICK l \in LwMutex!PCs : l = "l_try"
    BY DEF LwMutex!PCs
  <2>3. /\ pc[t] = "l_spin" /\ lock' = [lock EXCEPT !.waiter = @ + n]
        /\ LwMutex!Enter(t, l, timed[t], mode[t])
        /\ UNCHANGED <<fifo, exists, stopped, toSleep, saves, faults, guard, sched, retry, recursive,
                       count, sq, signaled, next, lost, held>>
    BY <1>2, <2>1, <2>2 DEF LwMutex!LockCount, LwMutex!world, LwMutex!Waiters, LwMutex!Goto
  <2>4. /\ pc'[t] = l /\ held'[t] = held[t] /\ LwOthers(t) /\ LwLocals'
        /\ l # "idle" => timed'[t] = timed[t]
        /\ mode'[t] = IF l = "idle" THEN "first" ELSE mode[t]
    BY <1>0, <2>3, LwGotoIs
  <2>5. mode'[t] = mode[t] /\ timed'[t] = timed[t]
    BY <2>2, <2>4
  <2>6. /\ l \notin LwMutex!Sleeping \union {"a_lock", "k_awake", "l_redo"} /\ l # "d_dead"
        /\ l \notin LwTaking /\ l \notin LwSaveLabels /\ l \notin LwUnlocking /\ l \notin LwHolding
        /\ pc[t] \notin LwHolding /\ pc[t] # "idle" /\ LwOutside(t)
    BY <2>2, <2>3 DEF LwMutex!Sleeping, LwTaking, LwSaveLabels, LwUnlocking, LwHolding, LwOutside
  <2>7. /\ lock'.owner = lock.owner /\ lock'.waiter = lock.waiter + n
        /\ lock.owner # t /\ LwOwnStep(t)
    <3>1. lock.waiter + n \in Nat
      BY <2>1, LwReads
    <3>2. QED
      BY <2>3, <2>4, <2>6, <3>1, LwWaiterIs
  <2>8. ~LwRight(t) /\ (LwCounted(t) <=> mode[t] = "aborted")
    BY <2>3, <2>6, LwOutsideIs
  <2>9. ~LwRight(t)' /\ LwCounted(t)' /\ LwTaker(t)' /\ (LwBeyond(t)' <=> mode[t] = "aborted")
    BY <2>2, <2>4, <2>5, <2>6, LwGoesOutside
  <2>10. LwCountStep(t)
    <3>1. ~retry /\ LwBeyond(t)' => lock.owner # Free
      BY <2>3, <2>8, <2>9 DEF LwInv, LwCountInv, LwBeyond
    <3>2. QED
      BY <2>1, <2>7, <2>8, <2>9, <3>1, LwCountChanges
  <2>11. LwRightStep(t)
    BY <2>3, <2>4, <2>6, <2>7, <2>8, <2>9, LwRightSame
  <2>12. LwExistsStep(t)
    BY <2>3, <2>4, <2>6, <2>7 DEF LwExistsStep, LwInv, LwExistsInv
  <2>13. LwRetryStep(t)
    BY <2>9 DEF LwRetryStep
  <2>14. LwMoveLoad(t, l)
    BY <2>2, <2>3, <2>5 DEF LwMoveLoad
  <2>15. l # "idle"
    BY <2>2
  <2>16. QED
    BY <1>0, <2>3, <2>4, <2>5, <2>6, <2>7, <2>10, <2>11, <2>12, <2>13, <2>14, <2>15, LwMoveInv
<1>3. CASE LwMutex!LockTry(t)
  <2>1. /\ pc[t] = "l_try"
        /\ IF lock.owner = Free THEN LwMutex!Take(t, "l_dec", timed[t])
           ELSE LwMutex!Goto(t, "k_lock") /\ UNCHANGED <<lock, held>>
        /\ UNCHANGED <<fifo, exists, stopped, toSleep, saves, faults, guard, sched, retry, recursive,
                       count, sq, signaled, next, lost>>
    BY <1>3 DEF LwMutex!LockTry, LwMutex!world
  <2>2. CASE lock.owner = Free
    <3>1. PICK l \in LwMutex!PCs : l = "l_dec"
      BY DEF LwMutex!PCs
    <3>2. LwMutex!Take(t, l, timed[t]) /\ l \in {"idle", "l_dec", "d_kernel"} /\ l # "d_kernel"
      BY <2>1, <2>2, <3>1
    <3>3. QED
      BY <1>0, <2>1, <2>2, <3>1, <3>2, LwTakeInv
  <2>3. CASE lock.owner # Free
    <3>1. PICK l \in LwMutex!PCs : l = "k_lock"
      BY DEF LwMutex!PCs
    <3>2. LwMutex!Enter(t, l, timed[t], mode[t]) /\ lock' = lock /\ held' = held
      BY <2>1, <2>3, <3>1 DEF LwMutex!Goto
    <3>3. /\ pc'[t] = l /\ held'[t] = held[t] /\ LwOthers(t) /\ LwLocals'
          /\ l # "idle" => timed'[t] = timed[t]
          /\ mode'[t] = IF l = "idle" THEN "first" ELSE mode[t]
      BY <1>0, <2>1, <3>2, LwGotoIs
    <3>4. mode'[t] = mode[t] /\ timed'[t] = timed[t] /\ l # "idle"
      BY <3>1, <3>3
    <3>5. /\ l \notin LwMutex!Sleeping \union {"a_lock", "k_awake", "l_redo", "d_dead"}
          /\ l \notin LwTaking /\ l \notin LwSaveLabels /\ l \notin LwUnlocking /\ l \notin LwHolding
          /\ pc[t] \notin LwHolding /\ pc[t] # "idle" /\ LwOutside(t)
      BY <2>1, <3>1 DEF LwMutex!Sleeping, LwTaking, LwSaveLabels, LwUnlocking, LwHolding, LwOutside
    <3>6. ~LwRight(t) /\ LwCounted(t)
      BY <2>1, <3>5, LwOutsideIs
    <3>7. ~LwRight(t)' /\ LwCounted(t)'
      BY <3>1, <3>3, <3>5, LwGoesOutside
    <3>8. lock.owner # t
      BY <3>5 DEF LwInv, LwOwnInv
    <3>9. LwMoveLoad(t, l)
      BY <2>1, <3>1, <3>4 DEF LwMoveLoad
    <3>10. QED
      BY <1>0, <2>1, <2>3, <3>2, <3>3, <3>4, <3>5, <3>6, <3>7, <3>8, <3>9, LwQuietInv
  <2>4. QED
    BY <2>2, <2>3
<1>4. QED
  BY <1>1, <1>2, <1>3

(***************************************************************************)
(* A thread that got the word on the second try is no longer counted, and  *)
(* its guest is told.                                                      *)
(***************************************************************************)
LEMMA LwUncountInv ==
  ASSUME LwInv, NEW t \in Threads, LwMutex!LockUncount(t)
  PROVE  LwInv'
<1>0. timed[t] \in BOOLEAN /\ mode[t] \in {"first", "aborted", "loop"}
  BY LwReads
<1>1. PICK l \in LwMutex!PCs : l = "idle"
  BY DEF LwMutex!PCs
<1>2. /\ pc[t] = "l_dec" /\ lock' = [lock EXCEPT !.waiter = @ + (-1)]
      /\ LwMutex!Enter(t, l, timed[t], mode[t]) /\ held' = [held EXCEPT ![t] = held[t] + 1]
      /\ UNCHANGED <<fifo, exists, stopped, toSleep, saves, faults, guard, sched, retry, recursive,
                     count, sq, signaled, next, lost>>
  BY <1>1 DEF LwMutex!LockUncount, LwMutex!world, LwMutex!Waiters, LwMutex!Goto, LwMutex!Told
<1>3. /\ l \notin LwMutex!Sleeping \union {"a_lock", "k_awake", "l_redo"} /\ l # "d_dead"
      /\ l \notin LwTaking /\ l \notin LwSaveLabels /\ l \notin LwUnlocking
      /\ pc[t] \in LwHolding /\ pc[t] # "idle" /\ pc[t] # "d_dead" /\ LwOutside(t)
  BY <1>1, <1>2 DEF LwMutex!Sleeping, LwTaking, LwSaveLabels, LwUnlocking, LwHolding, LwOutside
<1>4. lock.owner = t /\ held[t] = 0 /\ count = 0
  BY <1>3 DEF LwInv, LwOwnInv
<1>5. held' \in [Threads -> 0..MaxLocks + 1] /\ held'[t] = 1
      /\ \A u \in Threads \ {t} : held'[u] = held[u]
  <2>1. held \in [Threads -> 0..MaxLocks + 1] /\ held[t] + 1 = 1 /\ 1 \in 0..MaxLocks + 1
    BY <1>4, LwReads DEF LwTypes, LwLocals
  <2>2. QED
    BY <1>2, <2>1
<1>6. /\ pc'[t] = l /\ LwOthers(t) /\ LwLocals'
      /\ timed'[t] => timed[t] /\ l # "idle"
      /\ mode'[t] = IF l = "idle" THEN "first" ELSE mode[t]
  BY <1>0, <1>2, <1>5, LwEnterIs
<1>7. ~LwRight(t) /\ LwCounted(t)
  BY <1>2, <1>3, LwOutsideIs
<1>8. ~LwRight(t)' /\ ~LwCounted(t)'
  BY <1>1, <1>3, <1>6, LwGoesOutside
<1>9. /\ lock' = [owner |-> t, waiter |-> lock.waiter + (-1)]
      /\ lock'.owner = t /\ lock'.waiter = lock.waiter + (-1) /\ lock' \in LwWord
  <2>1. lock.waiter + (-1) \in Nat /\ lock = [owner |-> t, waiter |-> lock.waiter]
    BY <1>4, <1>7, LwReads, LwSomebody
  <2>2. lock' = [owner |-> t, waiter |-> lock.waiter + (-1)]
    BY <1>2, <2>1
  <2>3. QED
    BY <2>1, <2>2 DEF LwWord
<1>10. LwOwnStep(t)
  <2>1. count' \in 0..MaxLocks /\ count' = 0 /\ held'[t] = count' + 1
    BY <1>2, <1>4, <1>5, LwReads
  <2>2. QED
    BY <1>1, <1>4, <1>6, <1>9, <2>1 DEF LwOwnStep
<1>11. LwCountStep(t)
  BY <1>4, <1>7, <1>8, <1>9, LwCountChanges DEF LwBeyond
<1>12. LwRightStep(t)
  BY <1>2, <1>3, <1>4, <1>6, <1>7, <1>8, <1>9, LwRightSame
<1>13. t # Free /\ t # Dead
  BY WordsAssumption
<1>14. LwExistsStep(t)
  BY <1>2, <1>3, <1>4, <1>6, <1>9, <1>13 DEF LwExistsStep, LwInv, LwExistsInv
<1>15. LwRetryStep(t)
  BY <1>9, <1>13 DEF LwRetryStep
<1>16. LwMoveLoad(t, l)
  BY <1>2, LwNotLoading
<1>17. QED
  BY <1>1, <1>2, <1>3, <1>6, <1>10, <1>11, <1>12, <1>14, <1>15, <1>16, LwMoveInv

(***************************************************************************)
(* The kernel's lock has returned to the library.                          *)
(***************************************************************************)
LEMMA LwResultInv ==
  ASSUME LwInv, NEW t \in Threads, LwMutex!LockResult(t)
  PROVE  LwInv'
<1>0. timed[t] \in BOOLEAN /\ mode[t] \in {"first", "aborted", "loop"}
      /\ (timed[t] => "timeout" \in faults)
  BY LwReads DEF LwInv, LwFaultInv
<1>1. /\ pc[t] \in {"r_got", "r_err"} /\ lock' = [lock EXCEPT !.waiter = @ + (-1)]
      /\ UNCHANGED <<fifo, exists, stopped, toSleep, saves, faults, guard, sched, retry, recursive,
                     count, sq, signaled, next, lost, held>>
  BY DEF LwMutex!LockResult, LwMutex!world, LwMutex!Waiters
<1>2. \E l \in LwMutex!PCs, m \in {"first", "aborted", "loop"} :
        /\ LwMutex!Enter(t, l, timed[t], m)
        /\ l = "idle" \/ (l = "l_own" /\ m = mode[t]) \/ (l = "l_spin" /\ m = "loop")
        /\ l = "l_own" <=> pc[t] = "r_got" /\ ~retry
        /\ l = "idle" => pc[t] = "r_err" \/ timed[t]
  <2>1. "idle" \in LwMutex!PCs /\ "l_own" \in LwMutex!PCs /\ "l_spin" \in LwMutex!PCs
    BY DEF LwMutex!PCs
  <2>2. \/ pc[t] = "r_err" /\ LwMutex!Enter(t, "idle", timed[t], mode[t])
        \/ pc[t] = "r_got" /\ ~retry /\ LwMutex!Enter(t, "l_own", timed[t], mode[t])
        \/ pc[t] = "r_got" /\ retry /\ LwMutex!Enter(t, "l_spin", timed[t], "loop")
        \/ pc[t] = "r_got" /\ retry /\ timed[t] /\ LwMutex!Enter(t, "idle", timed[t], mode[t])
    BY DEF LwMutex!LockResult, LwMutex!Goto
  <2>3. CASE pc[t] = "r_err" /\ LwMutex!Enter(t, "idle", timed[t], mode[t])
    BY <1>0, <2>1, <2>3
  <2>4. CASE pc[t] = "r_got" /\ ~retry /\ LwMutex!Enter(t, "l_own", timed[t], mode[t])
    BY <1>0, <2>1, <2>4
  <2>5. CASE pc[t] = "r_got" /\ retry /\ LwMutex!Enter(t, "l_spin", timed[t], "loop")
    BY <1>0, <2>1, <2>5
  <2>6. CASE pc[t] = "r_got" /\ retry /\ timed[t] /\ LwMutex!Enter(t, "idle", timed[t], mode[t])
    BY <1>0, <2>1, <2>6
  <2>7. QED
    BY <2>2, <2>3, <2>4, <2>5, <2>6
<1>3. PICK l \in LwMutex!PCs, m \in {"first", "aborted", "loop"} :
        /\ LwMutex!Enter(t, l, timed[t], m)
        /\ l = "idle" \/ (l = "l_own" /\ m = mode[t]) \/ (l = "l_spin" /\ m = "loop")
        /\ l = "l_own" <=> pc[t] = "r_got" /\ ~retry
        /\ l = "idle" => pc[t] = "r_err" \/ timed[t]
  BY <1>2
<1>4. /\ pc'[t] = l /\ held'[t] = held[t] /\ LwOthers(t) /\ LwLocals'
      /\ timed'[t] => timed[t] /\ l # "idle"
      /\ mode'[t] = IF l = "idle" THEN "first" ELSE m
  BY <1>0, <1>1, <1>3, LwGotoIs
<1>5. /\ l \notin LwMutex!Sleeping \union {"a_lock", "k_awake", "l_redo"} /\ l # "d_dead"
      /\ (l \in LwTaking => l = "l_own") /\ l \notin LwSaveLabels /\ l \notin LwUnlocking
      /\ l \notin LwHolding /\ pc[t] \notin LwHolding /\ pc[t] # "idle" /\ LwOutside(t)
      /\ pc[t] # "d_dead" /\ l # "k_lock"
  BY <1>1, <1>3 DEF LwMutex!Sleeping, LwTaking, LwSaveLabels, LwUnlocking, LwHolding, LwOutside
<1>6. (LwRight(t) <=> pc[t] = "r_got") /\ LwCounted(t) /\ (LwTaker(t) <=> pc[t] = "r_got")
  BY <1>1, <1>5, LwOutsideIs
<1>7. mode'[t] = "aborted" => mode[t] = "aborted" /\ l # "l_spin"
  BY <1>3, <1>4
<1>8. (LwRight(t)' <=> l = "l_own") /\ ~LwCounted(t)' /\ (LwTaker(t)' <=> l = "l_spin")
  BY <1>3, <1>4, <1>5, <1>7, LwGoesOutside
<1>9. /\ lock'.owner = lock.owner /\ lock'.waiter = lock.waiter + (-1)
      /\ lock.owner # t /\ LwOwnStep(t)
  <2>1. lock.waiter + (-1) \in Nat
    BY <1>6, LwSomebody
  <2>2. QED
    BY <1>1, <1>4, <1>5, <2>1, LwWaiterIs
<1>10. LwCountStep(t)
  BY <1>6, <1>8, <1>9, LwCountChanges DEF LwBeyond
<1>11. LwRightStep(t)
  <2>1. CASE retry
    <3>1. signaled' \in BOOLEAN /\ lost' \in BOOLEAN /\ lock'.owner # Reserved
      BY <1>1, <1>9, <2>1, LwReads DEF LwInv, LwRightInv
    <3>2. QED
      BY <1>3, <1>4, <1>5, <2>1, <3>1 DEF LwRightStep
  <2>2. CASE ~retry
    BY <1>1, <1>3, <1>4, <1>6, <1>8, <1>9, <2>2, LwRightSame
  <2>3. QED
    BY <2>1, <2>2
<1>12. LwExistsStep(t)
  BY <1>1, <1>4, <1>5, <1>9 DEF LwExistsStep, LwInv, LwExistsInv
<1>13. LwRetryStep(t)
  BY <1>0, <1>1, <1>3, <1>4, <1>5, <1>6, <1>8, <1>9 DEF LwRetryStep
<1>14. LwMoveLoad(t, l)
  BY <1>1, LwNotLoading
<1>15. QED
  BY <1>0, <1>1, <1>4, <1>5, <1>7, <1>9, <1>10, <1>11, <1>12, <1>13, <1>14, LwMoveInv


(***************************************************************************)
(* The owner of a reserved word is exchanged.                              *)
(***************************************************************************)
LEMMA LwOwnReservedInv ==
  ASSUME LwInv, NEW t \in Threads,
         \/ LwMutex!LockOwn(t) \/ LwMutex!TryLockOwn(t) \/ LwMutex!DestroyOwn(t)
  PROVE  LwInv'
<1>1. "idle" \in LwMutex!PCs /\ "d_kernel" \in LwMutex!PCs /\ FALSE \in BOOLEAN
  BY DEF LwMutex!PCs
<1>2. \E l \in LwMutex!PCs :
        /\ LwMutex!Take(t, l, FALSE) /\ l \in {"idle", "l_dec", "d_kernel"} /\ l # "l_dec"
        /\ pc[t] \in {"l_own", "y_own", "d_own"}
        /\ l = "d_kernel" => pc[t] = "d_own"
  <2>1. CASE LwMutex!LockOwn(t)
    BY <1>1, <2>1 DEF LwMutex!LockOwn, LwMutex!OwnReserved
  <2>2. CASE LwMutex!TryLockOwn(t)
    BY <1>1, <2>2 DEF LwMutex!TryLockOwn, LwMutex!OwnReserved
  <2>3. CASE LwMutex!DestroyOwn(t)
    BY <1>1, <2>3 DEF LwMutex!DestroyOwn, LwMutex!OwnReserved
  <2>4. QED
    BY <2>1, <2>2, <2>3
<1>3. UNCHANGED <<fifo, exists, stopped, toSleep, saves, faults, guard, sched, retry, recursive,
                  count, sq, signaled, next, lost>>
  BY DEF LwMutex!LockOwn, LwMutex!TryLockOwn, LwMutex!DestroyOwn, LwMutex!OwnReserved, LwMutex!world
<1>4. PICK l \in LwMutex!PCs :
        /\ LwMutex!Take(t, l, FALSE) /\ l \in {"idle", "l_dec", "d_kernel"} /\ l # "l_dec"
        /\ pc[t] \in {"l_own", "y_own", "d_own"}
        /\ l = "d_kernel" => pc[t] = "d_own"
  BY <1>2
<1>5. l = "d_kernel" => sched[t] = "on"
  BY <1>4 DEF LwInv, LwThreadInv, LwUnlocking
<1>6. pc[t] # "l_try"
  BY <1>4
<1>7. QED
  BY <1>1, <1>3, <1>4, <1>5, <1>6, LwTakeInv

(***************************************************************************)
(* The kernel's trylock takes the signal that stands for the word.         *)
(***************************************************************************)
LEMMA LwKTryLockInv ==
  ASSUME LwInv, NEW t \in Threads, LwMutex!TryLockKernel(t) \/ LwMutex!DestroyTry(t)
  PROVE  LwInv'
<1>0. timed[t] \in BOOLEAN /\ mode[t] \in {"first", "aborted", "loop"}
      /\ (timed[t] => "timeout" \in faults)
  BY LwReads DEF LwInv, LwFaultInv
<1>1. PICK l \in LwMutex!PCs :
        /\ LwMutex!Enter(t, l, timed[t], mode[t])
        /\ pc[t] \in {"y_kernel", "d_try"}
        /\ IF exists /\ signaled THEN l \in {"y_own", "d_own"} ELSE l = "idle"
        /\ l = "d_own" => pc[t] = "d_try"
  <2>1. "idle" \in LwMutex!PCs /\ "y_own" \in LwMutex!PCs /\ "d_own" \in LwMutex!PCs
    BY DEF LwMutex!PCs
  <2>2. CASE LwMutex!TryLockKernel(t)
    BY <2>1, <2>2 DEF LwMutex!TryLockKernel, LwMutex!KTryLock, LwMutex!Goto
  <2>3. CASE LwMutex!DestroyTry(t)
    BY <2>1, <2>3 DEF LwMutex!DestroyTry, LwMutex!KTryLock, LwMutex!Goto
  <2>4. QED
    BY <2>2, <2>3
<1>2. /\ signaled' = (signaled /\ ~exists)
      /\ UNCHANGED <<fifo, exists, stopped, toSleep, saves, faults, guard, sched, retry, recursive,
                     lock, count, sq, next, lost, held>>
  BY DEF LwMutex!TryLockKernel, LwMutex!DestroyTry, LwMutex!KTryLock, LwMutex!world
<1>3. /\ pc'[t] = l /\ held'[t] = held[t] /\ LwOthers(t) /\ LwLocals'
      /\ timed'[t] => timed[t] /\ l # "idle"
      /\ mode'[t] = IF l = "idle" THEN "first" ELSE mode[t]
  BY <1>0, <1>1, <1>2, LwGotoIs
<1>4. l \in {"idle", "y_own", "d_own"}
  BY <1>1
<1>5. /\ l \notin LwMutex!Sleeping \union {"a_lock", "k_awake", "l_redo"} /\ l # "d_dead"
      /\ l \notin LwSaveLabels /\ (l \in LwUnlocking => l = "d_own")
      /\ l \notin LwHolding /\ pc[t] \notin LwHolding /\ pc[t] # "idle" /\ LwOutside(t)
      /\ pc[t] # "d_dead" /\ l # "k_lock" /\ pc[t] \in LwTaking
  BY <1>1, <1>4 DEF LwMutex!Sleeping, LwTaking, LwSaveLabels, LwUnlocking, LwHolding, LwOutside
<1>6. ~LwRight(t) /\ ~LwCounted(t)
  BY <1>1, <1>5, LwOutsideIs
<1>7. (LwRight(t)' <=> l # "idle") /\ ~LwCounted(t)' /\ ~LwBeyond(t)'
  BY <1>3, <1>4, <1>5, LwGoesOutside
<1>8. ~retry
  BY <1>5 DEF LwInv, LwRightInv
<1>9. lock.owner # t
  BY <1>5 DEF LwInv, LwOwnInv
<1>10. LwOwnStep(t)
  BY <1>2, <1>3, <1>5, <1>9, LwOwnSame
<1>11. LwCountStep(t)
  BY <1>2, <1>6, <1>7, LwCountSame
<1>12. LwRightStep(t)
  <2>1. signaled' \in BOOLEAN /\ lost' \in BOOLEAN /\ (lost' => lock'.owner = Reserved)
    BY <1>2, <1>8, LwReads DEF LwInv, LwRightInv
  <2>2. Ind(LwRight(t)') + Ind(signaled') + Ind(lock.owner = Reserved /\ ~lost)
          = Ind(LwRight(t)) + Ind(signaled) + Ind(lock'.owner = Reserved /\ ~lost')
    <3>1. Ind(lock.owner = Reserved /\ ~lost) = Ind(lock'.owner = Reserved /\ ~lost')
          /\ Ind(lock.owner = Reserved /\ ~lost) \in Nat
      BY <1>2 DEF Ind
    <3>2. Ind(LwRight(t)) = 0 /\ Ind(LwRight(t)') + Ind(signaled') = Ind(signaled)
          /\ Ind(signaled) \in Nat /\ Ind(LwRight(t)') + Ind(signaled') \in Nat
      <4>1. Ind(LwRight(t)) = 0 /\ Ind(signaled) \in Nat
        BY <1>6 DEF Ind
      <4>2. CASE exists /\ signaled
        <5>1. LwRight(t)' /\ ~signaled'
          BY <1>1, <1>2, <1>7, <4>2
        <5>2. Ind(LwRight(t)') = 1 /\ Ind(signaled') = 0 /\ Ind(signaled) = 1
          BY <4>2, <5>1 DEF Ind
        <5>3. QED
          BY <4>1, <5>2
      <4>3. CASE ~(exists /\ signaled)
        <5>1. ~LwRight(t)' /\ signaled' = signaled
          BY <1>1, <1>2, <1>7, <4>3, LwReads
        <5>2. Ind(LwRight(t)') = 0 /\ Ind(signaled') = Ind(signaled)
          BY <5>1 DEF Ind
        <5>3. QED
          BY <4>1, <5>2
      <4>4. QED
        BY <4>2, <4>3
    <3>3. QED
      BY <3>1, <3>2
  <2>3. QED
    BY <1>8, <2>1, <2>2 DEF LwRightStep
<1>13. LwExistsStep(t)
  BY <1>2, <1>3, <1>5 DEF LwExistsStep, LwInv, LwExistsInv
<1>14. LwRetryStep(t)
  BY <1>8 DEF LwRetryStep
<1>15. LwMoveLoad(t, l)
  BY <1>1, LwNotLoading
<1>16. l \in LwUnlocking => sched[t] = "on"
  BY <1>1, <1>5 DEF LwInv, LwThreadInv, LwUnlocking
<1>17. QED
  BY <1>0, <1>2, <1>3, <1>5, <1>10, <1>11, <1>12, <1>13, <1>14, <1>15, <1>16, LwMoveInv

(***************************************************************************)
(* A thread gives its part in the reserved word to the signal.             *)
(***************************************************************************)
LEMMA LwSignalInv ==
  ASSUME LwInv, NEW t \in Threads, LwMutex!Goto(t, "idle"), pc[t] \in {"k_unlock", "k_reown"},
         sq = <<>>, signaled' = TRUE,
         UNCHANGED <<fifo, exists, stopped, toSleep, saves, faults, guard, sched, retry, recursive,
                     lock, count, sq, next, lost, held>>
  PROVE  LwInv'
<1>0. timed[t] \in BOOLEAN /\ mode[t] \in {"first", "aborted", "loop"}
      /\ (timed[t] => "timeout" \in faults)
  BY LwReads DEF LwInv, LwFaultInv
<1>1. PICK l \in LwMutex!PCs : l = "idle"
  BY DEF LwMutex!PCs
<1>2. LwMutex!Enter(t, l, timed[t], mode[t])
  BY <1>1 DEF LwMutex!Goto
<1>3. /\ pc'[t] = l /\ held'[t] = held[t] /\ LwOthers(t) /\ LwLocals'
      /\ timed'[t] => timed[t] /\ l # "idle"
      /\ mode'[t] = IF l = "idle" THEN "first" ELSE mode[t]
  BY <1>0, <1>2, LwGotoIs
<1>4. /\ l \notin LwMutex!Sleeping \union {"a_lock", "k_awake", "l_redo"} /\ l # "d_dead"
      /\ l \notin LwSaveLabels /\ l \notin LwUnlocking /\ l \notin LwTaking
      /\ l \notin LwHolding /\ pc[t] \notin LwHolding /\ pc[t] # "idle" /\ LwOutside(t)
      /\ pc[t] # "d_dead"
  BY <1>1 DEF LwMutex!Sleeping, LwTaking, LwSaveLabels, LwUnlocking, LwHolding, LwOutside
<1>5. LwRight(t) /\ ~LwCounted(t)
  BY <1>4, LwOutsideIs
<1>6. ~LwRight(t)' /\ ~LwCounted(t)' /\ ~LwBeyond(t)'
  BY <1>1, <1>3, <1>4, LwGoesOutside
<1>7. lock.owner # t
  BY <1>4 DEF LwInv, LwOwnInv
<1>8. LwOwnStep(t)
  BY <1>3, <1>4, <1>7, LwOwnSame
<1>9. LwCountStep(t)
  BY <1>5, <1>6, LwCountSame
<1>10. LwRightStep(t)
  <2>1. lost' \in BOOLEAN /\ signaled' \in BOOLEAN
        /\ (~retry => (lost' => lock'.owner = Reserved))
        /\ (retry => lock'.owner # Reserved /\ pc'[t] \notin LwTaking)
    BY <1>3, <1>4, LwReads DEF LwInv, LwRightInv
  <2>2. ASSUME ~retry
        PROVE  Ind(LwRight(t)') + Ind(signaled') + Ind(lock.owner = Reserved /\ ~lost)
                 = Ind(LwRight(t)) + Ind(signaled) + Ind(lock'.owner = Reserved /\ ~lost')
    <3>1. ~signaled
      BY <1>5, <2>2, LwRightIsAlone
    <3>2. Ind(lock.owner = Reserved /\ ~lost) = Ind(lock'.owner = Reserved /\ ~lost')
          /\ Ind(lock.owner = Reserved /\ ~lost) \in Nat
      BY DEF Ind
    <3>3. Ind(LwRight(t)) = 1 /\ Ind(LwRight(t)') = 0 /\ Ind(signaled') = 1 /\ Ind(signaled) = 0
      BY <1>5, <1>6, <3>1 DEF Ind
    <3>4. QED
      BY <3>2, <3>3
  <2>3. QED
    BY <2>1, <2>2 DEF LwRightStep
<1>11. LwExistsStep(t)
  BY <1>3, <1>4 DEF LwExistsStep, LwInv, LwExistsInv
<1>12. LwRetryStep(t)
  BY DEF LwRetryStep
<1>13. LwMoveLoad(t, l)
  BY LwNotLoading
<1>14. QED
  BY <1>0, <1>1, <1>3, <1>4, <1>8, <1>9, <1>10, <1>11, <1>12, <1>13, LwMoveInv

(***************************************************************************)
(* An unlocking thread goes on inside the kernel, or finds the mutex       *)
(* destroyed.                                                              *)
(***************************************************************************)
LEMMA LwUnlockingInv ==
  ASSUME LwInv, NEW t \in Threads, NEW l \in LwMutex!PCs, LwMutex!Goto(t, l),
         pc[t] \in {"k_unlock", "k_reown"}, l \in {"k_reown", "a_unlock", "idle"},
         l = "a_unlock" => "save" \in faults,
         l = "idle" => ~exists,
         UNCHANGED <<fifo, exists, stopped, toSleep, saves, faults, guard, sched, retry, recursive,
                     lock, count, sq, signaled, next, lost, held>>
  PROVE  LwInv'
<1>0. timed[t] \in BOOLEAN /\ mode[t] \in {"first", "aborted", "loop"}
      /\ (timed[t] => "timeout" \in faults)
  BY LwReads DEF LwInv, LwFaultInv
<1>1. LwMutex!Enter(t, l, timed[t], mode[t])
  BY DEF LwMutex!Goto
<1>2. /\ pc'[t] = l /\ held'[t] = held[t] /\ LwOthers(t) /\ LwLocals'
      /\ timed'[t] => timed[t] /\ l # "idle"
      /\ mode'[t] = IF l = "idle" THEN "first" ELSE mode[t]
  BY <1>0, <1>1, LwGotoIs
<1>3. /\ l \notin LwMutex!Sleeping \union {"a_lock", "k_awake", "l_redo", "d_dead"}
      /\ (l \in LwSaveLabels => l = "a_unlock") /\ l \notin LwTaking /\ l # "k_lock"
      /\ l \notin LwHolding /\ pc[t] \notin LwHolding /\ pc[t] # "idle" /\ LwOutside(t)
      /\ pc[t] # "d_dead" /\ pc[t] \in LwUnlocking
  BY DEF LwMutex!Sleeping, LwTaking, LwSaveLabels, LwUnlocking, LwHolding, LwOutside
<1>4. LwRight(t) /\ ~LwCounted(t)
  BY <1>3, LwOutsideIs
<1>5. (LwRight(t)' <=> l # "idle") /\ ~LwCounted(t)' /\ ~LwBeyond(t)' /\ (LwTaker(t)' <=> l # "idle")
  BY <1>2, <1>3, LwGoesOutside
<1>6. lock.owner # t
  BY <1>3 DEF LwInv, LwOwnInv
<1>7. (l = "idle" => retry) /\ (lock.owner = Free => l # "idle")
  <2>1. ~retry => lock.owner = Reserved
    BY <1>4, LwRightIsAlone
  <2>2. lock.owner \in {Free, Reserved} => exists
    BY WordsAssumption DEF LwInv, LwExistsInv
  <2>3. QED
    BY <2>1, <2>2
<1>8. LwRightStep(t)
  <2>1. CASE l = "idle"
    <3>1. signaled' \in BOOLEAN /\ lost' \in BOOLEAN /\ lock'.owner # Reserved
      BY <1>7, <2>1, LwReads DEF LwInv, LwRightInv
    <3>2. QED
      BY <1>2, <1>3, <1>7, <2>1, <3>1 DEF LwRightStep
  <2>2. CASE l # "idle"
    BY <1>2, <1>3, <1>4, <1>5, <2>2, LwRightSame
  <2>3. QED
    BY <2>1, <2>2
<1>9. LwOwnStep(t)
  BY <1>2, <1>3, <1>6, LwOwnSame
<1>10. LwCountStep(t)
  BY <1>4, <1>5, LwCountSame
<1>11. LwExistsStep(t)
  BY <1>2, <1>3 DEF LwExistsStep, LwInv, LwExistsInv
<1>12. LwRetryStep(t)
  BY <1>5, <1>7 DEF LwRetryStep
<1>13. LwMoveLoad(t, l)
  BY LwNotLoading
<1>14. sched[t] = "on"
  BY <1>3 DEF LwInv, LwThreadInv
<1>15. QED
  BY <1>0, <1>2, <1>3, <1>8, <1>9, <1>10, <1>11, <1>12, <1>13, <1>14, LwMoveInv

(***************************************************************************)
(* The kernel's unlock leaves a signal when nobody sleeps.                 *)
(***************************************************************************)
LEMMA LwKUnlockInv ==
  ASSUME LwInv, NEW t \in Threads, LwMutex!KUnlock(t)
  PROVE  LwInv'
<1>1. /\ pc[t] = "k_unlock"
      /\ signaled' = (signaled \/ (exists /\ sq = <<>>))
      /\ LwMutex!Goto(t, IF exists /\ sq # <<>> THEN "k_reown" ELSE "idle")
      /\ UNCHANGED <<fifo, exists, stopped, toSleep, saves, faults, guard, sched, retry, recursive,
                     lock, count, sq, next, lost, held>>
  BY DEF LwMutex!KUnlock, LwMutex!world
<1>2. CASE exists /\ sq = <<>>
  <2>1. signaled' = TRUE /\ LwMutex!Goto(t, "idle")
    BY <1>1, <1>2
  <2>2. QED
    BY <1>1, <1>2, <2>1, LwSignalInv
<1>3. CASE ~(exists /\ sq = <<>>)
  <2>1. PICK l \in LwMutex!PCs : l = IF exists /\ sq # <<>> THEN "k_reown" ELSE "idle"
    BY DEF LwMutex!PCs
  <2>2. LwMutex!Goto(t, l) /\ l \in {"k_reown", "a_unlock", "idle"} /\ (l = "idle" => ~exists)
        /\ l # "a_unlock" /\ pc[t] \in {"k_unlock", "k_reown"}
    BY <1>1, <1>3, <2>1
  <2>3. signaled' = signaled
    BY <1>1, <1>3, LwReads
  <2>4. QED
    BY <1>1, <2>1, <2>2, <2>3, LwUnlockingInv
<1>4. QED
  BY <1>2, <1>3


(***************************************************************************)
(* The owner lets the word go for its waiters.                             *)
(***************************************************************************)
LEMMA LwReleaseInv ==
  ASSUME LwInv, NEW t \in Threads, LwMutex!UnlockRelease(t)
  PROVE  LwInv'
<1>0. timed[t] \in BOOLEAN /\ mode[t] \in {"first", "aborted", "loop"}
      /\ (timed[t] => "timeout" \in faults)
  BY LwReads DEF LwInv, LwFaultInv
<1>1. PICK l \in LwMutex!PCs : l = "k_unlock"
  BY DEF LwMutex!PCs
<1>2. /\ pc[t] = "u_release"
      /\ lock' = [lock EXCEPT !.owner = IF retry THEN Free ELSE Reserved]
      /\ LwMutex!Enter(t, l, timed[t], mode[t])
      /\ UNCHANGED <<fifo, exists, stopped, toSleep, saves, faults, guard, sched, retry, recursive,
                     count, sq, signaled, next, lost, held>>
  BY <1>1 DEF LwMutex!UnlockRelease, LwMutex!world, LwMutex!Goto
<1>3. /\ pc'[t] = l /\ held'[t] = held[t] /\ LwOthers(t) /\ LwLocals'
      /\ timed'[t] => timed[t] /\ l # "idle"
      /\ mode'[t] = IF l = "idle" THEN "first" ELSE mode[t]
  BY <1>0, <1>2, LwGotoIs
<1>4. /\ l \notin LwMutex!Sleeping \union {"a_lock", "k_awake", "l_redo"} /\ l # "d_dead" /\ l # "idle"
      /\ l \notin LwSaveLabels /\ l \notin LwTaking
      /\ l \notin LwHolding /\ pc[t] \in LwHolding /\ pc[t] # "idle" /\ LwOutside(t)
      /\ pc[t] # "d_dead" /\ pc[t] \in LwUnlocking
  BY <1>1, <1>2 DEF LwMutex!Sleeping, LwTaking, LwSaveLabels, LwUnlocking, LwHolding, LwOutside
<1>5. ~LwRight(t) /\ ~LwCounted(t)
  BY <1>2, <1>4, LwOutsideIs
<1>6. LwRight(t)' /\ ~LwCounted(t)' /\ LwTaker(t)' /\ ~LwBeyond(t)'
  BY <1>1, <1>3, <1>4, LwGoesOutside
<1>7. lock.owner = t /\ held[t] = 0 /\ count = 0
  BY <1>4 DEF LwInv, LwOwnInv
<1>8. t # Free /\ t # Reserved /\ t # Dead /\ Free # Reserved /\ Free \notin Threads
      /\ Reserved \notin Threads /\ Free # Dead /\ Reserved # Dead
  BY WordsAssumption
<1>9. /\ lock'.owner = (IF retry THEN Free ELSE Reserved) /\ lock'.waiter = lock.waiter
      /\ lock' \in LwWord
  <2>1. lock' = [owner |-> IF retry THEN Free ELSE Reserved, waiter |-> lock.waiter]
    BY <1>2, LwReads
  <2>2. lock.waiter \in Nat
    BY LwReads
  <2>3. QED
    BY <2>1, <2>2 DEF LwWord
<1>10. LwOwnStep(t)
  <2>1. count' \in 0..MaxLocks
    BY <1>2, LwReads
  <2>2. QED
    BY <1>2, <1>3, <1>4, <1>7, <1>8, <1>9, <2>1 DEF LwOwnStep
<1>11. LwCountStep(t)
  <2>1. ~retry => lock'.owner # Free
    BY <1>8, <1>9
  <2>2. QED
    BY <1>5, <1>6, <1>9, <2>1, LwCountSame
<1>12. LwRightStep(t)
  <2>1. /\ signaled' \in BOOLEAN /\ lost' \in BOOLEAN
        /\ ~retry => lock'.owner = Reserved /\ ~lost
        /\ retry => lock'.owner # Reserved /\ pc'[t] \notin LwTaking
    <3>1. ~retry => ~lost
      BY <1>7, <1>8 DEF LwInv, LwRightInv
    <3>2. QED
      BY <1>2, <1>3, <1>4, <1>8, <1>9, <3>1, LwReads
  <2>2. ASSUME ~retry
        PROVE  Ind(LwRight(t)') + Ind(signaled') + Ind(lock.owner = Reserved /\ ~lost)
                 = Ind(LwRight(t)) + Ind(signaled) + Ind(lock'.owner = Reserved /\ ~lost')
    <3>1. Ind(LwRight(t)') = 1 /\ Ind(LwRight(t)) = 0 /\ Ind(lock.owner = Reserved /\ ~lost) = 0
          /\ Ind(lock'.owner = Reserved /\ ~lost') = 1
      BY <1>2, <1>5, <1>6, <1>7, <1>8, <2>1, <2>2 DEF Ind
    <3>2. Ind(signaled') = Ind(signaled) /\ Ind(signaled) \in Nat
      BY <1>2 DEF Ind
    <3>3. QED
      BY <3>1, <3>2
  <2>3. QED
    BY <2>1, <2>2 DEF LwRightStep
<1>13. LwExistsStep(t)
  <2>1. exists
    BY <1>4, <1>7, <1>8 DEF LwInv, LwExistsInv
  <2>2. lock'.owner # Dead
    BY <1>8, <1>9
  <2>3. QED
    BY <1>2, <1>3, <1>4, <2>1, <2>2 DEF LwExistsStep, LwInv, LwExistsInv
<1>14. LwRetryStep(t)
  BY <1>6 DEF LwRetryStep
<1>15. LwMoveLoad(t, l)
  BY <1>2, LwNotLoading
<1>16. sched[t] = "on"
  BY <1>4 DEF LwInv, LwThreadInv
<1>17. QED
  BY <1>0, <1>2, <1>3, <1>4, <1>10, <1>11, <1>12, <1>13, <1>14, <1>15, <1>16, LwMoveInv

(***************************************************************************)
(* The destroyed word.                                                     *)
(***************************************************************************)
LEMMA LwDeadInv ==
  ASSUME LwInv, NEW t \in Threads, LwMutex!DestroyDead(t)
  PROVE  LwInv'
<1>0. timed[t] \in BOOLEAN /\ mode[t] \in {"first", "aborted", "loop"}
  BY LwReads
<1>1. PICK l \in LwMutex!PCs : l = "idle"
  BY DEF LwMutex!PCs
<1>2. /\ pc[t] = "d_dead"
      /\ lock' = [lock EXCEPT !.owner = Dead]
      /\ LwMutex!Enter(t, l, timed[t], mode[t])
      /\ UNCHANGED <<fifo, exists, stopped, toSleep, saves, faults, guard, sched, retry, recursive,
                     count, sq, signaled, next, lost, held>>
  BY <1>1 DEF LwMutex!DestroyDead, LwMutex!world, LwMutex!Goto
<1>3. /\ pc'[t] = l /\ held'[t] = held[t] /\ LwOthers(t) /\ LwLocals'
      /\ timed'[t] => timed[t] /\ l # "idle"
      /\ mode'[t] = IF l = "idle" THEN "first" ELSE mode[t]
  BY <1>0, <1>2, LwGotoIs
<1>4. /\ l \notin LwMutex!Sleeping \union {"a_lock", "k_awake", "l_redo"} /\ l # "d_dead"
      /\ l \notin LwSaveLabels /\ l \notin LwTaking /\ l \notin LwUnlocking
      /\ l \notin LwHolding /\ pc[t] \in LwHolding /\ LwOutside(t)
  BY <1>1, <1>2 DEF LwMutex!Sleeping, LwTaking, LwSaveLabels, LwUnlocking, LwHolding, LwOutside
<1>5. ~LwRight(t) /\ ~LwCounted(t)
  BY <1>2, <1>4, LwOutsideIs
<1>6. ~LwRight(t)' /\ ~LwCounted(t)' /\ ~LwBeyond(t)'
  BY <1>1, <1>3, <1>4, LwGoesOutside
<1>7. lock.owner = t /\ held[t] = 0 /\ count = 0
  BY <1>2, <1>4 DEF LwInv, LwOwnInv
<1>8. t # Free /\ t # Reserved /\ t # Dead /\ Dead \notin Threads /\ Free # Dead /\ Reserved # Dead
  BY WordsAssumption
<1>9. lock'.owner = Dead /\ lock'.waiter = lock.waiter /\ lock' \in LwWord
  <2>1. lock' = [owner |-> Dead, waiter |-> lock.waiter]
    BY <1>2, LwReads
  <2>2. lock.waiter \in Nat
    BY LwReads
  <2>3. QED
    BY <2>1, <2>2 DEF LwWord
<1>10. LwOwnStep(t)
  <2>1. count' \in 0..MaxLocks
    BY <1>2, LwReads
  <2>2. QED
    BY <1>2, <1>3, <1>4, <1>7, <1>8, <1>9, <2>1 DEF LwOwnStep
<1>11. LwCountStep(t)
  BY <1>5, <1>6, <1>8, <1>9, LwCountSame
<1>12. LwRightStep(t)
  BY <1>2, <1>3, <1>4, <1>5, <1>6, <1>7, <1>8, <1>9, LwRightSame
<1>13. LwExistsStep(t)
  BY <1>2, <1>3, <1>4, <1>9 DEF LwExistsStep, LwInv, LwExistsInv, LwThreadInv
<1>14. LwRetryStep(t)
  BY <1>8, <1>9 DEF LwRetryStep
<1>15. LwMoveLoad(t, l)
  BY <1>2, LwNotLoading
<1>16. QED
  BY <1>1, <1>2, <1>3, <1>4, <1>10, <1>11, <1>12, <1>13, <1>14, <1>15, LwMoveInv

(***************************************************************************)
(* An unlock: not the owner, one level of several, the last one, or the    *)
(* last one with waiters.                                                  *)
(***************************************************************************)
LEMMA LwUnlockInv ==
  ASSUME LwInv, NEW t \in Threads, NEW from \in {"idle", "u_redo", "d_unlock"},
         LwMutex!Unlock(t, from)
  PROVE  LwInv'
<1>0. timed[t] \in BOOLEAN /\ mode[t] \in {"first", "aborted", "loop"} /\ held[t] \in 0..MaxLocks + 1
      /\ (timed[t] => "timeout" \in faults) /\ count \in 0..MaxLocks /\ MaxLocks \in Nat
      /\ held \in [Threads -> 0..MaxLocks + 1]
  BY LwReads DEF LwInv, LwFaultInv, LwTypes, LwLocals
<1>1. /\ LwMutex!MayStep(t, from)
      /\ held' = [held EXCEPT ![t] = IF from = "idle" /\ held[t] > 0 THEN held[t] - 1 ELSE held[t]]
      /\ UNCHANGED <<fifo, exists, stopped, toSleep, saves, faults, guard, sched, retry, recursive,
                     sq, signaled, next>>
  BY DEF LwMutex!Unlock, LwMutex!world
<1>2. \/ /\ lock.owner # t /\ lost' = (lost \/ from = "u_redo") /\ LwMutex!Goto(t, "idle")
         /\ lock' = lock /\ count' = count
      \/ /\ lock.owner = t /\ count > 0 /\ count' = count - 1 /\ LwMutex!Goto(t, "idle")
         /\ lock' = lock /\ lost' = lost
      \/ /\ lock.owner = t /\ count = 0 /\ count' = count /\ lost' = lost
         /\ IF lock.waiter = 0
            THEN lock' = [lock EXCEPT !.owner = Free] /\ LwMutex!Goto(t, "idle")
            ELSE lock' = lock /\ LwMutex!Goto(t, "u_release")
  BY DEF LwMutex!Unlock
<1>3. /\ pc[t] = from
      /\ from = "idle" => t \notin stopped /\ toSleep = {}
      /\ toSleep = {} \/ t \in toSleep
  BY <1>1 DEF LwMutex!MayStep
<1>4. LwOutside(t) /\ pc[t] # "d_dead"
  BY <1>3 DEF LwOutside, LwMutex!Sleeping
<1>5. (LwRight(t) <=> from = "u_redo") /\ ~LwCounted(t) /\ ~LwTaker(t)
  BY <1>3, <1>4, LwOutsideIs
<1>6. from = "idle" => sched[t] = "on"
  BY <1>3 DEF LwInv, LwThreadInv
<1>7. \A l : LwMoveLoad(t, l)
  <2>1. CASE from = "d_unlock"
    BY <1>3, <2>1, LwNotLoading
  <2>2. CASE from # "d_unlock"
    <3>1. ~retry => toSleep = {}
      BY <1>3, <2>2 DEF LwInv, LwLoadInv
    <3>2. QED
      BY <3>1 DEF LwMoveLoad
  <2>3. QED
    BY <2>1, <2>2
<1>8. /\ held' \in [Threads -> 0..MaxLocks + 1]
      /\ held'[t] = (IF from = "idle" /\ held[t] > 0 THEN held[t] - 1 ELSE held[t])
      /\ \A u \in Threads \ {t} : held'[u] = held[u]
  <2>1. PICK h \in 0..MaxLocks + 1 : h = IF from = "idle" /\ held[t] > 0 THEN held[t] - 1 ELSE held[t]
    BY <1>0
  <2>2. held' = [held EXCEPT ![t] = h]
    BY <1>1, <2>1
  <2>3. QED
    BY <1>0, <2>1, <2>2
<1>9. PICK l \in LwMutex!PCs : /\ l = IF lock.owner = t /\ count = 0 /\ lock.waiter # 0
                                      THEN "u_release" ELSE "idle"
                               /\ LwMutex!Enter(t, l, timed[t], mode[t])
  <2>1. "idle" \in LwMutex!PCs /\ "u_release" \in LwMutex!PCs
    BY DEF LwMutex!PCs
  <2>2. CASE lock.owner = t /\ count = 0 /\ lock.waiter # 0
    BY <1>0, <1>2, <2>1, <2>2 DEF LwMutex!Goto
  <2>3. CASE ~(lock.owner = t /\ count = 0 /\ lock.waiter # 0)
    BY <1>0, <1>2, <2>1, <2>3 DEF LwMutex!Goto
  <2>4. QED
    BY <2>2, <2>3
<1>10. /\ pc'[t] = l /\ LwOthers(t) /\ LwLocals'
       /\ timed'[t] => timed[t] /\ l # "idle"
       /\ mode'[t] = IF l = "idle" THEN "first" ELSE mode[t]
  BY <1>0, <1>1, <1>8, <1>9, LwEnterIs
<1>11. /\ l \notin LwMutex!Sleeping \union {"a_lock", "k_awake", "l_redo"} /\ l # "d_dead" /\ l # "k_lock"
       /\ l \notin LwSaveLabels /\ l \notin LwTaking /\ (l \in LwHolding <=> l = "u_release")
  BY <1>9 DEF LwMutex!Sleeping, LwTaking, LwSaveLabels, LwHolding
<1>12. ~LwRight(t)' /\ ~LwCounted(t)' /\ ~LwBeyond(t)'
  BY <1>9, <1>10, <1>11, LwGoesOutside
<1>13. from = "d_unlock" => lock.owner = t /\ held[t] = 0 /\ count = 0 /\ sched[t] = "on"
  BY <1>3 DEF LwInv, LwOwnInv, LwHolding, LwThreadInv, LwUnlocking
<1>14. /\ lock.owner = t => from # "u_redo" /\ (from = "idle" => held[t] = count + 1)
       /\ lock.owner # t => held[t] = 0
       /\ lock.owner \notin Threads => count = 0
  BY <1>3 DEF LwInv, LwOwnInv, LwHolding
<1>15. t # Free /\ t # Reserved /\ t # Dead /\ Free \notin Threads /\ Free # Reserved /\ Free # Dead
  BY WordsAssumption
<1>16. /\ lock' \in LwWord /\ lock'.waiter = lock.waiter
       /\ \/ lock'.owner = lock.owner
          \/ lock'.owner = Free /\ lock.owner = t /\ count = 0 /\ lock.waiter = 0
  <2>1. CASE lock.owner = t /\ count = 0 /\ lock.waiter = 0
    <3>1. lock' = [owner |-> Free, waiter |-> lock.waiter] /\ lock.waiter \in Nat
      BY <1>0, <1>2, <2>1, LwReads
    <3>2. QED
      BY <2>1, <3>1 DEF LwWord
  <2>2. CASE ~(lock.owner = t /\ count = 0 /\ lock.waiter = 0)
    <3>1. lock' = lock
      BY <1>0, <1>2, <2>2
    <3>2. QED
      BY <3>1 DEF LwInv, LwTypes
  <2>3. QED
    BY <2>1, <2>2
<1>17. LwOwnStep(t)
  <2>1. CASE lock.owner # t
    <3>1. lock' = lock /\ count' = count /\ held'[t] = held[t] /\ l \notin LwHolding
      BY <1>2, <1>8, <1>9, <1>11, <1>14, <2>1
    <3>2. QED
      BY <1>10, <2>1, <3>1, LwOwnSame
  <2>2. CASE lock.owner = t /\ count > 0
    <3>1. from = "idle" /\ lock' = lock /\ count' = count - 1 /\ l = "idle" /\ held[t] = count + 1
      BY <1>0, <1>2, <1>9, <1>13, <1>14, <2>2
    <3>2. count' \in 0..MaxLocks /\ held'[t] = count' + 1
      BY <1>0, <1>8, <2>2, <3>1
    <3>3. QED
      BY <1>10, <1>16, <2>2, <3>1, <3>2 DEF LwOwnStep
  <2>3. CASE lock.owner = t /\ count = 0
    <3>1. count' = 0 /\ count' \in 0..MaxLocks /\ held'[t] = 0
      BY <1>0, <1>2, <1>8, <1>13, <1>14, <2>3
    <3>2. lock'.owner = t <=> l = "u_release"
      BY <1>2, <1>9, <1>15, <2>3, LwReads
    <3>3. QED
      BY <1>10, <1>11, <1>15, <1>16, <2>3, <3>1, <3>2 DEF LwOwnStep
  <2>4. QED
    BY <1>0, <2>1, <2>2, <2>3
<1>18. LwCountStep(t)
  <2>1. lock'.owner = Free => lock.owner = Free \/ lock.waiter = 0
    BY <1>16
  <2>2. QED
    BY <1>5, <1>12, <1>16, <2>1, LwCountSame
<1>19. LwRightStep(t)
  <2>1. CASE from = "u_redo"
    <3>1. lock.owner # t /\ lock' = lock /\ lost' = TRUE
      BY <1>2, <1>14, <2>1
    <3>2. /\ signaled' \in BOOLEAN /\ lost' \in BOOLEAN
          /\ retry => lock'.owner # Reserved /\ pc'[t] \notin LwTaking
      BY <1>1, <1>10, <1>11, <3>1, LwReads DEF LwInv, LwRightInv
    <3>3. ASSUME ~retry
          PROVE  /\ Ind(LwRight(t)') + Ind(signaled') + Ind(lock.owner = Reserved /\ ~lost)
                      = Ind(LwRight(t)) + Ind(signaled) + Ind(lock'.owner = Reserved /\ ~lost')
                 /\ lost' => lock'.owner = Reserved
      <4>1. lock.owner = Reserved /\ ~lost /\ ~signaled
        BY <1>5, <2>1, <3>3, LwRightIsAlone
      <4>2. /\ Ind(LwRight(t)') = 0 /\ Ind(signaled') = 0 /\ Ind(lock.owner = Reserved /\ ~lost) = 1
            /\ Ind(LwRight(t)) = 1 /\ Ind(signaled) = 0 /\ Ind(lock'.owner = Reserved /\ ~lost') = 0
        BY <1>1, <1>5, <1>12, <2>1, <3>1, <4>1 DEF Ind
      <4>3. QED
        BY <3>1, <4>1, <4>2
    <3>4. QED
      BY <3>2, <3>3 DEF LwRightStep
  <2>2. CASE from # "u_redo"
    <3>1. lost' = lost
      BY <1>2, <2>2, LwReads
    <3>2. QED
      BY <1>1, <1>5, <1>10, <1>11, <1>12, <1>15, <1>16, <2>2, <3>1, LwRightSame
  <2>3. QED
    BY <2>1, <2>2
<1>20. LwExistsStep(t)
  <2>1. lock.owner = t => exists
    BY <1>4, <1>15 DEF LwInv, LwExistsInv
  <2>2. QED
    BY <1>1, <1>4, <1>10, <1>11, <1>15, <1>16, <2>1 DEF LwExistsStep, LwInv, LwExistsInv
<1>21. LwRetryStep(t)
  BY <1>1, <1>5, <1>10, <1>11, <1>16 DEF LwRetryStep
<1>22. l \in LwUnlocking => sched[t] = "on"
  BY <1>6, <1>9, <1>13, <1>14 DEF LwUnlocking
<1>23. QED
  BY <1>0, <1>1, <1>4, <1>7, <1>10, <1>11, <1>17, <1>18, <1>19, <1>20, <1>21, <1>22, LwMoveInv


(***************************************************************************)
(* A behaviour with timeouts has no savestates.                            *)
(***************************************************************************)
LEMMA LwTimeNoSave ==
  ASSUME OneFault, LwInv, "timeout" \in faults
  PROVE  /\ stopped = {} /\ toSleep = {}
         /\ \A t \in Threads : pc[t] \notin LwSaveLabels /\ mode[t] # "aborted"
BY DEF OneFault, LwInv, LwTypes, ObjTypeOK, LwFaultInv

(***************************************************************************)
(* Nobody is in an empty list.                                             *)
(***************************************************************************)
LEMMA LwEmptyIs ==
  ASSUME NEW q \in Seq(Threads)
  PROVE  q = <<>> <=> \A u \in Threads : ~Contains(q, u)
<1>1. ASSUME q = <<>>, NEW u \in Threads PROVE ~Contains(q, u)
  BY <1>1 DEF Contains
<1>2. ASSUME q # <<>> PROVE \E u \in Threads : Contains(q, u)
  <2>1. 1 \in 1..Len(q) /\ q[1] \in Threads
    BY <1>2
  <2>2. QED
    BY <2>1 DEF Contains
<1>3. QED
  BY <1>1, <1>2

\* The labels of a lock call inside the kernel.
LwInLock == LwMutex!Sleeping \union {"k_lock"}

(***************************************************************************)
(* A thread inside the kernel's lock goes on: it stays counted, and the    *)
(* word stays as it is.                                                    *)
(***************************************************************************)
LEMMA LwKernelInv ==
  ASSUME LwInv, NEW t \in Threads, pc[t] \in LwInLock,
         pc'[t] \in LwMutex!Sleeping \union {"r_got", "r_err", "a_lock"}, held'[t] = held[t],
         UNCHANGED <<fifo, exists, stopped, saves, faults, guard, retry, recursive, lock, count>>,
         LwLocalStep(t), LwListStep(t), LwRightStep(t), LwRetryStep(t), LwLoadStep(t),
         sq = <<>> /\ (~exists \/ signaled') => sq' = <<>>, signaled' => signaled
  PROVE  LwInv'
<1>1. pc[t] \notin LwHolding /\ pc'[t] \notin LwHolding /\ pc[t] # "idle" /\ pc[t] # "d_dead"
      /\ pc'[t] # "d_dead" /\ pc'[t] # "l_try" /\ pc[t] # "l_try"
  BY DEF LwInLock, LwMutex!Sleeping, LwHolding
<1>2. lock.owner # t
  BY <1>1 DEF LwInv, LwOwnInv
<1>3. LwOwnStep(t)
  BY <1>1, <1>2, LwOwnSame
<1>4. LwExistsStep(t)
  BY <1>1, <1>2 DEF LwExistsStep, LwInv, LwExistsInv
<1>5. LwCounted(t) /\ LwCounted(t)'
  BY DEF LwCounted, LwInLock
<1>6. ~retry => lock.owner # Free
  BY <1>1, <1>5 DEF LwInv, LwCountInv, LwBeyond
<1>7. LwCountStep(t)
  BY <1>5, <1>6, LwCountSame
<1>8. QED
  BY <1>3, <1>4, <1>7, LwStepInv

(***************************************************************************)
(* The kernel's lock: the mutex is destroyed, a signal is taken, or the    *)
(* thread is queued.                                                       *)
(***************************************************************************)
LEMMA LwKLockInv ==
  ASSUME LwInv, NEW t \in Threads, LwMutex!KLock(t)
  PROVE  LwInv'
<1>0. timed[t] \in BOOLEAN /\ mode[t] \in {"first", "aborted", "loop"}
      /\ (timed[t] => "timeout" \in faults) /\ sq \in Seq(Threads) /\ Distinct(sq)
  BY LwReads DEF LwInv, LwFaultInv, LwTypes, LwListInv
<1>1. PICK l \in LwMutex!PCs : l = IF ~exists THEN "r_err" ELSE IF signaled THEN "r_got" ELSE "k_sleep"
  BY DEF LwMutex!PCs, LwMutex!Sleeping
<1>2. /\ pc[t] = "k_lock" /\ LwMutex!Enter(t, l, timed[t], mode[t])
      /\ signaled' = (signaled /\ ~exists)
      /\ sq' = IF exists /\ ~signaled THEN <<t>> \o sq ELSE sq
      /\ UNCHANGED <<fifo, exists, stopped, toSleep, saves, faults, guard, sched, retry, recursive,
                     lock, count, next, lost, held>>
  BY <1>1 DEF LwMutex!KLock, LwMutex!world, LwMutex!Goto
<1>3. /\ pc'[t] = l /\ held'[t] = held[t] /\ LwOthers(t) /\ LwLocals'
      /\ l # "idle" => timed'[t] = timed[t]
      /\ mode'[t] = IF l = "idle" THEN "first" ELSE mode[t]
  BY <1>0, <1>2, LwGotoIs
<1>4. mode'[t] = mode[t] /\ timed'[t] = timed[t] /\ l \in {"r_err", "r_got", "k_sleep"}
  BY <1>1, <1>3
<1>5. /\ l \notin LwSaveLabels /\ l \notin LwUnlocking /\ l \notin LwTimeLabels /\ l \notin LwTaking
      /\ pc[t] \in LwInLock /\ l \in LwMutex!Sleeping \union {"r_got", "r_err", "a_lock"}
      /\ (l \in LwMutex!Sleeping <=> l = "k_sleep") /\ LwOutside(t)
  BY <1>2, <1>4 DEF LwSaveLabels, LwUnlocking, LwTimeLabels, LwTaking, LwInLock, LwMutex!Sleeping,
                    LwOutside
<1>6. /\ ~Contains(sq, t) /\ ~LwAwaited(t) /\ sched[t] # "cancelled"
      /\ t \notin stopped => sched[t] = "on"
      /\ ~LwRight(t) /\ ~LwTaker(t)
  <2>1. pc[t] \notin LwMutex!Sleeping
    BY <1>5 DEF LwOutside
  <2>2. QED
    BY <1>2, <1>5, <2>1, LwOutsideIs DEF LwInv, LwThreadInv
<1>7. /\ LwListStep(t)
      /\ Contains(sq', t) <=> l = "k_sleep"
      /\ sq = <<>> /\ (~exists \/ signaled') => sq' = <<>>
      /\ signaled' => signaled
  <2>1. CASE exists /\ ~signaled
    <3>1. sq' \in Seq(Threads) /\ Distinct(sq') /\ \A x : Contains(sq', x) <=> Contains(sq, x) \/ x = t
      BY <1>0, <1>2, <1>6, <2>1, PushIs
    <3>2. QED
      BY <1>1, <1>2, <1>3, <1>5, <2>1, <3>1 DEF LwListStep
  <2>2. CASE ~(exists /\ ~signaled)
    <3>1. sq' = sq
      BY <1>2, <2>2
    <3>2. QED
      BY <1>0, <1>1, <1>2, <1>3, <1>5, <1>6, <2>2, <3>1 DEF LwListStep
  <2>3. QED
    BY <2>1, <2>2
<1>8. LwLocalStep(t)
  <2>1. sched' \in [Threads -> SchedStates]
    BY <1>2, LwReads DEF LwTypes, ObjTypeOK
  <2>2. QED
    BY <1>0, <1>2, <1>3, <1>4, <1>5, <1>6, <1>7, <2>1 DEF LwLocalStep
<1>9. (LwRight(t)' <=> l = "r_got") /\ (l = "r_got" => LwTaker(t)')
  BY <1>3, <1>4, <1>5, <1>7 DEF LwRight, LwTaker
<1>10. LwRightStep(t)
  <2>1. CASE l = "r_got"
    <3>1. exists /\ signaled /\ ~signaled'
      BY <1>1, <1>2, <2>1
    <3>2. Ind(LwRight(t)') = 1 /\ Ind(signaled') = 0 /\ Ind(LwRight(t)) = 0 /\ Ind(signaled) = 1
      BY <1>6, <1>9, <2>1, <3>1 DEF Ind
    <3>3. Ind(lock.owner = Reserved /\ ~lost) = Ind(lock'.owner = Reserved /\ ~lost')
          /\ Ind(lock.owner = Reserved /\ ~lost) \in Nat
      BY <1>2 DEF Ind
    <3>4. Ind(LwRight(t)') + Ind(signaled') + Ind(lock.owner = Reserved /\ ~lost)
            = Ind(LwRight(t)) + Ind(signaled) + Ind(lock'.owner = Reserved /\ ~lost')
      BY <3>2, <3>3
    <3>5. signaled' \in BOOLEAN /\ lost' \in BOOLEAN /\ (~retry /\ lost' => lock'.owner = Reserved)
          /\ (retry => lock'.owner # Reserved)
      BY <1>2, LwReads DEF LwInv, LwRightInv
    <3>6. QED
      BY <1>3, <1>5, <3>4, <3>5 DEF LwRightStep
  <2>2. CASE l # "r_got"
    <3>1. signaled' = signaled
      BY <1>1, <1>2, <2>2, LwReads
    <3>2. QED
      BY <1>2, <1>3, <1>5, <1>6, <1>9, <2>2, <3>1, LwRightSame
  <2>3. QED
    BY <2>1, <2>2
<1>11. LwRetryStep(t)
  <2>1. SUFFICES ASSUME retry, lock.owner = Free, ~LwTaker(t)' PROVE LwRetryStep(t)
    BY <1>2 DEF LwRetryStep
  <2>2. exists
    BY <2>1, LwFreeIsQuiet
  <2>3. ~signaled
    BY <1>1, <1>9, <2>1, <2>2
  <2>4. QED
    BY <1>2, <1>3, <1>4, <1>6, <2>1, <2>3 DEF LwRetryStep
<1>12. LwLoadStep(t)
  <2>1. SUFFICES ASSUME ~retry, toSleep # {} PROVE LwLoadStep(t)
    BY <1>2 DEF LwLoadStep
  <2>2. exists /\ ~signaled /\ t \in toSleep /\ mode[t] = "aborted"
    BY <1>2, <2>1 DEF LwInv, LwLoadInv
  <2>3. l = "k_sleep" /\ Contains(sq', t) /\ ~signaled'
    BY <1>1, <1>2, <1>7, <2>2
  <2>4. QED
    BY <1>2, <1>3, <1>4, <2>2, <2>3 DEF LwLoadStep
<1>13. QED
  BY <1>2, <1>3, <1>5, <1>7, <1>8, <1>10, <1>11, <1>12, LwKernelInv

(***************************************************************************)
(* A sleeper goes on, in the list or outside as before.                    *)
(***************************************************************************)
LEMMA LwSleeperInv ==
  ASSUME LwInv, NEW t \in Threads, pc[t] \in LwMutex!Sleeping,
         pc'[t] \in LwMutex!Sleeping \union {"r_got", "a_lock"},
         Contains(sq, t) => pc'[t] \in (LwMutex!Sleeping \ {"t_over"}) \union {"a_lock"},
         pc'[t] = "a_lock" => Contains(sq, t),
         held'[t] = held[t], LwOthers(t), LwLocals', mode'[t] = mode[t], timed'[t] = timed[t],
         sched' \in [Threads -> SchedStates], \A u \in Threads \ {t} : sched'[u] = sched[u],
         UNCHANGED <<fifo, exists, stopped, saves, faults, guard, retry, recursive, lock, count, sq,
                     signaled, lost>>,
         sched'[t] # "cancelled",
         pc'[t] \notin {"k_sleep", "k_wait", "t_check"} /\ t \notin stopped => sched'[t] = "on",
         pc'[t] = "k_wait" /\ (Contains(sq, t) \/ LwAwaited(t)) => sched'[t] = "asleep",
         pc'[t] = "a_lock" => sched'[t] = "asleep" /\ "save" \in faults,
         pc'[t] \in LwTimeLabels => "timeout" \in faults,
         LwAwaited(t) => pc'[t] \in LwMutex!Sleeping,
         LwLoadStep(t)
  PROVE  LwInv'
<1>1. LwAwaited(t) => ~Contains(sq, t)
  BY DEF LwInv, LwThreadInv
<1>2. /\ pc[t] # "k_awake" /\ pc'[t] # "k_awake" /\ pc'[t] \notin LwUnlocking /\ pc'[t] # "idle"
      /\ pc'[t] # "l_redo" /\ (pc'[t] \in LwSaveLabels => pc'[t] = "a_lock")
      /\ pc'[t] \notin LwTaking /\ pc'[t] # "k_lock"
  BY DEF LwMutex!Sleeping, LwUnlocking, LwSaveLabels, LwTaking
<1>3. timed[t] => "timeout" \in faults
  BY DEF LwInv, LwFaultInv
<1>4. LwLocalStep(t)
  BY <1>1, <1>2, <1>3 DEF LwLocalStep
<1>5. LwListStep(t)
  BY DEF LwListStep, LwInv, LwTypes, LwListInv, Distinct
<1>6. LwRight(t)' <=> LwRight(t)
  BY DEF LwRight, LwMutex!Sleeping
<1>7. LwTaker(t)' <=> LwTaker(t)
  BY DEF LwTaker, LwMutex!Sleeping
<1>8. LwRightStep(t)
  BY <1>2, <1>6, LwRightSame
<1>9. LwRetryStep(t)
  BY <1>2, <1>7 DEF LwRetryStep
<1>10. QED
  BY <1>4, <1>5, <1>8, <1>9, LwKernelInv DEF LwInLock


(***************************************************************************)
(* A queued thread sleeps, unless it was chosen before.                    *)
(***************************************************************************)
LEMMA LwKSleepInv ==
  ASSUME LwInv, NEW t \in Threads, LwMutex!KSleep(t)
  PROVE  LwInv'
<1>0. timed[t] \in BOOLEAN /\ mode[t] \in {"first", "aborted", "loop"}
      /\ sched \in [Threads -> SchedStates] /\ "on" \in SchedStates /\ "asleep" \in SchedStates
  BY LwReads DEF LwTypes, ObjTypeOK, SchedStates
<1>1. PICK l \in LwMutex!PCs : l = IF sched[t] = "cancelled" THEN "r_got" ELSE "k_wait"
  BY DEF LwMutex!PCs, LwMutex!Sleeping
<1>2. /\ pc[t] = "k_sleep" /\ LwMutex!Enter(t, l, timed[t], mode[t])
      /\ IF sched[t] = "cancelled"
         THEN sched' = [sched EXCEPT ![t] = "on"] /\ toSleep' = toSleep
         ELSE sched' = [sched EXCEPT ![t] = "asleep"] /\ toSleep' = toSleep \ {t}
      /\ UNCHANGED <<fifo, exists, stopped, saves, faults, guard, retry, recursive,
                     lock, count, sq, signaled, next, lost, held>>
  BY <1>1 DEF LwMutex!KSleep, LwMutex!Goto, LwMutex!FallAsleep
<1>3. /\ pc'[t] = l /\ held'[t] = held[t] /\ LwOthers(t) /\ LwLocals'
      /\ l # "idle" => timed'[t] = timed[t]
      /\ mode'[t] = IF l = "idle" THEN "first" ELSE mode[t]
  BY <1>0, <1>2, LwGotoIs
<1>4. mode'[t] = mode[t] /\ timed'[t] = timed[t] /\ l \in {"r_got", "k_wait"}
  BY <1>1, <1>3
<1>5. /\ sched' \in [Threads -> SchedStates] /\ \A u \in Threads \ {t} : sched'[u] = sched[u]
      /\ sched'[t] = IF l = "r_got" THEN "on" ELSE "asleep"
  BY <1>0, <1>1, <1>2
<1>6. l = "r_got" => ~Contains(sq, t) /\ ~LwAwaited(t)
  BY <1>1, <1>4 DEF LwInv, LwThreadInv
<1>7. /\ l \in LwMutex!Sleeping \union {"r_got", "a_lock"} /\ pc[t] \in LwMutex!Sleeping
      /\ (l = "k_wait" => l \in LwMutex!Sleeping /\ l # "t_over") /\ l \notin LwTimeLabels /\ l # "a_lock"
  BY <1>2, <1>4 DEF LwMutex!Sleeping, LwTimeLabels
<1>8. LwLoadStep(t)
  <2>1. toSleep' \subseteq toSleep /\ toSleep \ {t} \subseteq toSleep'
    BY <1>2
  <2>2. SUFFICES ASSUME ~retry, toSleep' # {} PROVE LwLoadStep(t)
    BY <2>1 DEF LwLoadStep
  <2>3. ~signaled /\ Contains(sq, t)
    BY <1>2, <2>1, <2>2 DEF LwInv, LwLoadInv
  <2>4. l = "k_wait" /\ t \notin toSleep'
    BY <1>1, <1>2, <1>4, <1>6, <2>3
  <2>5. QED
    BY <1>2, <1>3, <2>1, <2>3, <2>4 DEF LwLoadStep
<1>9. QED
  BY <1>2, <1>3, <1>4, <1>5, <1>6, <1>7, <1>8, LwSleeperInv

(***************************************************************************)
(* A sleeper that is neither queued nor about to be awakened returns.      *)
(***************************************************************************)
LEMMA LwKSignalInv ==
  ASSUME LwInv, NEW t \in Threads, LwMutex!KSignal(t)
  PROVE  LwInv'
<1>0. timed[t] \in BOOLEAN /\ mode[t] \in {"first", "aborted", "loop"}
      /\ sched \in [Threads -> SchedStates] /\ "on" \in SchedStates
  BY LwReads DEF LwTypes, ObjTypeOK, SchedStates
<1>1. PICK l \in LwMutex!PCs : l = "r_got"
  BY DEF LwMutex!PCs
<1>2. /\ pc[t] = "k_wait" /\ sched[t] = "signal" /\ sched' = [sched EXCEPT ![t] = "on"]
      /\ LwMutex!Enter(t, l, timed[t], mode[t])
      /\ UNCHANGED <<fifo, exists, stopped, toSleep, saves, faults, guard, retry, recursive,
                     lock, count, sq, signaled, next, lost, held>>
  BY <1>1 DEF LwMutex!KSignal, LwMutex!Signalled, LwMutex!Goto, LwMutex!world
<1>3. /\ pc'[t] = l /\ held'[t] = held[t] /\ LwOthers(t) /\ LwLocals'
      /\ l # "idle" => timed'[t] = timed[t]
      /\ mode'[t] = IF l = "idle" THEN "first" ELSE mode[t]
  BY <1>0, <1>2, LwGotoIs
<1>4. mode'[t] = mode[t] /\ timed'[t] = timed[t]
  BY <1>1, <1>3
<1>5. /\ sched' \in [Threads -> SchedStates] /\ \A u \in Threads \ {t} : sched'[u] = sched[u]
      /\ sched'[t] = "on"
  BY <1>0, <1>2
<1>6. ~Contains(sq, t) /\ ~LwAwaited(t)
  BY <1>2 DEF LwInv, LwThreadInv
<1>7. pc[t] \in LwMutex!Sleeping /\ l \notin LwTimeLabels
  BY <1>1, <1>2 DEF LwMutex!Sleeping, LwTimeLabels
<1>8. LwLoadStep(t)
  <2>1. ~retry => toSleep = {}
    BY <1>2, <1>6 DEF LwInv, LwLoadInv
  <2>2. QED
    BY <1>2, <2>1 DEF LwLoadStep
<1>9. QED
  BY <1>1, <1>2, <1>3, <1>4, <1>5, <1>6, <1>7, <1>8, LwSleeperInv

(***************************************************************************)
(* A stopped sleeper leaves: for the savestate if it is queued, with the   *)
(* mutex if it was chosen.                                                 *)
(***************************************************************************)
LEMMA LwKStoppedInv ==
  ASSUME LwInv, NEW t \in Threads, LwMutex!KStopped(t)
  PROVE  LwInv'
<1>0. timed[t] \in BOOLEAN /\ mode[t] \in {"first", "aborted", "loop"}
      /\ sched \in [Threads -> SchedStates]
  BY LwReads DEF LwTypes, ObjTypeOK
<1>1. PICK l \in LwMutex!PCs : l = IF Contains(sq, t) THEN "a_lock" ELSE "r_got"
  BY DEF LwMutex!PCs
<1>2. /\ pc[t] = "k_wait" /\ t \in stopped /\ guard = NoThread
      /\ LwMutex!Enter(t, l, timed[t], mode[t])
      /\ UNCHANGED <<fifo, exists, stopped, toSleep, saves, faults, guard, sched, retry, recursive,
                     lock, count, sq, signaled, next, lost, held>>
  BY <1>1, LwSame DEF LwMutex!KStopped, LwMutex!Stopping, LwMutex!Goto, LwMutex!world
<1>3. /\ pc'[t] = l /\ held'[t] = held[t] /\ LwOthers(t) /\ LwLocals'
      /\ l # "idle" => timed'[t] = timed[t]
      /\ mode'[t] = IF l = "idle" THEN "first" ELSE mode[t]
  BY <1>0, <1>2, LwGotoIs
<1>4. mode'[t] = mode[t] /\ timed'[t] = timed[t] /\ l \in {"a_lock", "r_got"}
  BY <1>1, <1>3
<1>5. /\ sched[t] # "cancelled" /\ (l = "a_lock" => sched[t] = "asleep")
      /\ ~LwAwaited(t) /\ "save" \in faults
  <2>1. sched[t] # "cancelled" /\ (Contains(sq, t) => sched[t] = "asleep")
    BY <1>2 DEF LwInv, LwThreadInv
  <2>2. "save" \in faults
    BY <1>2 DEF LwInv, LwFaultInv
  <2>3. ~LwAwaited(t)
    BY <1>2, ThreadsAssumption DEF LwInv, LwGuardInv, LwAwaited
  <2>4. QED
    BY <1>1, <2>1, <2>2, <2>3
<1>6. pc[t] \in LwMutex!Sleeping /\ l \notin LwTimeLabels /\ l # "k_wait"
  BY <1>2, <1>4 DEF LwMutex!Sleeping, LwTimeLabels
<1>7. LwLoadStep(t)
  <2>1. SUFFICES ASSUME ~retry, toSleep # {} PROVE LwLoadStep(t)
    BY <1>2 DEF LwLoadStep
  <2>2. ~signaled /\ Contains(sq, t) /\ t \notin toSleep
    BY <1>2, <2>1 DEF LwInv, LwLoadInv
  <2>3. l = "a_lock"
    BY <1>1, <2>2
  <2>4. QED
    BY <1>2, <1>3, <2>2, <2>3 DEF LwLoadStep
<1>8. QED
  BY <1>0, <1>1, <1>2, <1>3, <1>4, <1>5, <1>6, <1>7, LwSleeperInv

(***************************************************************************)
(* A timeout, until the thread looks at the list.                          *)
(***************************************************************************)
LEMMA LwTimeOutInv ==
  ASSUME OneFault, LwInv, NEW t \in Threads, LwMutex!TimeOut(t) \/ LwMutex!TimeOutTest(t)
  PROVE  LwInv'
<1>0. timed[t] \in BOOLEAN /\ mode[t] \in {"first", "aborted", "loop"}
      /\ sched \in [Threads -> SchedStates] /\ sq \in Seq(Threads)
  BY LwReads DEF LwTypes, ObjTypeOK
<1>1. PICK l \in LwMutex!PCs :
        /\ LwMutex!Enter(t, l, timed[t], mode[t])
        /\ \/ pc[t] = "k_wait" /\ timed[t] /\ l = "t_check"
           \/ pc[t] = "t_test" /\ l = "t_over" /\ sq = <<>>
           \/ pc[t] = "t_test" /\ l = "t_lock"
  <2>1. "t_check" \in LwMutex!PCs /\ "t_over" \in LwMutex!PCs /\ "t_lock" \in LwMutex!PCs
    BY DEF LwMutex!PCs, LwMutex!Sleeping
  <2>2. CASE LwMutex!TimeOut(t)
    BY <2>1, <2>2 DEF LwMutex!TimeOut, LwMutex!TimedOut, LwMutex!Goto
  <2>3. CASE LwMutex!TimeOutTest(t)
    BY <2>1, <2>3 DEF LwMutex!TimeOutTest, LwMutex!Goto
  <2>4. QED
    BY <2>2, <2>3
<1>2. UNCHANGED <<fifo, exists, stopped, toSleep, saves, faults, guard, sched, retry, recursive,
                  lock, count, sq, signaled, next, lost, held>>
  BY DEF LwMutex!TimeOut, LwMutex!TimeOutTest, LwMutex!world
<1>3. /\ pc'[t] = l /\ held'[t] = held[t] /\ LwOthers(t) /\ LwLocals'
      /\ l # "idle" => timed'[t] = timed[t]
      /\ mode'[t] = IF l = "idle" THEN "first" ELSE mode[t]
  BY <1>0, <1>1, <1>2, LwGotoIs
<1>4. mode'[t] = mode[t] /\ timed'[t] = timed[t] /\ l \in {"t_check", "t_over", "t_lock"}
  BY <1>1, <1>3
<1>5. "timeout" \in faults
  BY <1>1 DEF LwInv, LwFaultInv, LwTimeLabels
<1>6. /\ pc[t] \in LwMutex!Sleeping /\ l \in LwMutex!Sleeping /\ l # "k_wait" /\ l # "a_lock"
      /\ sched[t] # "cancelled"
      /\ l # "t_check" /\ t \notin stopped => sched[t] = "on"
  <2>1. pc[t] \in {"k_wait", "t_test"}
    BY <1>1
  <2>2. sched[t] # "cancelled" /\ (pc[t] = "t_test" /\ t \notin stopped => sched[t] = "on")
    BY <2>1 DEF LwInv, LwThreadInv
  <2>3. QED
    BY <1>1, <1>4, <2>1, <2>2 DEF LwMutex!Sleeping
<1>7. l = "t_over" => ~Contains(sq, t)
  BY <1>0, <1>1, LwEmptyIs
<1>8. LwLoadStep(t)
  BY <1>2, <1>5, LwTimeNoSave DEF LwLoadStep
<1>9. QED
  BY <1>0, <1>2, <1>3, <1>4, <1>5, <1>6, <1>7, <1>8, LwSleeperInv

(***************************************************************************)
(* A thread whose time is up is made to run before it looks at the list.   *)
(***************************************************************************)
LEMMA LwTimeOutCheckInv ==
  ASSUME OneFault, LwInv, NEW t \in Threads, LwMutex!TimeOutCheck(t)
  PROVE  LwInv'
<1>0. timed[t] \in BOOLEAN /\ mode[t] \in {"first", "aborted", "loop"}
      /\ sched \in [Threads -> SchedStates] /\ "on" \in SchedStates /\ "ready" \in SchedStates
      /\ LwLocals /\ "t_test" \in LwMutex!PCs
  BY LwReads DEF LwTypes, ObjTypeOK, SchedStates, LwMutex!PCs, LwMutex!Sleeping
<1>1. /\ pc[t] = "t_check" /\ LwMutex!CheckState(t, "k_wait", "t_test")
      /\ UNCHANGED <<fifo, exists, stopped, toSleep, saves, faults, guard, timed, retry, recursive,
                     lock, count, sq, signaled, mode, next, lost, held>>
  BY DEF LwMutex!TimeOutCheck, LwMutex!world, LwMutex!own
<1>2. "timeout" \in faults
  BY <1>1 DEF LwInv, LwFaultInv, LwTimeLabels
<1>3. t \notin stopped
  BY <1>2, LwTimeNoSave
<1>4. \/ sched' = [sched EXCEPT ![t] = "ready"] /\ pc' = pc
      \/ sched' = [sched EXCEPT ![t] = "on"] /\ pc' = [pc EXCEPT ![t] = "t_test"]
  BY <1>1, <1>3 DEF LwMutex!CheckState
<1>5. /\ sched' \in [Threads -> SchedStates] /\ \A u \in Threads \ {t} : sched'[u] = sched[u]
      /\ sched'[t] = "on" \/ (sched'[t] = "ready" /\ pc'[t] = "t_check")
  BY <1>0, <1>1, <1>4
<1>6. /\ pc' \in [Threads -> LwMutex!PCs] /\ \A u \in Threads \ {t} : pc'[u] = pc[u]
      /\ pc'[t] \in {"t_check", "t_test"}
  BY <1>0, <1>1, <1>4 DEF LwLocals
<1>7. LwLocals' /\ LwOthers(t)
  BY <1>0, <1>1, <1>6 DEF LwLocals, LwOthers
<1>8. /\ pc[t] \in LwMutex!Sleeping /\ pc'[t] \in LwMutex!Sleeping /\ pc'[t] # "k_wait"
      /\ pc'[t] # "a_lock" /\ pc'[t] # "t_over"
  BY <1>1, <1>6 DEF LwMutex!Sleeping
<1>9. LwLoadStep(t)
  BY <1>1, <1>2, LwTimeNoSave DEF LwLoadStep
<1>10. sched'[t] # "cancelled" /\ (pc'[t] \notin {"k_sleep", "k_wait", "t_check"} => sched'[t] = "on")
  BY <1>5
<1>11. held'[t] = held[t] /\ mode'[t] = mode[t] /\ timed'[t] = timed[t]
  BY <1>1
<1>12. QED
  BY <1>1, <1>2, <1>5, <1>7, <1>8, <1>9, <1>10, <1>11, LwSleeperInv

(***************************************************************************)
(* A thread whose time is up leaves the list, or was chosen.               *)
(***************************************************************************)
LEMMA LwUnqueueInv ==
  ASSUME OneFault, LwInv, NEW t \in Threads, LwMutex!TimeOutUnqueue(t)
  PROVE  LwInv'
<1>0. timed[t] \in BOOLEAN /\ mode[t] \in {"first", "aborted", "loop"}
      /\ (timed[t] => "timeout" \in faults) /\ sq \in Seq(Threads) /\ Distinct(sq)
      /\ sched \in [Threads -> SchedStates]
  BY LwReads DEF LwInv, LwFaultInv, LwTypes, LwListInv, ObjTypeOK
<1>1. PICK l \in LwMutex!PCs : l = IF pc[t] = "t_lock" /\ Contains(sq, t) THEN "r_err" ELSE "r_got"
  BY DEF LwMutex!PCs
<1>2. /\ pc[t] \in {"t_over", "t_lock"} /\ guard = NoThread
      /\ LwMutex!Enter(t, l, timed[t], mode[t])
      /\ sq' = IF pc[t] = "t_lock" THEN RemoveFirst(sq, t) ELSE sq
      /\ UNCHANGED <<fifo, exists, stopped, toSleep, saves, faults, guard, sched, retry, recursive,
                     lock, count, signaled, next, lost, held>>
  BY <1>1, LwSame DEF LwMutex!TimeOutUnqueue, LwMutex!world, LwMutex!Goto
<1>3. /\ pc'[t] = l /\ held'[t] = held[t] /\ LwOthers(t) /\ LwLocals'
      /\ l # "idle" => timed'[t] = timed[t]
      /\ mode'[t] = IF l = "idle" THEN "first" ELSE mode[t]
  BY <1>0, <1>2, LwGotoIs
<1>4. mode'[t] = mode[t] /\ timed'[t] = timed[t] /\ l \in {"r_err", "r_got"}
  BY <1>1, <1>3
<1>5. /\ l \notin LwSaveLabels /\ l \notin LwUnlocking /\ l \notin LwTimeLabels /\ l \notin LwTaking
      /\ pc[t] \in LwInLock /\ l \in LwMutex!Sleeping \union {"r_got", "r_err", "a_lock"}
      /\ l \notin LwMutex!Sleeping /\ pc[t] \in LwMutex!Sleeping
  BY <1>2, <1>4 DEF LwSaveLabels, LwUnlocking, LwTimeLabels, LwTaking, LwInLock, LwMutex!Sleeping
<1>6. /\ "timeout" \in faults
      /\ ~LwAwaited(t) /\ sched[t] # "cancelled" /\ (t \notin stopped => sched[t] = "on")
      /\ pc[t] = "t_over" => ~Contains(sq, t)
  <2>1. ~LwAwaited(t)
    BY <1>2, ThreadsAssumption DEF LwInv, LwGuardInv, LwAwaited
  <2>2. "timeout" \in faults
    BY <1>2 DEF LwInv, LwFaultInv, LwTimeLabels
  <2>3. sched[t] # "cancelled" /\ (t \notin stopped => sched[t] = "on")
    BY <1>2 DEF LwInv, LwThreadInv
  <2>4. pc[t] = "t_over" => ~Contains(sq, t)
    BY DEF LwInv, LwListInv, LwMutex!Sleeping
  <2>5. QED
    BY <2>1, <2>2, <2>3, <2>4
<1>7. /\ sq' \in Seq(Threads) /\ Distinct(sq')
      /\ \A u \in Threads : Contains(sq', u) <=> Contains(sq, u) /\ u # t
  <2>1. CASE pc[t] = "t_lock"
    BY <1>0, <1>2, <2>1, RemoveFirstHas
  <2>2. CASE pc[t] # "t_lock"
    <3>1. sq' = sq /\ ~Contains(sq, t)
      BY <1>2, <1>6, <2>2
    <3>2. QED
      BY <1>0, <3>1
  <2>3. QED
    BY <2>1, <2>2
<1>8. LwListStep(t) /\ (sq = <<>> => sq' = <<>>)
  <2>1. LwListStep(t)
    BY <1>3, <1>4, <1>7 DEF LwListStep
  <2>2. sq = <<>> => sq' = <<>>
    BY <1>0, <1>7, LwEmptyIs
  <2>3. QED
    BY <2>1, <2>2
<1>9. LwLocalStep(t)
  BY <1>0, <1>2, <1>3, <1>4, <1>5, <1>6 DEF LwLocalStep
<1>10. LwRight(t)' <=> LwRight(t)
  <2>1. LwRight(t)' <=> l = "r_got"
    BY <1>3, <1>4, <1>5 DEF LwRight
  <2>2. LwRight(t) <=> ~Contains(sq, t)
    BY <1>2, <1>5 DEF LwRight
  <2>3. QED
    BY <1>1, <1>2, <1>6, <2>1, <2>2
<1>11. LwRightStep(t)
  BY <1>2, <1>3, <1>5, <1>10, LwRightSame
<1>12. LwRetryStep(t)
  BY <1>6 DEF LwRetryStep
<1>13. LwLoadStep(t)
  BY <1>2, <1>6, LwTimeNoSave DEF LwLoadStep
<1>14. QED
  BY <1>2, <1>3, <1>5, <1>8, <1>9, <1>11, <1>12, <1>13, LwKernelInv


(***************************************************************************)
(* Who is served first is one of the list.                                 *)
(***************************************************************************)
LEMMA LwServedIs ==
  ASSUME LwInv, NEW u, sq # <<>>, u \in LwMutex!ServedFirst(sq)
  PROVE  u \in Threads /\ Contains(sq, u)
<1>1. sq \in Seq(Threads)
  BY DEF LwInv, LwTypes
<1>2. Len(sq) \in 1..Len(sq)
  BY <1>1
<1>3. PICK i \in 1..Len(sq) : u = sq[i]
  BY <1>2 DEF LwMutex!ServedFirst, LwMutex!Last
<1>4. QED
  BY <1>1, <1>3 DEF Contains

(***************************************************************************)
(* As many threads have a claim when one gives it to another.              *)
(***************************************************************************)
LEMMA LwHandOver ==
  ASSUME NEW T, IsFiniteSet(T), NEW A \in SUBSET T, NEW C \in SUBSET T, NEW t \in A, NEW u \in T \ A,
         C = (A \ {t}) \union {u}
  PROVE  Cardinality(C) = Cardinality(A)
<1>1. /\ A \union {u} \in SUBSET T /\ t \in T /\ u # t
  OBVIOUS
<1>2. Cardinality(A \union {u}) = Cardinality(A) + 1 /\ Cardinality(A) \in Nat
  <2>1. Ind(u \in A \union {u}) = 1 /\ Ind(u \in A) = 0
    BY DEF Ind
  <2>2. /\ Cardinality(A) \in Nat
        /\ Cardinality(A \union {u}) = Cardinality(A) + Ind(u \in A \union {u}) - Ind(u \in A)
    BY <1>1, CardOne
  <2>3. QED
    BY <2>1, <2>2
<1>3. Cardinality(C) = Cardinality(A \union {u}) - 1 /\ Cardinality(C) \in Nat
  <2>1. Ind(t \in A \union {u}) = 1 /\ Ind(t \in C) = 0
    BY DEF Ind
  <2>2. /\ Cardinality(C) \in Nat
        /\ Cardinality(C) = Cardinality(A \union {u}) + Ind(t \in C) - Ind(t \in A \union {u})
    BY <1>1, CardOne
  <2>3. QED
    BY <1>2, <2>1, <2>2
<1>4. QED
  BY <1>2, <1>3

(***************************************************************************)
(* The unlocking thread chooses a sleeper, which then has its claim.       *)
(***************************************************************************)
LEMMA LwChooseInv ==
  ASSUME LwInv, NEW t \in Threads, NEW u \in Threads, pc[t] = "k_reown", guard = NoThread,
         Contains(sq, u), pc[u] # "a_lock", sq' = RemoveFirst(sq, u), guard' = t,
         next' = [next EXCEPT ![t] = u], LwMutex!Goto(t, "k_awake"),
         UNCHANGED <<fifo, exists, stopped, toSleep, saves, faults, sched, retry, recursive,
                     lock, count, signaled, lost, held>>
  PROVE  LwInv'
<1>1. LwTypes /\ LwLocals /\ sq \in Seq(Threads) /\ Distinct(sq) /\ lock \in LwWord
  BY DEF LwInv, LwTypes, LwListInv
<1>2. /\ pc' = [pc EXCEPT ![t] = "k_awake"]
      /\ timed' = [timed EXCEPT ![t] = timed[t]]
      /\ mode' = [mode EXCEPT ![t] = mode[t]]
  <2>1. timed[t] \in BOOLEAN
    BY LwReads
  <2>2. QED
    BY <2>1 DEF LwMutex!Goto, LwMutex!Enter
<1>3. timed' = timed /\ mode' = mode
  BY <1>1, <1>2 DEF LwLocals
<1>4. /\ pc' \in [Threads -> LwMutex!PCs] /\ pc'[t] = "k_awake"
      /\ \A x \in Threads \ {t} : pc'[x] = pc[x]
  BY <1>1, <1>2 DEF LwLocals, LwMutex!PCs
<1>5. /\ next' \in [Threads -> Threads \union {NoThread}] /\ next'[t] = u
      /\ \A x \in Threads \ {t} : next'[x] = next[x]
  BY <1>1 DEF LwLocals
<1>6. /\ sq' \in Seq(Threads) /\ Distinct(sq')
      /\ \A x : Contains(sq', x) <=> Contains(sq, x) /\ x # u
  BY <1>1, RemoveFirstHas
<1>7. pc[u] \in LwMutex!Sleeping \ {"t_over"} /\ pc[t] \notin LwMutex!Sleeping /\ u # t
      /\ pc'[u] = pc[u]
  <2>1. pc[u] \in LwMutex!Sleeping \ {"t_over"}
    BY DEF LwInv, LwListInv
  <2>2. pc[t] \notin LwMutex!Sleeping
    BY DEF LwMutex!Sleeping
  <2>3. QED
    BY <1>4, <2>1, <2>2
<1>8. \A x \in Threads : pc[x] # "k_awake"
  BY ThreadsAssumption DEF LwInv, LwGuardInv
<1>9. \A x \in Threads : ~LwAwaited(x) /\ (LwAwaited(x)' <=> x = u)
  BY <1>4, <1>5, <1>8 DEF LwAwaited
<1>10. sq # <<>> /\ exists /\ ~signaled
  <2>1. sq # <<>>
    BY <1>1, LwEmptyIs
  <2>2. QED
    BY <2>1 DEF LwInv, LwExistsInv
<1>T. LwTypes'
  BY <1>1, <1>3, <1>4, <1>5, <1>6 DEF LwTypes, LwLocals, ObjTypeOK
<1>F. LwFaultInv'
  BY <1>3, <1>4 DEF LwInv, LwFaultInv, LwSaveLabels, LwTimeLabels
<1>G. LwGuardInv'
  BY <1>4, <1>8 DEF LwGuardInv
<1>L. LwListInv'
  BY <1>4, <1>6, <1>7 DEF LwInv, LwListInv
<1>W. LwOwnInv'
  BY <1>4 DEF LwInv, LwOwnInv, LwHolding
<1>X. LwExistsInv'
  BY <1>4, <1>10 DEF LwInv, LwExistsInv
<1>R. /\ \A x \in Threads : LwRight(x)' <=> (LwRight(x) /\ x # t) \/ x = u
      /\ LwRight(t) /\ ~LwRight(u)
      /\ \A x \in Threads : (LwCounted(x)' <=> LwCounted(x)) /\ (LwBeyond(x)' <=> LwBeyond(x))
  <2>1. ASSUME NEW x \in Threads, x # t
        PROVE  (LwRight(x)' <=> LwRight(x) \/ x = u) /\ (LwCounted(x)' <=> LwCounted(x))
               /\ (LwBeyond(x)' <=> LwBeyond(x))
    <3>1. pc'[x] = pc[x] /\ mode'[x] = mode[x] /\ (Contains(sq', x) <=> Contains(sq, x) /\ x # u)
      BY <1>3, <1>4, <1>6, <2>1
    <3>2. x = u => pc[x] \in LwMutex!Sleeping
      BY <1>7
    <3>3. QED
      BY <3>1, <3>2 DEF LwRight, LwCounted, LwBeyond
  <2>2. LwRight(t) /\ ~LwRight(t)' /\ ~LwCounted(t) /\ ~LwCounted(t)' /\ ~LwBeyond(t) /\ ~LwBeyond(t)'
    BY <1>4, <1>7 DEF LwRight, LwCounted, LwBeyond, LwMutex!Sleeping
  <2>3. ~LwRight(u)
    BY <1>7 DEF LwRight, LwMutex!Sleeping
  <2>4. QED
    BY <1>7, <2>1, <2>2, <2>3
<1>N. Cardinality(LwRights)' = Cardinality(LwRights) /\ LwCounteds' = LwCounteds
  <2> DEFINE A == LwRights
             C == LwRights'
  <2>1. A \in SUBSET Threads /\ C \in SUBSET Threads /\ t \in A /\ u \in Threads \ A
        /\ C = (A \ {t}) \union {u}
    BY <1>7, <1>R DEF LwRights
  <2>2. LwCounteds' = LwCounteds
    BY <1>R DEF LwCounteds
  <2> HIDE DEF A, C
  <2>3. Cardinality(C) = Cardinality(A)
    BY <2>1, LwHandOver, ThreadsAssumption
  <2>4. QED
    BY <2>2, <2>3 DEF A, C
<1>P. LwRightInv'
  BY <1>4, <1>N DEF LwInv, LwRightInv, LwTaking
<1>C. LwCountInv'
  BY <1>N, <1>R DEF LwInv, LwCountInv
<1>Y. LwRetryInv'
  BY <1>4 DEF LwRetryInv, LwTaker
<1>D. LwLoadInv'
  <2>1. ~retry => toSleep = {}
    BY DEF LwInv, LwLoadInv
  <2>2. QED
    BY <2>1 DEF LwLoadInv
<1>H. ASSUME NEW x \in Threads PROVE LwThreadInv(x)'
  <2>0. LwThreadInv(x) /\ sched'[x] = sched[x] /\ mode'[x] = mode[x]
    BY <1>3 DEF LwInv
  <2>1. CASE x = t
    <3>1. sched[t] = "on" /\ ~LwAwaited(t)'
      BY <1>7, <1>9, <2>0, <2>1 DEF LwThreadInv, LwUnlocking
    <3>2. QED
      BY <1>4, <1>5, <2>0, <2>1, <3>1 DEF LwThreadInv
  <2>2. CASE x = u
    <3>1. pc'[u] = pc[u] /\ ~Contains(sq', u)
      BY <1>6, <1>7
    <3>2. QED
      BY <1>7, <1>9, <2>0, <2>2, <3>1 DEF LwThreadInv
  <2>3. CASE x # t /\ x # u
    <3>1. pc'[x] = pc[x] /\ next'[x] = next[x] /\ (Contains(sq', x) <=> Contains(sq, x))
          /\ ~LwAwaited(x) /\ ~LwAwaited(x)'
      BY <1>4, <1>5, <1>6, <1>9, <2>3
    <3>2. QED
      BY <2>0, <3>1 DEF LwThreadInv
  <2>4. QED
    BY <2>1, <2>2, <2>3
<1> QED
  BY <1>T, <1>F, <1>G, <1>L, <1>W, <1>X, <1>P, <1>C, <1>Y, <1>H, <1>D DEF LwInv

(***************************************************************************)
(* The unlocking thread looks at the list under the internal mutex.        *)
(***************************************************************************)
LEMMA LwKReownInv ==
  ASSUME LwInv, NEW t \in Threads, LwMutex!KReown(t)
  PROVE  LwInv'
<1>1. /\ pc[t] = "k_reown" /\ guard = NoThread
      /\ UNCHANGED <<fifo, exists, stopped, toSleep, saves, faults, sched, retry, recursive,
                     lock, count, lost, held>>
  BY DEF LwMutex!KReown, LwMutex!world
<1>2. CASE /\ sq = <<>> /\ signaled' = TRUE /\ LwMutex!Goto(t, "idle")
           /\ UNCHANGED <<guard, sq, next>>
  BY <1>1, <1>2, LwSignalInv
<1>3. ASSUME NEW u \in LwMutex!ServedFirst(sq), sq # <<>>,
             IF LwMutex!Again(u) THEN LwMutex!Goto(t, "a_unlock") /\ UNCHANGED <<guard, sq, next, signaled>>
             ELSE /\ sq' = LwMutex!Without(sq, u)
                  /\ guard' = t
                  /\ next' = [next EXCEPT ![t] = u]
                  /\ LwMutex!Goto(t, "k_awake")
                  /\ UNCHANGED signaled
      PROVE  LwInv'
  <2>1. u \in Threads /\ Contains(sq, u)
    BY <1>3, LwServedIs
  <2>2. CASE pc[u] = "a_lock"
    <3>1. PICK l \in LwMutex!PCs : l = "a_unlock"
      BY DEF LwMutex!PCs
    <3>2. LwMutex!Goto(t, l) /\ l \in {"k_reown", "a_unlock", "idle"} /\ l # "idle"
          /\ UNCHANGED <<guard, sq, next, signaled>>
      BY <1>3, <2>2, <3>1 DEF LwMutex!Again
    <3>3. "save" \in faults
      BY <2>1, <2>2 DEF LwInv, LwFaultInv, LwSaveLabels
    <3>4. QED
      BY <1>1, <3>1, <3>2, <3>3, LwUnlockingInv
  <2>3. CASE pc[u] # "a_lock"
    <3>1. /\ sq' = RemoveFirst(sq, u) /\ guard' = t /\ next' = [next EXCEPT ![t] = u]
          /\ LwMutex!Goto(t, "k_awake") /\ signaled' = signaled
      BY <1>3, <2>3, LwSame DEF LwMutex!Again
    <3>2. QED
      BY <1>1, <2>1, <2>3, <3>1, LwChooseInv
  <2>4. QED
    BY <2>2, <2>3
<1>4. QED
  BY <1>2, <1>3 DEF LwMutex!KReown


(***************************************************************************)
(* The chosen sleeper is awakened, or its sleep cancelled.                 *)
(***************************************************************************)
LEMMA LwKAwakeInv ==
  ASSUME LwInv, NEW t \in Threads, LwMutex!KAwake(t)
  PROVE  LwInv'
<1>0. LwTypes /\ LwLocals /\ lock \in LwWord /\ sq \in Seq(Threads)
      /\ timed[t] \in BOOLEAN /\ mode[t] \in {"first", "aborted", "loop"}
      /\ sched \in [Threads -> SchedStates]
  BY LwReads DEF LwTypes, ObjTypeOK
<1>1. PICK l \in LwMutex!PCs : l = "idle"
  BY DEF LwMutex!PCs
<1>2. /\ pc[t] = "k_awake" /\ guard' = NoThread /\ next' = [next EXCEPT ![t] = NoThread]
      /\ LwMutex!Enter(t, l, timed[t], mode[t])
      /\ UNCHANGED <<fifo, exists, stopped, toSleep, saves, faults, retry, recursive, lock, count,
                     sq, signaled, lost, held>>
  BY <1>1 DEF LwMutex!KAwake, LwMutex!world, LwMutex!Goto
<1>3. PICK v \in Threads : v = next[t]
  BY <1>2 DEF LwInv, LwThreadInv
<1>4. sched' = [sched EXCEPT ![v] = IF sched[v] = "asleep" THEN "ready"
                                    ELSE IF sched[v] = "on" /\ pc[v] = "k_sleep" THEN "cancelled"
                                    ELSE sched[v]]
  BY <1>3 DEF LwMutex!KAwake
<1>5. /\ pc' = [pc EXCEPT ![t] = l]
      /\ timed' = [timed EXCEPT ![t] = l # "idle" /\ timed[t]]
      /\ mode' = [mode EXCEPT ![t] = IF l = "idle" THEN "first" ELSE mode[t]]
  BY <1>2 DEF LwMutex!Enter
<1>6. /\ pc' \in [Threads -> LwMutex!PCs] /\ pc'[t] = "idle" /\ \A x \in Threads \ {t} : pc'[x] = pc[x]
  BY <1>0, <1>1, <1>5 DEF LwLocals
<1>7. /\ mode' \in [Threads -> {"first", "aborted", "loop"}] /\ mode'[t] = "first"
      /\ \A x \in Threads \ {t} : mode'[x] = mode[x]
  BY <1>0, <1>1, <1>5 DEF LwLocals
<1>8. timed' \in [Threads -> BOOLEAN] /\ ~timed'[t] /\ \A x \in Threads \ {t} : timed'[x] = timed[x]
  <2>1. timed' = [timed EXCEPT ![t] = FALSE]
    BY <1>1, <1>5
  <2>2. QED
    BY <1>0, <2>1 DEF LwLocals
<1>9. /\ next' \in [Threads -> Threads \union {NoThread}] /\ next'[t] = NoThread
      /\ \A x \in Threads \ {t} : next'[x] = next[x]
  BY <1>0, <1>2 DEF LwLocals
<1>10. /\ sched' \in [Threads -> SchedStates] /\ \A x \in Threads \ {v} : sched'[x] = sched[x]
       /\ sched'[v] = IF sched[v] = "asleep" THEN "ready"
                      ELSE IF sched[v] = "on" /\ pc[v] = "k_sleep" THEN "cancelled" ELSE sched[v]
  BY <1>0, <1>4 DEF SchedStates
<1>11. /\ pc[v] \in LwMutex!Sleeping /\ ~Contains(sq, v) /\ v # t /\ LwAwaited(v)
       /\ pc[t] \notin LwMutex!Sleeping
  <2>1. LwAwaited(v)
    BY <1>2, <1>3 DEF LwAwaited
  <2>2. pc[v] \in LwMutex!Sleeping /\ ~Contains(sq, v)
    BY <2>1 DEF LwInv, LwThreadInv
  <2>3. pc[t] \notin LwMutex!Sleeping
    BY <1>2 DEF LwMutex!Sleeping
  <2>4. QED
    BY <2>1, <2>2, <2>3
<1>12. \A x \in Threads \ {t} : pc[x] # "k_awake"
  BY <1>2 DEF LwInv, LwGuardInv
<1>13. \A x \in Threads : ~LwAwaited(x)'
  BY <1>6, <1>12 DEF LwAwaited
<1>T. LwTypes'
  BY <1>0, <1>2, <1>6, <1>7, <1>8, <1>9, <1>10, ThreadsAssumption DEF LwTypes, LwLocals, ObjTypeOK
<1>F. LwFaultInv'
  BY <1>2, <1>6, <1>7, <1>8 DEF LwInv, LwFaultInv, LwSaveLabels, LwTimeLabels
<1>G. LwGuardInv'
  BY <1>2, <1>6, <1>12, ThreadsAssumption DEF LwGuardInv
<1>L. LwListInv'
  BY <1>2, <1>6, <1>11 DEF LwInv, LwListInv
<1>W. LwOwnInv'
  BY <1>2, <1>6 DEF LwInv, LwOwnInv, LwHolding
<1>X. LwExistsInv'
  BY <1>2, <1>6 DEF LwInv, LwExistsInv
<1>R. \A x \in Threads : /\ LwRight(x)' <=> LwRight(x)
                         /\ LwCounted(x)' <=> LwCounted(x)
                         /\ LwBeyond(x)' <=> LwBeyond(x)
  <2>1. ASSUME NEW x \in Threads, x # t
        PROVE  (LwRight(x)' <=> LwRight(x)) /\ (LwCounted(x)' <=> LwCounted(x))
               /\ (LwBeyond(x)' <=> LwBeyond(x))
    BY <1>2, <1>6, <1>7, <2>1 DEF LwRight, LwCounted, LwBeyond
  <2>2. ~LwRight(t) /\ ~LwRight(t)' /\ ~LwCounted(t) /\ ~LwCounted(t)' /\ ~LwBeyond(t) /\ ~LwBeyond(t)'
    BY <1>2, <1>6 DEF LwRight, LwCounted, LwBeyond, LwMutex!Sleeping
  <2>3. QED
    BY <2>1, <2>2
<1>N. LwRights' = LwRights /\ LwCounteds' = LwCounteds
  BY <1>R DEF LwRights, LwCounteds
<1>P. LwRightInv'
  BY <1>2, <1>6, <1>N DEF LwInv, LwRightInv, LwTaking
<1>C. LwCountInv'
  BY <1>2, <1>N, <1>R DEF LwInv, LwCountInv
<1>Y. LwRetryInv'
  <2>1. LwTaker(v)'
    BY <1>2, <1>6, <1>11 DEF LwTaker
  <2>2. QED
    BY <2>1 DEF LwRetryInv
<1>D. LwLoadInv'
  <2>1. ~retry => toSleep = {}
    BY <1>2 DEF LwInv, LwLoadInv
  <2>2. QED
    BY <1>2, <2>1 DEF LwLoadInv
<1>H. ASSUME NEW x \in Threads PROVE LwThreadInv(x)'
  <2>0. LwThreadInv(x)
    BY DEF LwInv
  <2>1. CASE x = t
    <3>1. sched[t] = "on" /\ sched'[t] = "on"
      BY <1>2, <1>10, <1>11, <2>0, <2>1 DEF LwThreadInv, LwUnlocking
    <3>2. ~Contains(sq, t)
      BY <1>2, <1>11 DEF LwInv, LwListInv
    <3>3. QED
      BY <1>2, <1>6, <1>7, <1>13, <2>1, <3>1, <3>2 DEF LwThreadInv, LwUnlocking
  <2>2. CASE x = v
    <3>1. pc'[v] = pc[v] /\ mode'[v] = mode[v] /\ pc[v] \notin LwUnlocking
          /\ pc[v] \notin {"idle", "a_lock", "l_redo", "k_awake"}
      BY <1>6, <1>7, <1>11 DEF LwUnlocking, LwMutex!Sleeping
    <3>2. /\ pc[v] \notin {"k_sleep", "k_wait", "t_check"} /\ v \notin stopped => sched'[v] = "on"
          /\ sched'[v] = "cancelled" => pc[v] = "k_sleep"
      BY <1>10, <2>0, <2>2 DEF LwThreadInv
    <3>3. mode[v] = "aborted" => saves > 0
      BY <2>0, <2>2 DEF LwThreadInv
    <3>4. QED
      BY <1>2, <1>11, <1>13, <2>2, <3>1, <3>2, <3>3 DEF LwThreadInv
  <2>3. CASE x # t /\ x # v
    <3>1. pc'[x] = pc[x] /\ next'[x] = next[x] /\ mode'[x] = mode[x] /\ sched'[x] = sched[x]
          /\ ~LwAwaited(x)'
      BY <1>6, <1>7, <1>9, <1>10, <1>13, <2>3
    <3>2. QED
      BY <1>2, <2>0, <3>1 DEF LwThreadInv
  <2>4. QED
    BY <2>1, <2>2, <2>3
<1> QED
  BY <1>T, <1>F, <1>G, <1>L, <1>W, <1>X, <1>P, <1>C, <1>Y, <1>H, <1>D DEF LwInv

(***************************************************************************)
(* The identifier is removed, unless somebody sleeps.                      *)
(***************************************************************************)
LEMMA LwDestroyInv ==
  ASSUME LwInv, NEW t \in Threads, LwMutex!DestroyKernel(t)
  PROVE  LwInv'
<1>0. LwTypes /\ LwLocals /\ timed[t] \in BOOLEAN /\ mode[t] \in {"first", "aborted", "loop"}
      /\ lock.owner \in Threads \union {Free, Reserved, Dead}
  BY LwReads DEF LwTypes
<1>1. PICK l \in LwMutex!PCs : l = IF sq = <<>> THEN "d_dead" ELSE "d_unlock"
  BY DEF LwMutex!PCs
<1>2. /\ pc[t] = "d_kernel" /\ exists' = (sq # <<>>)
      /\ LwMutex!Enter(t, l, timed[t], mode[t])
      /\ UNCHANGED <<fifo, stopped, toSleep, saves, faults, guard, sched, retry, recursive, lock,
                     count, sq, signaled, next, lost, held>>
  BY <1>1 DEF LwMutex!DestroyKernel, LwMutex!Goto
<1>3. /\ pc'[t] = l /\ held'[t] = held[t] /\ LwOthers(t) /\ LwLocals'
      /\ l # "idle" => timed'[t] = timed[t]
      /\ mode'[t] = IF l = "idle" THEN "first" ELSE mode[t]
  BY <1>0, <1>2, LwGotoIs
<1>4. mode'[t] = mode[t] /\ timed'[t] = timed[t] /\ l \in {"d_dead", "d_unlock"}
  BY <1>1, <1>3
<1>5. /\ \A x \in Threads \ {t} : pc'[x] = pc[x]
      /\ \A x \in Threads : timed'[x] = timed[x] /\ mode'[x] = mode[x] /\ next'[x] = next[x]
  BY <1>2, <1>3, <1>4 DEF LwOthers
<1>6. /\ pc[t] \in LwHolding /\ l \in LwHolding /\ pc[t] \in LwUnlocking
      /\ pc[t] \notin LwMutex!Sleeping /\ l \notin LwMutex!Sleeping
      /\ l \notin LwSaveLabels /\ l \notin LwTimeLabels /\ l \notin LwTaking
      /\ l \notin {"idle", "a_lock", "k_awake", "k_lock", "l_redo"}
  BY <1>2, <1>4 DEF LwHolding, LwUnlocking, LwMutex!Sleeping, LwSaveLabels, LwTimeLabels, LwTaking
<1>7. /\ lock.owner = t /\ held[t] = 0 /\ count = 0
      /\ \A x \in Threads \ {t} : pc[x] \notin LwHolding
  BY <1>2, <1>6 DEF LwInv, LwOwnInv
<1>8. t # Free /\ t # Dead /\ t # Reserved
  BY WordsAssumption
<1>T. LwTypes'
  BY <1>0, <1>2, <1>3 DEF LwTypes, ObjTypeOK, LwLocals
<1>F. LwFaultInv'
  BY <1>2, <1>3, <1>5, <1>6 DEF LwInv, LwFaultInv
<1>G. LwGuardInv'
  BY <1>2, <1>3, <1>5, <1>6 DEF LwInv, LwGuardInv
<1>L. LwListInv'
  BY <1>2, <1>3, <1>5, <1>6 DEF LwInv, LwListInv
<1>W. LwOwnInv'
  BY <1>2, <1>3, <1>5, <1>6, <1>7 DEF LwInv, LwOwnInv
<1>X. LwExistsInv'
  <2>1. ~exists' => sq' = <<>> /\ lock'.owner = t /\ pc'[t] = "d_dead"
    BY <1>1, <1>2, <1>3, <1>7
  <2>2. \A x \in Threads : pc'[x] = "d_dead" => ~exists'
    BY Zenon, <1>1, <1>2, <1>3, <1>5, <1>7 DEF LwHolding
  <2>3. lock'.owner # Dead /\ (signaled' => sq' = <<>>)
    BY <1>2, <1>7, <1>8 DEF LwInv, LwExistsInv
  <2>4. QED
    BY <2>1, <2>2, <2>3 DEF LwExistsInv
<1>R. \A x \in Threads : /\ LwRight(x)' <=> LwRight(x)
                         /\ LwCounted(x)' <=> LwCounted(x)
                         /\ LwBeyond(x)' <=> LwBeyond(x)
  <2>1. ASSUME NEW x \in Threads, x # t
        PROVE  (LwRight(x)' <=> LwRight(x)) /\ (LwCounted(x)' <=> LwCounted(x))
               /\ (LwBeyond(x)' <=> LwBeyond(x))
    BY <1>2, <1>5, <2>1 DEF LwRight, LwCounted, LwBeyond
  <2>2. ~LwRight(t) /\ ~LwRight(t)' /\ ~LwCounted(t) /\ ~LwCounted(t)' /\ ~LwBeyond(t) /\ ~LwBeyond(t)'
    BY <1>2, <1>3, <1>4, <1>6 DEF LwRight, LwCounted, LwBeyond
  <2>3. QED
    BY <2>1, <2>2
<1>N. LwRights' = LwRights /\ LwCounteds' = LwCounteds
  BY <1>R DEF LwRights, LwCounteds
<1>P. LwRightInv'
  BY <1>2, <1>3, <1>5, <1>6, <1>N DEF LwInv, LwRightInv
<1>C. LwCountInv'
  BY <1>2, <1>N, <1>R DEF LwInv, LwCountInv
<1>Y. LwRetryInv'
  BY <1>2, <1>7, <1>8 DEF LwRetryInv
<1>D. LwLoadInv'
  <2>1. ~retry => toSleep = {}
    BY <1>2 DEF LwInv, LwLoadInv
  <2>2. QED
    BY <1>2, <2>1 DEF LwLoadInv
<1>A. \A x \in Threads : LwAwaited(x)' <=> LwAwaited(x)
  BY <1>2, <1>3, <1>5, <1>6 DEF LwAwaited
<1>H. ASSUME NEW x \in Threads PROVE LwThreadInv(x)'
  <2>0. LwThreadInv(x) /\ (LwAwaited(x)' <=> LwAwaited(x)) /\ mode'[x] = mode[x] /\ next'[x] = next[x]
    BY <1>5, <1>A DEF LwInv
  <2>1. CASE x = t
    <3>1. sched[t] = "on" /\ ~LwAwaited(t)
      BY <1>6, <2>0, <2>1 DEF LwThreadInv
    <3>2. mode[t] = "aborted" => saves > 0
      BY <2>0, <2>1 DEF LwThreadInv
    <3>3. QED
      BY <1>2, <1>3, <1>4, <2>0, <2>1, <3>1, <3>2 DEF LwThreadInv
  <2>2. CASE x # t
    <3>1. pc'[x] = pc[x]
      BY <1>5, <2>2
    <3>2. QED
      BY <1>2, <2>0, <3>1 DEF LwThreadInv
  <2>3. QED
    BY <2>1, <2>2
<1> QED
  BY <1>T, <1>F, <1>G, <1>L, <1>W, <1>X, <1>P, <1>C, <1>Y, <1>H, <1>D DEF LwInv

(***************************************************************************)
(* The scheduler, and the wish for a savestate.                            *)
(***************************************************************************)
LEMMA LwScheduleInv ==
  ASSUME LwInv, NEW t \in Threads, LwMutex!Schedule(t) \/ LwMutex!StopThread(t)
  PROVE  LwInv'
<1>0. UNCHANGED <<fifo, exists, guard, pc, timed, toSleep, saves, faults, retry, recursive, lock,
                  count, sq, signaled, mode, next, lost, held>>
  BY DEF LwMutex!Schedule, LwMutex!StopThread, LwMutex!ObjSchedule, LwMutex!ObjStop, LwMutex!own,
         LwMutex!world
<1>1. LwTypes /\ sched \in [Threads -> SchedStates] /\ stopped \subseteq Threads
  BY DEF LwInv, LwTypes, ObjTypeOK
<1>2. \/ sched[t] = "ready" /\ sched' = [sched EXCEPT ![t] = "signal"] /\ stopped' = stopped
      \/ /\ "save" \in faults /\ saves < MaxSaves /\ stopped' = stopped \union {t}
         /\ sched' = sched
  BY DEF LwMutex!Schedule, LwMutex!StopThread, LwMutex!ObjSchedule, LwMutex!ObjStop, LwMutex!world
<1>3. sched' \in [Threads -> SchedStates] /\ stopped' \subseteq Threads /\ stopped \subseteq stopped'
      /\ (stopped' # {} => stopped # {} \/ ("save" \in faults /\ saves < MaxSaves))
  BY <1>1, <1>2 DEF SchedStates
<1>T. LwTypes'
  BY <1>0, <1>1, <1>3 DEF LwTypes, LwLocals, ObjTypeOK
<1>F. LwFaultInv'
  BY <1>0, <1>3 DEF LwInv, LwFaultInv
<1>G. LwGuardInv' /\ LwListInv' /\ LwOwnInv' /\ LwExistsInv' /\ LwLoadInv'
  BY <1>0 DEF LwInv, LwGuardInv, LwListInv, Distinct, Contains, LwOwnInv, LwExistsInv, LwLoadInv
<1>R. \A x \in Threads : /\ LwRight(x)' <=> LwRight(x)
                         /\ LwCounted(x)' <=> LwCounted(x)
                         /\ LwBeyond(x)' <=> LwBeyond(x)
                         /\ LwTaker(x)' <=> LwTaker(x)
                         /\ LwAwaited(x)' <=> LwAwaited(x)
  BY <1>0 DEF LwRight, LwCounted, LwBeyond, LwTaker, LwAwaited
<1>N. LwRights' = LwRights /\ LwCounteds' = LwCounteds
  BY <1>R DEF LwRights, LwCounteds
<1>P. LwRightInv' /\ LwCountInv' /\ LwRetryInv'
  BY <1>0, <1>N, <1>R DEF LwInv, LwRightInv, LwCountInv, LwRetryInv
<1>H. ASSUME NEW x \in Threads PROVE LwThreadInv(x)'
  <2>0. LwThreadInv(x) /\ (LwAwaited(x)' <=> LwAwaited(x))
    BY <1>R DEF LwInv
  <2>1. sched'[x] = sched[x] \/ (sched[x] = "ready" /\ sched'[x] = "signal")
    BY <1>1, <1>2
  <2>2. x \notin stopped' => x \notin stopped
    BY <1>3
  <2>3. QED
    BY <1>0, <2>0, <2>1, <2>2 DEF LwThreadInv
<1> QED
  BY <1>T, <1>F, <1>G, <1>P, <1>H DEF LwInv


(***************************************************************************)
(* A savestate: the word, the signal and the counts survive, the list does *)
(* not, and its threads are on their way back.                             *)
(***************************************************************************)
LEMMA LwSaveInv ==
  ASSUME LwInv, LwMutex!SaveAndLoad
  PROVE  LwInv'
<1>0. LwTypes /\ LwLocals /\ ObjTypeOK(LwMutex!PCs) /\ saves \in 0..MaxSaves /\ MaxSaves \in Nat
  BY SavesAssumption DEF LwInv, LwTypes, ObjTypeOK
<1>1. /\ stopped = Threads /\ saves' = saves + 1 /\ stopped' = {} /\ sq' = <<>>
      /\ toSleep' = {t \in Threads : pc[t] # "idle" /\ sched[t] = "asleep"}
      /\ sched' = [t \in Threads |-> "on"]
      /\ mode' = [t \in Threads |-> IF pc[t] = "a_lock" THEN "aborted" ELSE "first"]
      /\ UNCHANGED <<fifo, exists, guard, timed, faults, retry, recursive, lock, count, signaled,
                     next, lost, held>>
  BY DEF LwMutex!SaveAndLoad, LwMutex!ObjSaveAndLoad, LwMutex!Again
<1>2. /\ DOMAIN LwMutex!Redo = {"a_lock", "a_unlock"}
      /\ LwMutex!Redo["a_lock"] = "l_redo" /\ LwMutex!Redo["a_unlock"] = "u_redo"
  BY DEF LwMutex!Redo
<1>3. \A t \in Threads : pc[t] \in {"idle", "a_lock", "a_unlock"}
  BY <1>2 DEF LwMutex!SaveAndLoad, LwMutex!ObjSaveAndLoad
<1>4. pc' = [t \in Threads |-> IF pc[t] = "idle" THEN "idle" ELSE LwMutex!Redo[pc[t]]]
  BY DEF LwMutex!SaveAndLoad, LwMutex!ObjSaveAndLoad
<1>5. \A t \in Threads : pc'[t] = IF pc[t] = "idle" THEN "idle"
                                  ELSE IF pc[t] = "a_lock" THEN "l_redo" ELSE "u_redo"
  BY <1>2, <1>3, <1>4
<1>6. "save" \in faults /\ saves < MaxSaves
  BY <1>1, MainThreadAssumption DEF LwInv, LwFaultInv
<1>7. \A t \in Threads : /\ pc[t] = "a_lock" => sched[t] = "asleep" /\ Contains(sq, t)
                         /\ pc[t] = "a_unlock" => sched[t] = "on"
  BY DEF LwInv, LwThreadInv, LwUnlocking, LwListInv
<1>8. \A t \in Threads : t \in toSleep' <=> pc[t] = "a_lock"
  BY <1>1, <1>3, <1>7
<1>9. \A t \in Threads : mode'[t] = (IF pc[t] = "a_lock" THEN "aborted" ELSE "first") /\ sched'[t] = "on"
  BY <1>1
<1>10. \A t \in Threads : ~Contains(sq', t) /\ ~LwAwaited(t)'
  BY <1>1, <1>3, <1>5 DEF Contains, LwAwaited
<1>11. \A t \in Threads : pc[t] \notin LwHolding /\ pc'[t] \notin LwHolding /\ pc[t] # "d_dead"
                          /\ pc'[t] \notin {"d_dead", "k_awake", "k_lock"} /\ pc[t] # "k_awake"
  BY <1>3, <1>5 DEF LwHolding
<1>T. LwTypes'
  <2>1. pc' \in [Threads -> LwMutex!PCs]
    BY <1>4, <1>5 DEF LwMutex!PCs
  <2>2. mode' \in [Threads -> {"first", "aborted", "loop"}] /\ sched' \in [Threads -> SchedStates]
    BY <1>1 DEF SchedStates
  <2>3. stopped' \subseteq Threads /\ toSleep' \subseteq Threads /\ saves' \in 0..MaxSaves
        /\ sq' \in Seq(Threads)
    BY <1>0, <1>1, <1>6
  <2>4. QED
    BY <1>0, <1>1, <2>1, <2>2, <2>3 DEF LwTypes, LwLocals, ObjTypeOK
<1>F. LwFaultInv'
  BY <1>1, <1>3, <1>5, <1>6 DEF LwInv, LwFaultInv, LwTimeLabels
<1>G. LwGuardInv'
  BY <1>1, <1>11 DEF LwInv, LwGuardInv
<1>L. LwListInv'
  <2>1. Distinct(sq')
    BY <1>1 DEF Distinct
  <2>2. QED
    BY <1>3, <1>5, <1>10, <2>1 DEF LwListInv
<1>W. LwOwnInv'
  BY <1>1, <1>5, <1>11 DEF LwInv, LwOwnInv
<1>X. LwExistsInv'
  BY <1>1, <1>11 DEF LwInv, LwExistsInv
<1>R. \A t \in Threads : /\ LwRight(t)' <=> LwRight(t)
                         /\ LwCounted(t)' <=> LwCounted(t)
                         /\ LwBeyond(t)' <=> LwBeyond(t)
  BY <1>3, <1>5 DEF LwRight, LwCounted, LwBeyond, LwMutex!Sleeping
<1>N. LwRights' = LwRights /\ LwCounteds' = LwCounteds
  BY <1>R DEF LwRights, LwCounteds
<1>P. LwRightInv'
  BY <1>1, <1>3, <1>5, <1>N DEF LwInv, LwRightInv, LwTaking
<1>S. saves' > 0
  BY <1>0, <1>1
<1>C. LwCountInv'
  BY <1>1, <1>N, <1>R, <1>S DEF LwInv, LwCountInv
<1>Y. LwRetryInv'
  BY <1>1, <1>11 DEF LwRetryInv
<1>D. LwLoadInv'
  <2>1. SUFFICES ASSUME ~retry, toSleep' # {} PROVE LwLoadInv'
    BY <1>1 DEF LwLoadInv
  <2>2. PICK u \in Threads : pc[u] = "a_lock"
    BY <1>1, <1>8, <2>1
  <2>3. sq # <<>>
    BY <1>7, <2>2 DEF Contains
  <2>4. exists /\ ~signaled
    BY <2>3 DEF LwInv, LwExistsInv
  <2>5. QED
    BY <1>1, <1>3, <1>5, <1>8, <1>9, <2>4 DEF LwLoadInv
<1>H. ASSUME NEW t \in Threads PROVE LwThreadInv(t)'
  BY <1>3, <1>5, <1>8, <1>9, <1>10, <1>S DEF LwThreadInv
<1> QED
  BY <1>T, <1>F, <1>G, <1>L, <1>W, <1>X, <1>P, <1>C, <1>Y, <1>H, <1>D DEF LwInv

(***************************************************************************)
(* The light-weight mutex at first.                                        *)
(***************************************************************************)
LEMMA LwInitInv ==
  ASSUME LwMutex!Init
  PROVE  LwInv
<1>1. /\ fifo \in BOOLEAN /\ exists = TRUE /\ guard = NoThread
      /\ pc = [t \in Threads |-> "idle"] /\ timed = [t \in Threads |-> FALSE]
      /\ sched = [t \in Threads |-> "on"] /\ stopped = {} /\ toSleep = {} /\ saves = 0
      /\ faults \in Faults /\ retry \in BOOLEAN /\ recursive \in BOOLEAN
      /\ lock = [owner |-> Free, waiter |-> 0] /\ count = 0 /\ sq = <<>> /\ signaled = FALSE
      /\ mode = [t \in Threads |-> "first"] /\ next = [t \in Threads |-> NoThread]
      /\ lost = FALSE /\ held = [t \in Threads |-> 0]
  BY DEF LwMutex!Init, LwMutex!ObjInit
<1>2. \A t \in Threads : /\ pc[t] = "idle" /\ ~timed[t] /\ sched[t] = "on" /\ mode[t] = "first"
                         /\ next[t] = NoThread /\ held[t] = 0 /\ ~Contains(sq, t)
  BY <1>1 DEF Contains
<1>3. lock.owner = Free /\ lock.waiter = 0 /\ lock \in LwWord
      /\ Free \notin Threads /\ Free # Dead /\ Free # Reserved
  BY <1>1, WordsAssumption DEF LwWord
<1>4. \A t \in Threads : ~LwRight(t) /\ ~LwCounted(t) /\ ~LwBeyond(t) /\ ~LwAwaited(t)
  BY <1>2 DEF LwRight, LwCounted, LwBeyond, LwAwaited, LwMutex!Sleeping
<1>5. Cardinality(LwRights) = 0 /\ Cardinality(LwCounteds) = 0
  <2>1. LwRights = {} /\ LwCounteds = {}
    BY <1>4 DEF LwRights, LwCounteds
  <2>2. QED
    BY <2>1, FS_EmptySet
<1>T. LwTypes
  <2>1. "idle" \in LwMutex!PCs /\ "on" \in SchedStates /\ 0 \in 0..MaxLocks + 1 /\ 0 \in 0..MaxLocks
        /\ 0 \in 0..MaxSaves
    BY LocksAssumption, SavesAssumption DEF SchedStates, LwMutex!PCs
  <2>2. pc \in [Threads -> LwMutex!PCs] /\ timed \in [Threads -> BOOLEAN]
        /\ sched \in [Threads -> SchedStates]
    BY <1>1, <2>1
  <2>3. mode \in [Threads -> {"first", "aborted", "loop"}]
        /\ next \in [Threads -> Threads \union {NoThread}] /\ held \in [Threads -> 0..MaxLocks + 1]
    BY <1>1, <2>1
  <2>4. ObjTypeOK(LwMutex!PCs)
    BY <1>1, <2>1, <2>2 DEF ObjTypeOK
  <2>5. sq \in Seq(Threads) /\ count \in 0..MaxLocks /\ signaled \in BOOLEAN /\ lost \in BOOLEAN
    <3>1. sq \in Seq(Threads)
      BY <1>1
    <3>2. signaled \in BOOLEAN /\ lost \in BOOLEAN
      BY <1>1
    <3>3. count \in 0..MaxLocks
      BY <1>1, <2>1
    <3>4. QED
      BY <3>1, <3>2, <3>3
  <2>6. QED
    BY <1>1, <1>3, <2>2, <2>3, <2>4, <2>5 DEF LwTypes, LwLocals
<1>F. LwFaultInv
  BY <1>1, <1>2 DEF LwFaultInv, LwSaveLabels, LwTimeLabels
<1>G. LwGuardInv /\ LwListInv
  BY <1>1, <1>2, ThreadsAssumption DEF LwGuardInv, LwListInv, Distinct
<1>W. LwOwnInv /\ LwExistsInv
  BY <1>1, <1>2, <1>3 DEF LwOwnInv, LwExistsInv, LwHolding
<1>P. LwRightInv
  BY <1>1, <1>2, <1>3, <1>5 DEF LwRightInv, Ind, LwTaking
<1>C. LwCountInv /\ LwRetryInv /\ LwLoadInv
  BY <1>1, <1>2, <1>3, <1>4, <1>5 DEF LwCountInv, LwRetryInv, LwLoadInv
<1>H. ASSUME NEW t \in Threads PROVE LwThreadInv(t)
  BY <1>1, <1>2, <1>4 DEF LwThreadInv, LwUnlocking
<1> QED
  BY <1>T, <1>F, <1>G, <1>W, <1>P, <1>C, <1>H DEF LwInv

(***************************************************************************)
(* The beginnings of calls.                                                *)
(***************************************************************************)
LEMMA LwCallInv ==
  ASSUME LwInv, NEW t \in Threads, LwMutex!Call(t) \/ LwMutex!LockRedo(t)
  PROVE  LwInv'
<1>0. /\ "idle" \in LwMutex!PCs /\ "l_redo" \in LwMutex!PCs /\ "l_spin" \in LwMutex!PCs
      /\ "y_kernel" \in LwMutex!PCs /\ "d_kernel" \in LwMutex!PCs /\ "d_try" \in LwMutex!PCs
  BY DEF LwMutex!PCs
<1>1. ASSUME NEW to \in LwMutex!Timeouts, LwMutex!Lock(t, to) PROVE LwInv'
  <2>1. to \in BOOLEAN /\ (to => "timeout" \in faults)
    BY <1>1 DEF LwMutex!Timeouts
  <2>2. LwMutex!Acquire(t, "idle", "idle", "l_spin", "l_spin", to)
    BY <1>1 DEF LwMutex!Lock
  <2>3. QED
    BY <1>0, <2>1, <2>2, LwAcquireInv
<1>2. CASE LwMutex!LockRedo(t)
  <2>1. timed[t] \in BOOLEAN /\ (timed[t] => "timeout" \in faults)
    BY LwReads DEF LwInv, LwFaultInv
  <2>2. LwMutex!Acquire(t, "l_redo", "idle", "l_spin", "l_spin", timed[t])
    BY <1>2 DEF LwMutex!LockRedo
  <2>3. QED
    BY <1>0, <2>1, <2>2, LwAcquireInv
<1>3. CASE LwMutex!TryLock(t)
  BY <1>0, <1>3, LwAcquireInv DEF LwMutex!TryLock
<1>4. CASE LwMutex!Destroy(t)
  BY <1>0, <1>4, LwAcquireInv DEF LwMutex!Destroy
<1>5. CASE LwMutex!Unlock(t, "idle")
  BY <1>5, LwUnlockInv
<1>6. QED
  BY <1>1, <1>2, <1>3, <1>4, <1>5 DEF LwMutex!Call

(***************************************************************************)
(* Every step of the light-weight mutex keeps its invariant.               *)
(***************************************************************************)
LEMMA LwNextInv ==
  ASSUME OneFault, LwInv, LwMutex!Next
  PROVE  LwInv'
<1>1. CASE LwMutex!SaveAndLoad
  BY <1>1, LwSaveInv
<1>2. ASSUME NEW t \in Threads,
             LwMutex!Call(t) \/ LwMutex!Step(t) \/ LwMutex!Schedule(t) \/ LwMutex!StopThread(t)
      PROVE  LwInv'
  <2>1. CASE LwMutex!Call(t) \/ LwMutex!LockRedo(t)
    BY <2>1, LwCallInv
  <2>2. CASE LwMutex!LockSpin(t) \/ LwMutex!LockCount(t) \/ LwMutex!LockTry(t)
    BY <2>2, LwSpinInv
  <2>3. CASE LwMutex!LockUncount(t)
    BY <2>3, LwUncountInv
  <2>4. CASE LwMutex!LockResult(t)
    BY <2>4, LwResultInv
  <2>5. CASE LwMutex!LockOwn(t) \/ LwMutex!TryLockOwn(t) \/ LwMutex!DestroyOwn(t)
    BY <2>5, LwOwnReservedInv
  <2>6. CASE LwMutex!TryLockKernel(t) \/ LwMutex!DestroyTry(t)
    BY <2>6, LwKTryLockInv
  <2>7. CASE LwMutex!KLock(t)
    BY <2>7, LwKLockInv
  <2>8. CASE LwMutex!KSleep(t)
    BY <2>8, LwKSleepInv
  <2>9. CASE LwMutex!KSignal(t)
    BY <2>9, LwKSignalInv
  <2>10. CASE LwMutex!KStopped(t)
    BY <2>10, LwKStoppedInv
  <2>11. CASE LwMutex!TimeOut(t) \/ LwMutex!TimeOutTest(t)
    BY <2>11, LwTimeOutInv
  <2>12. CASE LwMutex!TimeOutCheck(t)
    BY <2>12, LwTimeOutCheckInv
  <2>13. CASE LwMutex!TimeOutUnqueue(t)
    BY <2>13, LwUnqueueInv
  <2>14. CASE LwMutex!Unlock(t, "u_redo") \/ LwMutex!Unlock(t, "d_unlock")
    BY <2>14, LwUnlockInv
  <2>15. CASE LwMutex!UnlockRelease(t)
    BY <2>15, LwReleaseInv
  <2>16. CASE LwMutex!KUnlock(t)
    BY <2>16, LwKUnlockInv
  <2>17. CASE LwMutex!KReown(t)
    BY <2>17, LwKReownInv
  <2>18. CASE LwMutex!KAwake(t)
    BY <2>18, LwKAwakeInv
  <2>19. CASE LwMutex!DestroyKernel(t)
    BY <2>19, LwDestroyInv
  <2>20. CASE LwMutex!DestroyDead(t)
    BY <2>20, LwDeadInv
  <2>21. CASE LwMutex!Schedule(t) \/ LwMutex!StopThread(t)
    BY <2>21, LwScheduleInv
  <2>22. QED
    BY <1>2, <2>1, <2>2, <2>3, <2>4, <2>5, <2>6, <2>7, <2>8, <2>9, <2>10, <2>11, <2>12, <2>13,
       <2>14, <2>15, <2>16, <2>17, <2>18, <2>19, <2>20, <2>21 DEF LwMutex!Step
<1>3. QED
  BY <1>1, <1>2 DEF LwMutex!Next

locksVars == <<kind, vars, mutexVars, lwVars>>

(***************************************************************************)
(* The variables of the light-weight mutex stay when all do.               *)
(***************************************************************************)
LEMMA LwStutter ==
  ASSUME LwInv, UNCHANGED locksVars
  PROVE  LwInv'
<1>1. UNCHANGED <<fifo, exists, guard, pc, timed, sched, stopped, toSleep, saves, faults, retry,
                  recursive, lock, count, sq, signaled, mode, next, lost, held>>
  BY DEF locksVars, vars, objVars, own, mutexVars, lwVars
<1>2. \A t \in Threads : /\ LwRight(t)' <=> LwRight(t)
                         /\ LwCounted(t)' <=> LwCounted(t)
                         /\ LwBeyond(t)' <=> LwBeyond(t)
                         /\ LwTaker(t)' <=> LwTaker(t)
                         /\ LwAwaited(t)' <=> LwAwaited(t)
  BY <1>1 DEF LwRight, LwCounted, LwBeyond, LwTaker, LwAwaited
<1>3. LwRights' = LwRights /\ LwCounteds' = LwCounteds
  BY <1>2 DEF LwRights, LwCounteds
<1>4. LwTypes'
  BY <1>1 DEF LwInv, LwTypes, LwLocals, ObjTypeOK
<1>5. LwFaultInv' /\ LwGuardInv' /\ LwListInv' /\ LwOwnInv' /\ LwExistsInv' /\ LwLoadInv'
  BY <1>1 DEF LwInv, LwFaultInv, LwGuardInv, LwListInv, Distinct, Contains, LwOwnInv, LwExistsInv,
              LwLoadInv
<1>6. LwRightInv' /\ LwCountInv' /\ LwRetryInv'
  BY <1>1, <1>2, <1>3 DEF LwInv, LwRightInv, LwCountInv, LwRetryInv
<1>7. \A t \in Threads : LwThreadInv(t)'
  BY <1>1, <1>2 DEF LwInv, LwThreadInv
<1>8. QED
  BY <1>4, <1>5, <1>6, <1>7 DEF LwInv

(***************************************************************************)
(* In a behaviour with a light-weight mutex its invariant always holds.    *)
(***************************************************************************)
THEOREM LwMutexAmongLocks ==
  ASSUME OneFault
  PROVE  LocksSpec => [](kind = "lwmutex" => LwInv)
<1>1. LocksInit => (kind = "lwmutex" => LwInv)
  BY LwInitInv DEF LocksInit
<1>2. ASSUME kind = "lwmutex" => LwInv, [LocksNext]_locksVars
      PROVE  (kind = "lwmutex" => LwInv)'
  <2>1. CASE UNCHANGED locksVars
    <3>1. kind' = kind
      BY <2>1 DEF locksVars
    <3>2. QED
      BY <1>2, <2>1, <3>1, LwStutter
  <2>2. CASE LocksNext
    BY <1>2, <2>2, LwNextInv DEF LocksNext
  <2>3. QED
    BY <1>2, <2>1, <2>2
<1>3. QED
  BY <1>1, <1>2, PTL DEF LocksSpec, locksVars

(***************************************************************************)
(* Light-weight mutex: who was told that it has locked the mutex is in the *)
(* word with its depth, and a reserved word is meant for exactly one.      *)
(***************************************************************************)
THEOREM LwMutexOwned ==
  ASSUME OneFault
  PROVE  LocksSpec => []LwMutexOwnership
<1>1. ASSUME kind = "lwmutex" => LwInv PROVE LwMutexOwnership
  <2>1. SUFFICES ASSUME LwInv PROVE LwMutex!TypeOK /\ LwMutex!HeldIsOwned /\ LwMutex!ReservedForOne
    BY <1>1 DEF LwMutexOwnership
  <2>2. LwMutex!TypeOK
    BY <2>1 DEF LwMutex!TypeOK, LwMutex!ObjTypeOK, LwMutex!SchedStates, LwInv, LwTypes, ObjTypeOK,
                SchedStates, LwLocals, LwWord
  <2>3. LwMutex!HeldIsOwned
    <3>1. SUFFICES ASSUME NEW t \in Threads, held[t] > 0 PROVE lock.owner = t /\ count = held[t] - 1
      BY DEF LwMutex!HeldIsOwned
    <3>2. held[t] # 0 /\ count \in Nat
      BY <2>1, <3>1, LwReads
    <3>3. lock.owner = t /\ held[t] = count + 1
      BY <2>1, <3>2 DEF LwInv, LwOwnInv
    <3>4. QED
      BY <3>2, <3>3
  <2>4. LwMutex!ReservedForOne
    <3>1. SUFFICES ASSUME ~retry
                   PROVE  LwMutex!Cardinality({t \in Threads : LwMutex!Right(t)})
                            + (IF signaled THEN 1 ELSE 0)
                            = IF lock.owner = Reserved /\ ~lost THEN 1 ELSE 0
      BY DEF LwMutex!ReservedForOne
    <3>2. \A t \in Threads : LwMutex!Right(t) <=> LwRight(t)
      BY LwSame DEF LwMutex!Right, LwRight
    <3>3. {t \in Threads : LwMutex!Right(t)} = LwRights
      BY <3>2 DEF LwRights
    <3>4. LwMutex!Cardinality(LwRights) = Cardinality(LwRights)
      BY LwSame
    <3>5. Cardinality(LwRights) + Ind(signaled) = Ind(lock.owner = Reserved /\ ~lost)
      BY <2>1, <3>1 DEF LwInv, LwRightInv
    <3>6. QED
      BY <3>3, <3>4, <3>5 DEF Ind
  <2>5. QED
    BY <2>2, <2>3, <2>4
<1>2. LocksSpec => [](kind = "lwmutex" => LwInv)
  BY LwMutexAmongLocks
<1>3. QED
  BY <1>1, <1>2, PTL

(***************************************************************************)
(* Light-weight mutex: nobody sleeps behind the back of an unlock, no      *)
(* sleeper is awakened that has left, and a loaded sleeper sleeps again.   *)
(***************************************************************************)
THEOREM LwMutexServed ==
  ASSUME OneFault
  PROVE  LocksSpec => []LwMutexNobodyStranded
<1>1. ASSUME kind = "lwmutex" => LwInv PROVE LwMutexNobodyStranded
  <2>1. SUFFICES ASSUME LwInv
                 PROVE  /\ LwMutex!WaitersAreCounted /\ LwMutex!RetryIsAwakened
                        /\ LwMutex!AwakeIsOnTime
                        /\ ~retry => RedoSleeps
    BY <1>1 DEF LwMutexNobodyStranded
  <2>2. LwMutex!WaitersAreCounted
    <3>1. LwMutex!Counted = LwCounteds
      BY DEF LwMutex!Counted, LwCounteds, LwCounted
    <3>2. LwMutex!Cardinality(LwCounteds) = Cardinality(LwCounteds)
      BY LwSame
    <3>3. QED
      BY <2>1, <3>1, <3>2 DEF LwMutex!WaitersAreCounted, LwInv, LwCountInv
  <2>3. LwMutex!RetryIsAwakened
    <3>1. SUFFICES ASSUME retry, "timeout" \notin faults, lock.owner = Free, sq # <<>>
                   PROVE  \E t \in Threads : LwMutex!Right(t)
                                             \/ pc[t] \in {"k_awake", "l_spin", "l_try", "l_redo"}
      BY DEF LwMutex!RetryIsAwakened
    <3>2. ~signaled
      BY <2>1, <3>1 DEF LwInv, LwExistsInv
    <3>3. PICK t \in Threads : LwTaker(t)
      BY <2>1, <3>1, <3>2 DEF LwInv, LwRetryInv
    <3>4. LwMutex!Right(t) \/ pc[t] \in {"k_awake", "l_spin", "l_try", "l_redo"}
      BY <3>3, LwSame DEF LwTaker, LwMutex!Right
    <3>5. QED
      BY <3>4
  <2>4. LwMutex!AwakeIsOnTime
    <3>1. SUFFICES ASSUME NEW t \in Threads, pc[t] = "k_awake" PROVE pc[next[t]] \in LwMutex!Sleeping
      BY DEF LwMutex!AwakeIsOnTime
    <3>2. next[t] \in Threads /\ LwAwaited(next[t])
      BY <2>1, <3>1 DEF LwInv, LwThreadInv, LwAwaited
    <3>3. QED
      BY <2>1, <3>2 DEF LwInv, LwThreadInv
  <2>5. ~retry => RedoSleeps
    BY <2>1 DEF RedoSleeps, LwInv, LwLoadInv, LwTypes, ObjTypeOK
  <2>6. QED
    BY <2>2, <2>3, <2>4, <2>5
<1>2. LocksSpec => [](kind = "lwmutex" => LwInv)
  BY LwMutexAmongLocks
<1>3. QED
  BY <1>1, <1>2, PTL

-----------------------------------------------------------------------------
(* The condition variable: its invariant *)

\* The labels of a thread that waits in one of the two calls, in the queue of
\* the condition variable, of the mutex, or taken out by signal_all.
CdWaits == {"c_wait", "t_check", "t_lock", "l_sleep", "l_wait"}
CdCondWaits == {"c_wait", "t_check", "t_lock"}

\* The labels of a thread that may have the mutex locked as its guest sees it.
CdFree == {"idle", "s_look", "s_lock", "b_look", "b_lock", "b_own", "d_look", "d_lock", "empty",
           "wake", "a_signal", "a_all", "a_to"}
CdGuards == {"wake", "b_own"}
CdSaveLabels == {"a_lock", "a_unlock", "a_cond", "a_signal", "a_all", "a_to",
                 "l_redo", "u_redo", "c_redo"}
CdTimeLabels == {"t_check", "t_lock"}

\* The labels of a thread that runs.
CdCalls == PCs \ (CdWaits \union {"idle", "c_done", "a_lock", "a_cond"})

CdListed(t) == Contains(mq, t) \/ Contains(sq, t) \/ Contains(batch, t)

CdLocals ==
  /\ pc \in [Threads -> PCs] /\ timed \in [Threads -> BOOLEAN]
  /\ saved \in [Threads -> 0..MaxLocks]
  /\ inMutex \in [Threads -> BOOLEAN]
  /\ held \in [Threads -> 0..MaxLocks + 1]

CdTypes ==
  /\ ObjTypeOK(PCs) /\ CdLocals
  /\ owner \in Threads \union {NoThread} /\ count \in 0..MaxLocks
  /\ mq \in Seq(Threads) /\ sq \in Seq(Threads) /\ batch \in Seq(Threads)
  /\ toAwake \subseteq Threads /\ redoLoaded \subseteq toSleep

\* What holds of each thread: the faults it may see, the internal mutex, ...
CdFaultPart(t) ==
  /\ pc[t] \in CdSaveLabels => "save" \in faults
  /\ timed[t] \/ pc[t] \in CdTimeLabels => "timeout" \in faults
  /\ pc[t] \in {"l_redo", "u_redo", "c_redo"} \/ t \in redoLoaded => saves > 0
  /\ guard = t <=> pc[t] \in CdGuards
  /\ pc[t] = "wake" => batch = <<>>

\* ... that it is in one place at most and, if queued, in a call that looks, ...
CdListPart(t) ==
  /\ Contains(mq, t) => pc[t] \in CdWaits \union {"a_lock", "a_cond"}
  /\ Contains(sq, t) => pc[t] \in CdCondWaits \union {"a_cond"} /\ ~Contains(mq, t)
  /\ Contains(batch, t) => pc[t] \in CdCondWaits /\ ~Contains(mq, t) /\ ~Contains(sq, t)
  /\ t \in toAwake => pc[t] \in CdWaits /\ ~CdListed(t)

\* ... the mutex and its depth, ...
CdOwnPart(t) ==
  /\ held[t] > 0 => owner = t /\ pc[t] \in CdFree /\ held[t] <= count + 1
  /\ saves = 0 /\ owner = t /\ pc[t] \in CdFree => held[t] = count + 1
  /\ saves = 0 /\ owner = t /\ pc[t] \in CdWaits => count = 0
  /\ owner = t /\ CdListed(t) => "save" \in faults
  /\ pc[t] = "c_done" => owner = t
  /\ pc[t] = "u_lock" => owner = t /\ count = 0
  /\ pc[t] = "c_lock" /\ t \notin redoLoaded => owner = t
  /\ pc[t] \in CdWaits => CdListed(t) \/ owner = t

\* ... how the scheduler sees it, ...
CdSchedPart(t) ==
  /\ pc[t] \in {"c_wait", "l_wait"} => (sched[t] = "asleep" <=> CdListed(t) \/ t \in toAwake)
  /\ pc[t] = "l_sleep" => /\ sched[t] \in {"on", "cancelled"}
                          /\ sched[t] = "on" <=> CdListed(t) \/ t \in toAwake
  /\ sched[t] = "cancelled" => pc[t] = "l_sleep"
  /\ pc[t] = "t_lock" => sched[t] = "on"
  /\ pc[t] = "a_lock" => Contains(mq, t) /\ sched[t] = "asleep"
  /\ pc[t] = "a_cond" => (sched[t] = "asleep" <=> CdListed(t))
  /\ pc[t] = "a_cond" /\ CdListed(t) => (inMutex[t] <=> Contains(mq, t))
  /\ pc[t] \notin CdWaits \union {"a_lock", "a_cond"} /\ t \notin stopped => sched[t] = "on"
  /\ pc[t] \in CdCalls => sched[t] = "on"
  /\ pc[t] = "idle" \/ pc[t] = "c_done" => sched[t] # "asleep"

\* ... and, while loaded sleepers have not slept again, that only these make
\* steps, and who was a waiter of the mutex finds it owned.
CdLoadPart(t) ==
  /\ pc[t] = "l_redo" => t \in toSleep
  /\ t \in redoLoaded => pc[t] \in {"idle", "c_redo", "c_lock"}
  /\ toSleep # {} =>
       /\ pc[t] \in {"idle", "l_redo", "u_redo", "c_redo", "s_look", "b_look", "d_look", "c_lock",
                     "l_sleep", "l_wait", "c_wait", "a_lock", "a_cond", "a_signal", "a_all", "a_to"}
       /\ t \in toSleep => pc[t] \in {"idle", "l_redo", "c_redo", "c_lock", "l_sleep"}
       /\ pc[t] \in {"c_lock", "l_sleep"} => t \in toSleep
       /\ t \in toSleep /\ pc[t] \in {"c_redo", "c_lock"} => t \in redoLoaded
       /\ pc[t] \in CdWaits => CdListed(t)
       /\ t \in toSleep /\ (pc[t] = "l_redo" \/ (pc[t] \in {"c_redo", "c_lock"} /\ inMutex[t])) =>
            owner # NoThread

CdPart(t) ==
  CdFaultPart(t) /\ CdListPart(t) /\ CdOwnPart(t) /\ CdSchedPart(t) /\ CdLoadPart(t)

\* What holds of all together.
CdFaultInv ==
  /\ stopped # {} \/ toSleep # {} \/ saves > 0 => "save" \in faults
  /\ stopped # {} => saves < MaxSaves

CdListInv ==
  /\ Distinct(mq) /\ Distinct(sq) /\ Distinct(batch)
  /\ toAwake # {} \/ batch # <<>> => guard # NoThread
  /\ toAwake \subseteq {owner}
  /\ owner = NoThread => mq = <<>> /\ count = 0

CdGlobal == CdTypes /\ CdFaultInv /\ CdListInv

CdInv == CdGlobal /\ \A t \in Threads : CdPart(t)

-----------------------------------------------------------------------------
(* What a step leaves alone *)

\* Nothing that CdPart(v) speaks of changes for v.
CdSame(v) ==
  /\ pc'[v] = pc[v] /\ timed'[v] = timed[v] /\ sched'[v] = sched[v] /\ held'[v] = held[v]
  /\ inMutex'[v] = inMutex[v]
  /\ Contains(mq', v) <=> Contains(mq, v)
  /\ Contains(sq', v) <=> Contains(sq, v)
  /\ Contains(batch', v) <=> Contains(batch, v)
  /\ v \in toAwake' <=> v \in toAwake
  /\ owner' = v <=> owner = v
  /\ owner = v => count' = count
  /\ guard' = v <=> guard = v
  /\ guard = v /\ batch = <<>> => batch' = <<>>
  /\ v \in stopped' <=> v \in stopped
  /\ v \in toSleep' <=> v \in toSleep
  /\ v \in redoLoaded' <=> v \in redoLoaded

\* The behaviour goes on without a savestate, and while it loads the mutex keeps
\* an owner.
CdCalm ==
  /\ faults' = faults /\ saves' = saves
  /\ toSleep' \subseteq toSleep
  /\ toSleep' # {} /\ owner # NoThread => owner' # NoThread

(***************************************************************************)
(* What holds of a thread goes on to hold if nothing changes for it.       *)
(***************************************************************************)
LEMMA CdPartKept ==
  ASSUME NEW v \in Threads, CdPart(v), CdSame(v), CdCalm
  PROVE  CdPart(v)'
<1>1. CdListed(v)' <=> CdListed(v)
  BY DEF CdSame, CdListed
<1>2. CdFaultPart(v)'
  BY DEF CdPart, CdFaultPart, CdSame, CdCalm, CdGuards
<1>3. CdListPart(v)'
  BY <1>1 DEF CdPart, CdListPart, CdSame
<1>4. CdOwnPart(v)'
  BY <1>1 DEF CdPart, CdOwnPart, CdSame, CdCalm
<1>5. CdSchedPart(v)'
  BY <1>1 DEF CdPart, CdSchedPart, CdSame
<1>6. CdLoadPart(v)'
  BY <1>1 DEF CdPart, CdLoadPart, CdSame, CdCalm
<1>7. QED
  BY <1>2, <1>3, <1>4, <1>5, <1>6 DEF CdPart

(***************************************************************************)
(* So a step is looked at only where something changes.                    *)
(***************************************************************************)
LEMMA CdFrame ==
  ASSUME CdInv, CdGlobal', CdCalm, \A v \in Threads : CdSame(v) \/ CdPart(v)'
  PROVE  CdInv'
<1>1. ASSUME NEW v \in Threads PROVE CdPart(v)'
  BY <1>1, CdPartKept DEF CdInv
<1>2. QED
  BY <1>1 DEF CdInv

\* A queue changes only in that t enters or leaves it.
CdQueueStep(t, q, r) ==
  \/ r = q
  \/ /\ r \in Seq(Threads) /\ Distinct(r)
     /\ \A v \in Threads \ {t} : Contains(r, v) <=> Contains(q, v)

\* A thread t changes its own variables and its place in the queues.
CdPlain(t) ==
  /\ CdLocals' /\ sched' \in [Threads -> SchedStates]
  /\ \A v \in Threads \ {t} : /\ pc'[v] = pc[v] /\ timed'[v] = timed[v] /\ sched'[v] = sched[v]
                              /\ held'[v] = held[v] /\ inMutex'[v] = inMutex[v]
  /\ UNCHANGED <<fifo, stopped, saves, faults, guard, batch, toAwake>>
  /\ CdQueueStep(t, mq, mq') /\ CdQueueStep(t, sq, sq')
  /\ owner' = NoThread => mq' = mq
  /\ exists' \in BOOLEAN
  /\ toSleep' = toSleep \/ toSleep' = toSleep \ {t}
  /\ redoLoaded' = redoLoaded \ (toSleep \ toSleep')
  /\ count' \in 0..MaxLocks
  /\ \/ owner' = owner /\ (owner = t \/ count' = count)
     \/ owner = t /\ owner' = NoThread /\ mq = <<>> /\ count' = 0 /\ toSleep = {} /\ t \notin toAwake
     \/ owner = NoThread /\ owner' = t /\ count' = count

(***************************************************************************)
(* Such a step keeps the invariant if it does so for its thread.           *)
(***************************************************************************)
LEMMA CdPlainInv ==
  ASSUME CdInv, NEW t \in Threads, CdPlain(t), CdPart(t)'
  PROVE  CdInv'
<1> USE ThreadsAssumption
<1>1. CdTypes /\ CdFaultInv /\ CdListInv
  BY DEF CdInv, CdGlobal
<1>2. \A v \in Threads \ {t} : CdSame(v)
  BY <1>1 DEF CdPlain, CdSame, CdTypes, CdListInv, CdQueueStep
<1>3. CdCalm
  BY <1>1 DEF CdPlain, CdCalm
<1>4. CdTypes'
  BY <1>1 DEF CdPlain, CdTypes, ObjTypeOK, CdLocals, CdQueueStep
<1>5. CdFaultInv'
  BY <1>1 DEF CdPlain, CdFaultInv
<1>6. CdListInv'
  BY <1>1 DEF CdPlain, CdListInv, CdTypes, CdQueueStep
<1>7. QED
  BY <1>2, <1>3, <1>4, <1>5, <1>6, CdFrame DEF CdGlobal

-----------------------------------------------------------------------------
(* The signal calls before and after they serve anybody *)

(***************************************************************************)
(* A thread that is in no queue goes on in a signal call.                  *)
(***************************************************************************)
LEMMA CdQuietInv ==
  ASSUME CdInv, NEW t \in Threads, NEW l \in CdFree, pc[t] \in CdFree, Goto(t, l),
         pc[t] \in CdGuards <=> l \in CdGuards,
         l \in CdSaveLabels => "save" \in faults,
         l = "wake" => batch = <<>>,
         toSleep # {} => l \in {"a_signal", "a_all", "a_to"},
         pc[t] = "idle" => t \notin stopped /\ toSleep = {},
         UNCHANGED <<world, guard, sched, own>>
  PROVE  CdInv'
<1> USE ThreadsAssumption
<1>1. CdTypes /\ CdPart(t)
  BY DEF CdInv, CdGlobal
<1>2. l \in PCs
  BY DEF CdFree, PCs
<1>3. /\ pc'[t] = l /\ timed'[t] = timed[t]
      /\ \A v \in Threads \ {t} : pc'[v] = pc[v] /\ timed'[v] = timed[v]
      /\ pc' \in [Threads -> PCs] /\ timed' \in [Threads -> BOOLEAN]
  BY <1>1, <1>2 DEF CdTypes, CdLocals, Goto, Enter
<1>U. UNCHANGED <<fifo, exists, stopped, toSleep, saves, faults, guard, sched, owner, mq, count,
                  sq, batch, toAwake, saved, inMutex, redoLoaded, held>>
  BY DEF world, own
<1>4. CdPlain(t)
  BY <1>1, <1>3, <1>U DEF CdPlain, CdTypes, ObjTypeOK, CdLocals, CdQueueStep
<1>5. CdListed(t)' <=> CdListed(t)
  BY <1>U DEF CdListed
<1>6. ~CdListed(t) /\ t \notin toAwake
  BY <1>1 DEF CdPart, CdListPart, CdListed, CdFree, CdWaits, CdCondWaits
<1>7. CdFaultPart(t)'
  BY <1>1, <1>3, <1>U DEF CdPart, CdFaultPart, CdFree, CdTimeLabels, CdSaveLabels, CdGuards
<1>8. CdListPart(t)'
  BY <1>5, <1>6, <1>U DEF CdListPart, CdListed
<1>9. CdOwnPart(t)'
  BY <1>1, <1>3, <1>U, <1>6 DEF CdPart, CdOwnPart, CdListed, CdFree, CdWaits
<1>10. sched[t] = "on"
  BY <1>1 DEF CdPart, CdSchedPart, CdFree, CdCalls, PCs, CdWaits
<1>11. CdSchedPart(t)'
  BY <1>3, <1>U, <1>10 DEF CdSchedPart, CdFree, CdCalls, CdWaits
<1>12. CdLoadPart(t)'
  BY <1>1, <1>3, <1>U, <1>10 DEF CdPart, CdLoadPart, CdFree, CdWaits, CdTypes
<1>13. QED
  BY <1>4, <1>7, <1>8, <1>9, <1>11, <1>12, CdPlainInv DEF CdPart

(***************************************************************************)
(* sys_cond_signal and its relatives begin, look at the queue, are put off *)
(* by a savestate, or find nobody.                                         *)
(***************************************************************************)
LEMMA CdSignals ==
  ASSUME CdInv, NEW t \in Threads,
         \/ \E look \in {"s_look", "b_look", "d_look"} : Signal(t, look)
         \/ SignalStopped(t, "s_look", "a_signal") \/ SignalLook(t, "s_look", "s_lock")
         \/ SignalStopped(t, "b_look", "a_all") \/ SignalLook(t, "b_look", "b_lock")
         \/ SignalStopped(t, "d_look", "a_to") \/ SignalLook(t, "d_look", "d_lock")
         \/ SignalEmpty(t) \/ SignalAllEnd(t)
  PROVE  CdInv'
<1>A. CdTypes /\ CdFaultInv /\ CdPart(t)
  BY DEF CdInv, CdGlobal
<1>1. ASSUME NEW look \in {"s_look", "b_look", "d_look"}, Signal(t, look) PROVE CdInv'
  <2>1. /\ pc[t] = "idle" /\ t \notin stopped /\ toSleep = {} /\ Goto(t, look)
        /\ UNCHANGED <<world, guard, sched, own>>
    BY <1>1 DEF Signal, MayStep
  <2>2. look \in CdFree /\ look \notin CdGuards /\ look \notin CdSaveLabels
    BY <1>1 DEF CdFree, CdGuards, CdSaveLabels
  <2>3. pc[t] \in CdFree /\ pc[t] \notin CdGuards
    BY <2>1 DEF CdFree, CdGuards
  <2>4. QED
    BY <2>1, <2>2, <2>3, CdQuietInv
<1>2. ASSUME NEW look \in {"s_look", "b_look", "d_look"}, NEW again \in {"a_signal", "a_all", "a_to"},
             SignalStopped(t, look, again)
      PROVE CdInv'
  <2>1. /\ pc[t] = look /\ t \in stopped /\ Goto(t, again)
        /\ UNCHANGED <<world, guard, sched, own>>
    BY <1>2 DEF SignalStopped
  <2>2. again \in CdFree /\ again \notin CdGuards /\ "save" \in faults
    BY <1>A, <1>2, <2>1 DEF CdFree, CdGuards, CdFaultInv
  <2>3. pc[t] \in CdFree /\ pc[t] \notin CdGuards /\ pc[t] # "idle"
    BY <2>1, <1>2 DEF CdFree, CdGuards
  <2>4. QED
    BY <2>1, <2>2, <2>3, CdQuietInv
<1>3. ASSUME NEW look \in {"s_look", "b_look", "d_look"}, NEW lock_ \in {"s_lock", "b_lock", "d_lock"},
             SignalLook(t, look, lock_)
      PROVE CdInv'
  <2>1. /\ pc[t] = look /\ (toSleep = {} \/ t \in toSleep)
        /\ UNCHANGED <<world, guard, sched, own>>
    BY <1>3 DEF SignalLook, MayStep
  <2>2. PICK l \in {"idle", "empty", lock_} : Goto(t, l)
    BY <1>3 DEF SignalLook
  <2>3. toSleep = {}
    BY <1>A, <1>3, <2>1 DEF CdPart, CdLoadPart
  <2>4. l \in CdFree /\ l \notin CdGuards /\ l \notin CdSaveLabels
    BY <1>3, <2>2 DEF CdFree, CdGuards, CdSaveLabels
  <2>5. pc[t] \in CdFree /\ pc[t] \notin CdGuards /\ pc[t] # "idle"
    BY <2>1, <1>3 DEF CdFree, CdGuards
  <2>6. QED
    BY <2>1, <2>2, <2>3, <2>4, <2>5, CdQuietInv
<1>4. CASE SignalEmpty(t)
  <2>1. /\ pc[t] = "empty" /\ Goto(t, "idle") /\ UNCHANGED <<world, guard, sched, own>>
    BY <1>4 DEF SignalEmpty
  <2>2. toSleep = {}
    BY <1>A, <2>1 DEF CdPart, CdLoadPart
  <2>3. PICK l \in CdFree : l = "idle"
    BY DEF CdFree
  <2>4. l \notin CdGuards /\ l \notin CdSaveLabels
    BY <2>3 DEF CdGuards, CdSaveLabels
  <2>5. pc[t] \in CdFree /\ pc[t] \notin CdGuards /\ pc[t] # "idle"
    BY <2>1 DEF CdFree, CdGuards
  <2>6. QED
    BY <2>1, <2>2, <2>3, <2>4, <2>5, CdQuietInv
<1>5. CASE SignalAllEnd(t)
  <2>1. /\ pc[t] = "b_own" /\ batch = <<>> /\ Goto(t, "wake") /\ UNCHANGED <<world, guard, sched, own>>
    BY <1>5 DEF SignalAllEnd
  <2>2. toSleep = {}
    BY <1>A, <2>1 DEF CdPart, CdLoadPart
  <2>3. PICK l \in CdFree : l = "wake"
    BY DEF CdFree
  <2>4. l \in CdGuards /\ l \notin CdSaveLabels
    BY <2>3 DEF CdGuards, CdSaveLabels
  <2>5. pc[t] \in CdFree /\ pc[t] \in CdGuards /\ pc[t] # "idle"
    BY <2>1 DEF CdFree, CdGuards
  <2>6. QED
    BY <2>1, <2>2, <2>3, <2>4, <2>5, CdQuietInv
<1>6. QED
  BY <1>1, <1>2, <1>3, <1>4, <1>5

-----------------------------------------------------------------------------
(* sys_mutex_lock and sys_mutex_unlock, up to the hand-over *)

(***************************************************************************)
(* Where a thread goes, and what its guest is told.                        *)
(***************************************************************************)
LEMMA CdEnters ==
  ASSUME CdTypes, NEW t \in Threads, NEW l \in PCs, NEW b \in BOOLEAN, Enter(t, l, b)
  PROVE  /\ pc' \in [Threads -> PCs] /\ timed' \in [Threads -> BOOLEAN]
         /\ pc'[t] = l /\ timed'[t] = b
         /\ \A v \in Threads \ {t} : pc'[v] = pc[v] /\ timed'[v] = timed[v]
BY DEF CdTypes, CdLocals, Enter

(***************************************************************************)
(* What the guest of a thread counts.                                      *)
(***************************************************************************)
LEMMA CdHolds ==
  ASSUME CdTypes, NEW t \in Threads, NEW n \in 0..MaxLocks + 1, held' = [held EXCEPT ![t] = n]
  PROVE  /\ held' \in [Threads -> 0..MaxLocks + 1] /\ held'[t] = n
         /\ \A v \in Threads \ {t} : held'[v] = held[v]
BY DEF CdTypes, CdLocals

(***************************************************************************)
(* A thread locks a mutex that is free or its own, or may not do so.       *)
(***************************************************************************)
LEMMA CdLockTake ==
  ASSUME CdInv, NEW t \in Threads, MayStep(t, pc[t]), pc[t] \in {"idle", "l_redo"},
         NEW n \in 0..MaxLocks + 1, held' = [held EXCEPT ![t] = n], Enter(t, "idle", FALSE),
         count' \in 0..MaxLocks,
         \/ owner = NoThread /\ owner' = t /\ n = held[t] + 1 /\ count' = count
         \/ owner = t /\ owner' = t /\ n = held[t] + 1 /\ count' = count + 1
         \/ owner = t /\ owner' = t /\ n = held[t] /\ count' = count,
         UNCHANGED <<world, guard, sched, mq, sq, batch, toAwake, saved, inMutex, redoLoaded>>
  PROVE  CdInv'
<1> USE ThreadsAssumption, LocksAssumption
<1>1. CdTypes /\ CdListInv /\ CdPart(t)
  BY DEF CdInv, CdGlobal
<1>2. PICK l \in PCs : l = "idle"
  BY DEF PCs
<1>3. /\ pc' \in [Threads -> PCs] /\ timed' \in [Threads -> BOOLEAN]
      /\ pc'[t] = "idle" /\ timed'[t] = FALSE
      /\ \A v \in Threads \ {t} : pc'[v] = pc[v] /\ timed'[v] = timed[v]
  BY <1>1, <1>2, CdEnters
<1>4. /\ held' \in [Threads -> 0..MaxLocks + 1] /\ held'[t] = n
      /\ \A v \in Threads \ {t} : held'[v] = held[v]
  BY <1>1, CdHolds
<1>U. UNCHANGED <<fifo, exists, stopped, toSleep, saves, faults, guard, sched, mq,
                  sq, batch, toAwake, saved, inMutex, redoLoaded>>
  BY DEF world
<1>5. CdPlain(t)
  BY <1>1, <1>3, <1>4, <1>U DEF CdPlain, CdTypes, ObjTypeOK, CdLocals, CdQueueStep
<1>6. /\ ~CdListed(t) /\ t \notin toAwake
      /\ ~Contains(mq, t) /\ ~Contains(sq, t) /\ ~Contains(batch, t)
  BY <1>1 DEF CdPart, CdListPart, CdListed, CdWaits, CdCondWaits
<1>7. ~CdListed(t)' /\ t \notin toAwake'
  BY <1>6, <1>U DEF CdListed
<1>8. sched[t] = "on"
  BY <1>1 DEF CdPart, CdSchedPart, CdCalls, PCs, CdWaits, MayStep
<1>9. pc[t] = "l_redo" => t \in toSleep /\ owner = t /\ saves > 0 /\ held[t] = 0
  BY <1>1 DEF CdPart, CdLoadPart, CdFaultPart, CdOwnPart, CdFree, CdTypes, CdLocals
<1>F. CdFaultPart(t)'
  BY <1>1, <1>3, <1>U DEF CdPart, CdFaultPart, CdTimeLabels, CdSaveLabels, CdGuards
<1>L. CdListPart(t)'
  BY <1>6, <1>7, <1>U DEF CdListPart
<1>O. CdOwnPart(t)'
  <2>1. held[t] \in Nat /\ count \in Nat /\ count' \in Nat
    BY <1>1 DEF CdTypes, CdLocals
  <2>2. owner = NoThread => count = 0 /\ held[t] = 0
    BY <1>1, <2>1 DEF CdListInv, CdPart, CdOwnPart
  <2>3. held[t] <= count + 1
    BY <1>1, <2>1 DEF CdPart, CdOwnPart
  <2>4. owner = t /\ saves = 0 => held[t] = count + 1
    BY <1>1, <1>9 DEF CdPart, CdOwnPart, CdFree
  <2>5. n \in Nat /\ n <= count' + 1 /\ owner' = t /\ (saves = 0 => n = count' + 1)
    <3>1. CASE owner = NoThread /\ owner' = t /\ n = held[t] + 1 /\ count' = count
      BY <2>1, <2>2, <3>1
    <3>2. CASE owner = t /\ owner' = t /\ n = held[t] + 1 /\ count' = count + 1
      BY <2>1, <2>3, <2>4, <3>2
    <3>3. CASE owner = t /\ owner' = t /\ n = held[t] /\ count' = count
      BY <2>1, <2>3, <2>4, <3>3
    <3>4. QED
      BY <3>1, <3>2, <3>3
  <2>6. QED
    BY <1>3, <1>4, <1>6, <1>U, <2>5 DEF CdOwnPart, CdFree, CdWaits, CdListed
<1>S. CdSchedPart(t)'
  BY <1>3, <1>U, <1>8 DEF CdSchedPart, CdCalls, CdWaits
<1>D. CdLoadPart(t)'
  BY <1>1, <1>3, <1>U DEF CdPart, CdLoadPart, CdWaits, MayStep
<1>10. QED
  BY <1>5, <1>F, <1>L, <1>O, <1>S, <1>D, CdPlainInv DEF CdPart

(***************************************************************************)
(* A thread queues for a mutex that somebody else owns.                    *)
(***************************************************************************)
LEMMA CdLockQueue ==
  ASSUME CdInv, NEW t \in Threads, MayStep(t, pc[t]), pc[t] \in {"idle", "l_redo"},
         owner \notin {t, NoThread}, TryOwn(t), Goto(t, "l_sleep"),
         UNCHANGED <<count, held, world, guard, sched, sq, batch, toAwake, saved, inMutex,
                     redoLoaded>>
  PROVE  CdInv'
<1> USE ThreadsAssumption, LocksAssumption
<1>1. CdTypes /\ CdListInv /\ CdPart(t)
  BY DEF CdInv, CdGlobal
<1>2. PICK l \in PCs : l = "l_sleep"
  BY DEF PCs
<1>3. /\ pc' \in [Threads -> PCs] /\ timed' \in [Threads -> BOOLEAN]
      /\ pc'[t] = "l_sleep" /\ timed'[t] = timed[t]
      /\ \A v \in Threads \ {t} : pc'[v] = pc[v] /\ timed'[v] = timed[v]
  <2>1. timed[t] \in BOOLEAN /\ Enter(t, l, timed[t])
    BY <1>1, <1>2 DEF CdTypes, CdLocals, Goto
  <2>2. QED
    BY <1>1, <1>2, <2>1, CdEnters
<1>U. UNCHANGED <<fifo, exists, stopped, toSleep, saves, faults, guard, sched, owner, count, held,
                  sq, batch, toAwake, saved, inMutex, redoLoaded>>
  BY DEF world, TryOwn
<1>4. /\ ~CdListed(t) /\ t \notin toAwake
      /\ ~Contains(mq, t) /\ ~Contains(sq, t) /\ ~Contains(batch, t)
  BY <1>1 DEF CdPart, CdListPart, CdListed, CdWaits, CdCondWaits
<1>5. /\ mq' \in Seq(Threads) /\ Distinct(mq')
      /\ \A v : Contains(mq', v) <=> Contains(mq, v) \/ v = t
  <2>1. mq' = <<t>> \o mq /\ mq \in Seq(Threads) /\ Distinct(mq)
    BY <1>1 DEF TryOwn, CdTypes, CdListInv
  <2>2. QED
    BY <1>4, <2>1, PushIs
<1>6. CdPlain(t)
  BY <1>1, <1>3, <1>5, <1>U DEF CdPlain, CdTypes, ObjTypeOK, CdLocals, CdQueueStep
<1>7. sched[t] = "on"
  BY <1>1 DEF CdPart, CdSchedPart, CdCalls, PCs, CdWaits, MayStep
<1>8. CdListed(t)' /\ Contains(mq', t) /\ ~Contains(sq', t) /\ ~Contains(batch', t) /\ t \notin toAwake'
  BY <1>4, <1>5, <1>U DEF CdListed
<1>F. CdFaultPart(t)'
  BY <1>1, <1>3, <1>U DEF CdPart, CdFaultPart, CdTimeLabels, CdSaveLabels, CdGuards
<1>L. CdListPart(t)'
  BY <1>3, <1>8 DEF CdListPart, CdWaits
<1>O. CdOwnPart(t)'
  BY <1>1, <1>3, <1>8, <1>U DEF CdPart, CdOwnPart, CdFree, CdWaits
<1>S. CdSchedPart(t)'
  BY <1>3, <1>U, <1>7, <1>8 DEF CdSchedPart, CdCalls, CdWaits
<1>D. CdLoadPart(t)'
  BY <1>1, <1>3, <1>U, <1>8 DEF CdPart, CdLoadPart, CdWaits, MayStep, CdTypes
<1>10. QED
  BY <1>6, <1>F, <1>L, <1>O, <1>S, <1>D, CdPlainInv DEF CdPart

(***************************************************************************)
(* sys_mutex_lock, made for the first time or again.                       *)
(***************************************************************************)
LEMMA CdLock ==
  ASSUME CdInv, NEW t \in Threads, NEW from \in {"idle", "l_redo"}, Lock(t, from)
  PROVE  CdInv'
<1> USE ThreadsAssumption, LocksAssumption
<1>1. CdTypes /\ CdListInv /\ CdPart(t)
  BY DEF CdInv, CdGlobal
<1>2. /\ MayStep(t, pc[t]) /\ pc[t] \in {"idle", "l_redo"}
      /\ UNCHANGED <<world, guard, sched, sq, batch, toAwake, saved, inMutex, redoLoaded>>
  BY DEF Lock, MayStep
<1>3. CASE owner \notin {t, NoThread}
  <2>1. TryOwn(t) /\ Goto(t, "l_sleep") /\ UNCHANGED <<count, held>>
    BY <1>3 DEF Lock
  <2>2. UNCHANGED <<count, held, world, guard, sched, sq, batch, toAwake, saved, inMutex,
                     redoLoaded>>
    BY <1>2, <2>1
  <2>3. QED
    BY <1>2, <1>3, <2>1, <2>2, CdLockQueue
<1>4. CASE owner \in {t, NoThread}
  <2>1. held[t] \in 0..MaxLocks + 1 /\ count \in 0..MaxLocks
    BY <1>1 DEF CdTypes, CdLocals
  <2>2. held[t] <= count + 1 /\ (owner = NoThread => count = 0 /\ held[t] = 0)
    BY <1>1, <2>1 DEF CdPart, CdOwnPart, CdListInv
  <2>3. CASE owner = t /\ count = MaxLocks
    <3>0. owner # NoThread /\ ~(count < MaxLocks) /\ owner \in {t, NoThread}
      BY <2>1, <2>3
    <3>1. Enter(t, "idle", FALSE) /\ UNCHANGED <<owner, mq, count, held>>
      BY <3>0 DEF Lock, Return
    <3>2. held' = [held EXCEPT ![t] = held[t]]
      BY <1>1, <3>1 DEF CdTypes, CdLocals
    <3>3. UNCHANGED <<world, guard, sched, mq, sq, batch, toAwake, saved, inMutex, redoLoaded>>
      BY <1>2, <3>1
    <3>4. QED
      BY <1>2, <2>1, <2>3, <3>1, <3>2, <3>3, CdLockTake
  <2>4. CASE owner = t /\ count < MaxLocks
    <3>1. /\ ReturnWith(t, held[t] + 1) /\ count' = count + 1 /\ UNCHANGED <<owner, mq>>
      BY <2>1, <2>4 DEF Lock
    <3>2. Enter(t, "idle", FALSE) /\ held' = [held EXCEPT ![t] = held[t] + 1]
      BY <3>1 DEF ReturnWith
    <3>3. held[t] + 1 \in 0..MaxLocks + 1 /\ count' \in 0..MaxLocks
      BY <2>1, <2>2, <2>4, <3>1
    <3>4. UNCHANGED <<world, guard, sched, mq, sq, batch, toAwake, saved, inMutex, redoLoaded>>
      BY <1>2, <3>1
    <3>5. PICK n \in 0..MaxLocks + 1 : n = held[t] + 1
      BY <3>3
    <3>6. QED
      BY <1>2, <2>4, <3>1, <3>2, <3>3, <3>4, <3>5, CdLockTake
  <2>5. CASE owner = NoThread
    <3>1. /\ ReturnWith(t, held[t] + 1) /\ count' = count /\ owner' = t /\ UNCHANGED mq
      BY <2>5 DEF Lock, TryOwn
    <3>2. Enter(t, "idle", FALSE) /\ held' = [held EXCEPT ![t] = held[t] + 1]
      BY <3>1 DEF ReturnWith
    <3>3. held[t] + 1 \in 0..MaxLocks + 1 /\ count' \in 0..MaxLocks
      BY <2>1, <2>2, <2>5, <3>1
    <3>4. UNCHANGED <<world, guard, sched, mq, sq, batch, toAwake, saved, inMutex, redoLoaded>>
      BY <1>2, <3>1
    <3>5. PICK n \in 0..MaxLocks + 1 : n = held[t] + 1
      BY <3>3
    <3>6. QED
      BY <1>2, <2>5, <3>1, <3>2, <3>3, <3>4, <3>5, CdLockTake
  <2>6. QED
    BY <1>4, <2>1, <2>3, <2>4, <2>5
<1>5. QED
  BY <1>3, <1>4

(***************************************************************************)
(* A lock call that was served before it slept returns.                    *)
(***************************************************************************)
LEMMA CdLockCancelled ==
  ASSUME CdInv, NEW t \in Threads, LockSleep(t), sched[t] = "cancelled"
  PROVE  CdInv'
<1> USE ThreadsAssumption, LocksAssumption
<1>1. CdTypes /\ CdFaultInv /\ CdListInv /\ CdPart(t)
  BY DEF CdInv, CdGlobal
<1>2. PICK l \in PCs : l = "idle"
  BY DEF PCs
<1>3. /\ pc' \in [Threads -> PCs] /\ timed' \in [Threads -> BOOLEAN]
      /\ pc'[t] = "idle" /\ timed'[t] = FALSE
      /\ \A v \in Threads \ {t} : pc'[v] = pc[v] /\ timed'[v] = timed[v]
  <2>1. FALSE \in BOOLEAN /\ Enter(t, l, FALSE)
    BY <1>1, <1>2 DEF CdTypes, CdLocals, LockSleep, ReturnWith
  <2>2. QED
    BY <1>1, <1>2, <2>1, CdEnters
<1>4. /\ held' \in [Threads -> 0..MaxLocks + 1] /\ held'[t] = 1
      /\ \A v \in Threads \ {t} : held'[v] = held[v]
  <2>1. held' = [held EXCEPT ![t] = 1]
    BY DEF LockSleep, ReturnWith
  <2>2. PICK n \in 0..MaxLocks + 1 : n = 1
    OBVIOUS
  <2>3. QED
    BY <1>1, <2>1, <2>2, CdHolds
<1>U. UNCHANGED <<fifo, exists, stopped, toSleep, saves, faults, guard, owner, mq, count, sq, batch,
                  toAwake, saved, inMutex, redoLoaded>>
  BY DEF LockSleep
<1>6. /\ sched' \in [Threads -> SchedStates] /\ sched'[t] = "on"
      /\ \A v \in Threads \ {t} : sched'[v] = sched[v]
  BY <1>1 DEF LockSleep, CdTypes, ObjTypeOK, SchedStates
<1>5. CdPlain(t)
  BY <1>1, <1>3, <1>4, <1>6, <1>U DEF CdPlain, CdTypes, ObjTypeOK, CdLocals, CdQueueStep
<1>7. pc[t] = "l_sleep" /\ ~CdListed(t) /\ t \notin toAwake
  BY <1>1 DEF CdPart, CdSchedPart, LockSleep
<1>8. owner = t /\ (saves = 0 => count = 0) /\ count \in Nat
  BY <1>1, <1>7 DEF CdPart, CdOwnPart, CdWaits, CdTypes
<1>9. /\ ~Contains(mq, t) /\ ~Contains(sq, t) /\ ~Contains(batch, t)
  BY <1>7 DEF CdListed
<1>F. CdFaultPart(t)'
  BY <1>1, <1>3, <1>7, <1>U DEF CdPart, CdFaultPart, CdTimeLabels, CdSaveLabels, CdGuards
<1>L. CdListPart(t)'
  BY <1>7, <1>9, <1>U DEF CdListPart
<1>O. CdOwnPart(t)'
  BY <1>3, <1>4, <1>8, <1>9, <1>U DEF CdOwnPart, CdFree, CdWaits, CdListed
<1>S. CdSchedPart(t)'
  BY <1>3, <1>6, <1>U DEF CdSchedPart, CdCalls, CdWaits
<1>D. CdLoadPart(t)'
  BY <1>1, <1>3, <1>7, <1>U DEF CdPart, CdLoadPart, CdWaits
<1>Q. QED
  BY <1>5, <1>F, <1>L, <1>O, <1>S, <1>D, CdPlainInv DEF CdPart

(***************************************************************************)
(* A lock call falls asleep in the queue of the mutex.                     *)
(***************************************************************************)
LEMMA CdLockSleep ==
  ASSUME CdInv, NEW t \in Threads, LockSleep(t), sched[t] # "cancelled"
  PROVE  CdInv'
<1> USE ThreadsAssumption, LocksAssumption
<1>1. CdTypes /\ CdFaultInv /\ CdListInv /\ CdPart(t)
  BY DEF CdInv, CdGlobal
<1>2. PICK l \in PCs : l = "l_wait"
  BY DEF PCs
<1>3. /\ pc' \in [Threads -> PCs] /\ timed' \in [Threads -> BOOLEAN]
      /\ pc'[t] = "l_wait" /\ timed'[t] = timed[t]
      /\ \A v \in Threads \ {t} : pc'[v] = pc[v] /\ timed'[v] = timed[v]
  <2>1. timed[t] \in BOOLEAN /\ Enter(t, l, timed[t])
    BY <1>1, <1>2 DEF CdTypes, CdLocals, LockSleep, Goto
  <2>2. QED
    BY <1>1, <1>2, <2>1, CdEnters
<1>U. /\ UNCHANGED <<fifo, exists, stopped, saves, faults, guard, owner, mq, count, sq, batch,
                     toAwake, saved, inMutex, redoLoaded, held>>
      /\ toSleep' = toSleep \ {t}
  BY DEF LockSleep, FallAsleep
<1>6. /\ sched' \in [Threads -> SchedStates] /\ sched'[t] = "asleep"
      /\ \A v \in Threads \ {t} : sched'[v] = sched[v]
  BY <1>1 DEF LockSleep, FallAsleep, CdTypes, ObjTypeOK, SchedStates
<1>7. pc[t] = "l_sleep" /\ (CdListed(t) \/ t \in toAwake) /\ t \notin redoLoaded
  BY <1>1 DEF CdPart, CdSchedPart, CdLoadPart, LockSleep
<1>5. CdPlain(t)
  BY <1>1, <1>3, <1>6, <1>7, <1>U DEF CdPlain, CdTypes, ObjTypeOK, CdLocals, CdQueueStep
<1>8. CdListed(t)' <=> CdListed(t)
  BY <1>U DEF CdListed
<1>F. CdFaultPart(t)'
  BY <1>1, <1>3, <1>7, <1>U DEF CdPart, CdFaultPart, CdTimeLabels, CdSaveLabels, CdGuards
<1>L. CdListPart(t)'
  BY <1>1, <1>3, <1>7, <1>8, <1>U DEF CdPart, CdListPart, CdWaits, CdCondWaits
<1>O. CdOwnPart(t)'
  BY <1>1, <1>3, <1>7, <1>8, <1>U DEF CdPart, CdOwnPart, CdFree, CdWaits
<1>S. CdSchedPart(t)'
  BY <1>3, <1>6, <1>7, <1>8, <1>U DEF CdSchedPart, CdCalls, CdWaits
<1>D. CdLoadPart(t)'
  BY <1>1, <1>3, <1>7, <1>8, <1>U DEF CdPart, CdLoadPart, CdWaits
<1>Q. QED
  BY <1>5, <1>F, <1>L, <1>O, <1>S, <1>D, CdPlainInv DEF CdPart

(***************************************************************************)
(* An awakened lock call returns.                                          *)
(***************************************************************************)
LEMMA CdLockSignal ==
  ASSUME CdInv, NEW t \in Threads, LockSignal(t)
  PROVE  CdInv'
<1> USE ThreadsAssumption, LocksAssumption
<1>1. CdTypes /\ CdFaultInv /\ CdListInv /\ CdPart(t)
  BY DEF CdInv, CdGlobal
<1>2. PICK l \in PCs : l = "idle"
  BY DEF PCs
<1>3. /\ pc' \in [Threads -> PCs] /\ timed' \in [Threads -> BOOLEAN]
      /\ pc'[t] = "idle" /\ timed'[t] = FALSE
      /\ \A v \in Threads \ {t} : pc'[v] = pc[v] /\ timed'[v] = timed[v]
  <2>1. FALSE \in BOOLEAN /\ Enter(t, l, FALSE)
    BY <1>1, <1>2 DEF CdTypes, CdLocals, LockSignal, ReturnWith
  <2>2. QED
    BY <1>1, <1>2, <2>1, CdEnters
<1>4. /\ held' \in [Threads -> 0..MaxLocks + 1] /\ held'[t] = 1
      /\ \A v \in Threads \ {t} : held'[v] = held[v]
  <2>1. held' = [held EXCEPT ![t] = 1]
    BY DEF LockSignal, ReturnWith
  <2>2. PICK n \in 0..MaxLocks + 1 : n = 1
    OBVIOUS
  <2>3. QED
    BY <1>1, <2>1, <2>2, CdHolds
<1>U. UNCHANGED <<fifo, exists, stopped, toSleep, saves, faults, guard, owner, mq, count, sq, batch,
                  toAwake, saved, inMutex, redoLoaded>>
  BY DEF LockSignal, world
<1>6. /\ sched' \in [Threads -> SchedStates] /\ sched'[t] = "on"
      /\ \A v \in Threads \ {t} : sched'[v] = sched[v]
  BY <1>1 DEF LockSignal, Signalled, CdTypes, ObjTypeOK, SchedStates
<1>5. CdPlain(t)
  BY <1>1, <1>3, <1>4, <1>6, <1>U DEF CdPlain, CdTypes, ObjTypeOK, CdLocals, CdQueueStep
<1>7. pc[t] = "l_wait" /\ ~CdListed(t) /\ t \notin toAwake
  BY <1>1 DEF CdPart, CdSchedPart, LockSignal, Signalled
<1>8. owner = t /\ (saves = 0 => count = 0) /\ count \in Nat
  BY <1>1, <1>7 DEF CdPart, CdOwnPart, CdWaits, CdTypes
<1>9. /\ ~Contains(mq, t) /\ ~Contains(sq, t) /\ ~Contains(batch, t)
  BY <1>7 DEF CdListed
<1>F. CdFaultPart(t)'
  BY <1>1, <1>3, <1>7, <1>U DEF CdPart, CdFaultPart, CdTimeLabels, CdSaveLabels, CdGuards
<1>L. CdListPart(t)'
  BY <1>7, <1>9, <1>U DEF CdListPart
<1>O. CdOwnPart(t)'
  BY <1>3, <1>4, <1>8, <1>9, <1>U DEF CdOwnPart, CdFree, CdWaits, CdListed
<1>S. CdSchedPart(t)'
  BY <1>3, <1>6, <1>U DEF CdSchedPart, CdCalls, CdWaits
<1>D. CdLoadPart(t)'
  BY <1>1, <1>3, <1>7, <1>U DEF CdPart, CdLoadPart, CdWaits
<1>Q. QED
  BY <1>5, <1>F, <1>L, <1>O, <1>S, <1>D, CdPlainInv DEF CdPart

(***************************************************************************)
(* A lock call is interrupted by a savestate, in the queue or as the owner. *)
(***************************************************************************)
LEMMA CdLockStopped ==
  ASSUME CdInv, NEW t \in Threads, LockStopped(t)
  PROVE  CdInv'
<1> USE ThreadsAssumption, LocksAssumption
<1>1. CdTypes /\ CdFaultInv /\ CdListInv /\ CdPart(t)
  BY DEF CdInv, CdGlobal
<1>U. UNCHANGED <<fifo, exists, stopped, toSleep, saves, faults, guard, sched, owner, mq, count, sq,
                  batch, toAwake, saved, inMutex, redoLoaded>>
  BY DEF LockStopped, world
<1>2. /\ pc[t] = "l_wait" /\ t \in stopped /\ sched[t] # "signal" /\ guard = NoThread
      /\ "save" \in faults /\ toAwake = {}
  BY <1>1 DEF LockStopped, Stopping, CdFaultInv, CdListInv
<1>3. CdListed(t)' <=> CdListed(t)
  BY <1>U DEF CdListed
<1>4. ~Contains(sq, t) /\ ~Contains(batch, t) /\ (CdListed(t) <=> Contains(mq, t))
  BY <1>1, <1>2 DEF CdPart, CdListPart, CdCondWaits, CdListed
<1>5. CASE Contains(mq, t)
  <2>1. PICK l \in PCs : l = "a_lock"
    BY DEF PCs
  <2>2. timed[t] \in BOOLEAN /\ Enter(t, l, timed[t]) /\ UNCHANGED held
    BY <1>1, <1>5, <2>1 DEF CdTypes, CdLocals, LockStopped, Goto
  <2>3. /\ pc' \in [Threads -> PCs] /\ timed' \in [Threads -> BOOLEAN]
        /\ pc'[t] = "a_lock" /\ timed'[t] = timed[t]
        /\ \A v \in Threads \ {t} : pc'[v] = pc[v] /\ timed'[v] = timed[v]
    BY <1>1, <2>1, <2>2, CdEnters
  <2>4. CdPlain(t)
    BY <1>1, <2>2, <2>3, <1>U DEF CdPlain, CdTypes, ObjTypeOK, CdLocals, CdQueueStep
  <2>5. sched[t] = "asleep"
    BY <1>1, <1>2, <1>4, <1>5 DEF CdPart, CdSchedPart
  <2>F. CdFaultPart(t)'
    BY <1>1, <1>2, <2>3, <1>U DEF CdPart, CdFaultPart, CdTimeLabels, CdSaveLabels, CdGuards
  <2>L. CdListPart(t)'
    BY <1>2, <1>4, <2>3, <1>U DEF CdListPart
  <2>O. CdOwnPart(t)'
    BY <1>1, <1>2, <2>2, <2>3, <1>U DEF CdPart, CdOwnPart, CdFree, CdWaits
  <2>S. CdSchedPart(t)'
    BY <1>5, <2>3, <2>5, <1>U DEF CdSchedPart, CdCalls, CdWaits
  <2>D. CdLoadPart(t)'
    BY <1>1, <1>2, <2>3, <1>U DEF CdPart, CdLoadPart, CdWaits
  <2>Q. QED
    BY <2>4, <2>F, <2>L, <2>O, <2>S, <2>D, CdPlainInv DEF CdPart
<1>6. CASE ~Contains(mq, t)
  <2>1. PICK l \in PCs : l = "idle"
    BY DEF PCs
  <2>2. Enter(t, l, FALSE) /\ held' = [held EXCEPT ![t] = 1]
    BY <1>6, <2>1 DEF LockStopped, ReturnWith
  <2>3. /\ pc' \in [Threads -> PCs] /\ timed' \in [Threads -> BOOLEAN]
        /\ pc'[t] = "idle" /\ timed'[t] = FALSE
        /\ \A v \in Threads \ {t} : pc'[v] = pc[v] /\ timed'[v] = timed[v]
    BY <1>1, <2>1, <2>2, CdEnters
  <2>4. PICK n \in 0..MaxLocks + 1 : n = 1
    OBVIOUS
  <2>5. /\ held' \in [Threads -> 0..MaxLocks + 1] /\ held'[t] = 1
        /\ \A v \in Threads \ {t} : held'[v] = held[v]
    BY <1>1, <2>2, <2>4, CdHolds
  <2>6. CdPlain(t)
    BY <1>1, <2>3, <2>5, <1>U DEF CdPlain, CdTypes, ObjTypeOK, CdLocals, CdQueueStep
  <2>7. sched[t] # "asleep" /\ sched[t] # "cancelled" /\ owner = t /\ (saves = 0 => count = 0)
    BY <1>1, <1>2, <1>4, <1>6 DEF CdPart, CdSchedPart, CdOwnPart, CdWaits
  <2>8. count \in Nat
    BY <1>1 DEF CdTypes
  <2>F. CdFaultPart(t)'
    BY <1>1, <1>2, <2>3, <1>U DEF CdPart, CdFaultPart, CdTimeLabels, CdSaveLabels, CdGuards
  <2>L. CdListPart(t)'
    BY <1>2, <1>4, <1>6, <2>3, <1>U DEF CdListPart
  <2>O. CdOwnPart(t)'
    BY <1>3, <1>4, <1>6, <2>3, <2>5, <2>7, <2>8, <1>U DEF CdOwnPart, CdFree, CdWaits
  <2>S. CdSchedPart(t)'
    BY <1>2, <2>3, <2>7, <1>U DEF CdSchedPart, CdCalls, CdWaits
  <2>D. CdLoadPart(t)'
    BY <1>1, <1>2, <2>3, <1>U DEF CdPart, CdLoadPart, CdWaits
  <2>Q. QED
    BY <2>6, <2>F, <2>L, <2>O, <2>S, <2>D, CdPlainInv DEF CdPart
<1>7. QED
  BY <1>5, <1>6

-----------------------------------------------------------------------------
(* sys_mutex_unlock and sys_cond_wait, where the queues stay as they are *)

(***************************************************************************)
(* sys_mutex_unlock, up to the choice of the next owner.                   *)
(***************************************************************************)
LEMMA CdUnlock ==
  ASSUME CdInv, NEW t \in Threads, NEW from \in {"idle", "u_redo"}, Unlock(t, from)
  PROVE  CdInv'
<1> USE ThreadsAssumption, LocksAssumption
<1>1. CdTypes /\ CdFaultInv /\ CdListInv /\ CdPart(t)
  BY DEF CdInv, CdGlobal
<1>U. UNCHANGED <<fifo, exists, stopped, toSleep, saves, faults, guard, sched, mq, sq, batch,
                  toAwake, saved, inMutex, redoLoaded>>
  BY DEF Unlock, world
<1>2. pc[t] \in {"idle", "u_redo"} /\ toSleep = {} /\ redoLoaded = {} /\ sched[t] = "on"
  BY <1>1 DEF Unlock, MayStep, CdPart, CdLoadPart, CdSchedPart, CdCalls, PCs, CdWaits, CdTypes
<1>3. held[t] \in 0..MaxLocks + 1 /\ count \in 0..MaxLocks
  BY <1>1 DEF CdTypes, CdLocals
<1>4. /\ pc[t] = "idle" => held[t] > 0 /\ owner = t
      /\ pc[t] = "u_redo" => held[t] = 0 /\ saves > 0
      /\ held[t] <= count + 1
      /\ saves = 0 /\ owner = t => held[t] = count + 1
  BY <1>1, <1>2, <1>3 DEF CdPart, CdOwnPart, CdFaultPart, CdFree, Unlock, MayStep
<1>5. /\ ~CdListed(t) /\ t \notin toAwake
      /\ ~Contains(mq, t) /\ ~Contains(sq, t) /\ ~Contains(batch, t)
  BY <1>1, <1>2 DEF CdPart, CdListPart, CdListed, CdWaits, CdCondWaits
<1>6. /\ held' = [held EXCEPT ![t] = IF held[t] > 0 THEN held[t] - 1 ELSE 0]
  BY DEF Unlock
<1>7. PICK n \in 0..MaxLocks + 1 : n = IF held[t] > 0 THEN held[t] - 1 ELSE 0
  BY <1>3
<1>8. /\ held' \in [Threads -> 0..MaxLocks + 1] /\ held'[t] = n
      /\ \A v \in Threads \ {t} : held'[v] = held[v]
  BY <1>1, <1>6, <1>7, CdHolds
<1>9. n = 0 \/ n = held[t] - 1
  BY <1>7
<1>a. CASE owner # t
  <2>1. PICK l \in PCs : l = "idle"
    BY DEF PCs
  <2>2. timed[t] \in BOOLEAN /\ Enter(t, l, timed[t])
    BY <1>1, <1>3, <1>a, <2>1 DEF CdTypes, CdLocals, Unlock, Goto
  <2>3. /\ pc' \in [Threads -> PCs] /\ timed' \in [Threads -> BOOLEAN]
        /\ pc'[t] = "idle" /\ timed'[t] = timed[t]
        /\ \A v \in Threads \ {t} : pc'[v] = pc[v] /\ timed'[v] = timed[v]
    BY <1>1, <2>1, <2>2, CdEnters
  <2>4. UNCHANGED <<owner, count>>
    BY <1>3, <1>a, <2>1 DEF Unlock
  <2>5. n = 0 /\ owner' # t
    BY <1>2, <1>3, <1>4, <1>7, <1>a, <2>4
  <2>6. count' \in 0..MaxLocks
    BY <1>3, <1>a, <2>4
  <2>7. CdPlain(t)
    BY <1>1, <1>2, <1>5, <1>8, <1>a, <2>3, <2>4, <2>6, <1>U
    DEF CdPlain, CdTypes, ObjTypeOK, CdLocals, CdQueueStep
  <2>F. CdFaultPart(t)'
    BY <1>1, <1>2, <2>3, <1>U DEF CdPart, CdFaultPart, CdTimeLabels, CdSaveLabels, CdGuards
  <2>L. CdListPart(t)'
    BY <1>5, <1>U DEF CdListPart
  <2>O. CdOwnPart(t)'
    BY <1>3, <1>5, <1>8, <2>3, <2>4, <2>5, <2>6, <1>U DEF CdOwnPart, CdFree, CdWaits, CdListed
  <2>S. CdSchedPart(t)'
    BY <1>2, <2>3, <1>U DEF CdSchedPart, CdCalls, CdWaits
  <2>D. CdLoadPart(t)'
    BY <1>1, <1>2, <2>3, <1>U DEF CdPart, CdLoadPart, CdWaits
  <2>Q. QED
    BY <2>7, <2>F, <2>L, <2>O, <2>S, <2>D, CdPlainInv DEF CdPart
<1>b. CASE owner = t /\ count > 0
  <2>1. PICK l \in PCs : l = "idle"
    BY DEF PCs
  <2>2. timed[t] \in BOOLEAN /\ Enter(t, l, timed[t])
    BY <1>1, <1>3, <1>b, <2>1 DEF CdTypes, CdLocals, Unlock, Goto
  <2>3. /\ pc' \in [Threads -> PCs] /\ timed' \in [Threads -> BOOLEAN]
        /\ pc'[t] = "idle" /\ timed'[t] = timed[t]
        /\ \A v \in Threads \ {t} : pc'[v] = pc[v] /\ timed'[v] = timed[v]
    BY <1>1, <2>1, <2>2, CdEnters
  <2>4. count' = count - 1 /\ UNCHANGED owner
    BY <1>3, <1>b, <2>1 DEF Unlock
  <2>5. owner' = t /\ n <= count' + 1 /\ (saves = 0 => n = count' + 1)
    BY <1>2, <1>3, <1>4, <1>7, <1>b, <2>4
  <2>6. count' \in 0..MaxLocks
    BY <1>3, <1>b, <2>4
  <2>7. CdPlain(t)
    BY <1>1, <1>2, <1>5, <1>8, <1>b, <2>3, <2>4, <2>6, <1>U
    DEF CdPlain, CdTypes, ObjTypeOK, CdLocals, CdQueueStep
  <2>F. CdFaultPart(t)'
    BY <1>1, <1>2, <2>3, <1>U DEF CdPart, CdFaultPart, CdTimeLabels, CdSaveLabels, CdGuards
  <2>L. CdListPart(t)'
    BY <1>5, <1>U DEF CdListPart
  <2>O. CdOwnPart(t)'
    BY <1>3, <1>5, <1>8, <2>3, <2>4, <2>5, <2>6, <1>U DEF CdOwnPart, CdFree, CdWaits, CdListed
  <2>S. CdSchedPart(t)'
    BY <1>2, <2>3, <1>U DEF CdSchedPart, CdCalls, CdWaits
  <2>D. CdLoadPart(t)'
    BY <1>1, <1>2, <2>3, <1>U DEF CdPart, CdLoadPart, CdWaits
  <2>Q. QED
    BY <2>7, <2>F, <2>L, <2>O, <2>S, <2>D, CdPlainInv DEF CdPart
<1>c. CASE owner = t /\ count = 0 /\ mq = <<>>
  <2>1. PICK l \in PCs : l = "idle"
    BY DEF PCs
  <2>2. timed[t] \in BOOLEAN /\ Enter(t, l, timed[t])
    BY <1>1, <1>3, <1>c, <2>1 DEF CdTypes, CdLocals, Unlock, Goto
  <2>3. /\ pc' \in [Threads -> PCs] /\ timed' \in [Threads -> BOOLEAN]
        /\ pc'[t] = "idle" /\ timed'[t] = timed[t]
        /\ \A v \in Threads \ {t} : pc'[v] = pc[v] /\ timed'[v] = timed[v]
    BY <1>1, <2>1, <2>2, CdEnters
  <2>4. owner' = NoThread /\ UNCHANGED count
    BY <1>3, <1>c, <2>1 DEF Unlock
  <2>5. n = 0 /\ owner' # t
    BY <1>2, <1>3, <1>4, <1>7, <1>c, <2>4
  <2>6. count' \in 0..MaxLocks
    BY <1>3, <1>c, <2>4
  <2>7. CdPlain(t)
    BY <1>1, <1>2, <1>5, <1>8, <1>c, <2>3, <2>4, <2>6, <1>U
    DEF CdPlain, CdTypes, ObjTypeOK, CdLocals, CdQueueStep
  <2>F. CdFaultPart(t)'
    BY <1>1, <1>2, <2>3, <1>U DEF CdPart, CdFaultPart, CdTimeLabels, CdSaveLabels, CdGuards
  <2>L. CdListPart(t)'
    BY <1>5, <1>U DEF CdListPart
  <2>O. CdOwnPart(t)'
    BY <1>3, <1>5, <1>8, <2>3, <2>4, <2>5, <2>6, <1>U DEF CdOwnPart, CdFree, CdWaits, CdListed
  <2>S. CdSchedPart(t)'
    BY <1>2, <2>3, <1>U DEF CdSchedPart, CdCalls, CdWaits
  <2>D. CdLoadPart(t)'
    BY <1>1, <1>2, <2>3, <1>U DEF CdPart, CdLoadPart, CdWaits
  <2>Q. QED
    BY <2>7, <2>F, <2>L, <2>O, <2>S, <2>D, CdPlainInv DEF CdPart
<1>d. CASE owner = t /\ count = 0 /\ mq # <<>>
  <2>1. PICK l \in PCs : l = "u_lock"
    BY DEF PCs
  <2>2. timed[t] \in BOOLEAN /\ Enter(t, l, timed[t])
    BY <1>1, <1>3, <1>d, <2>1 DEF CdTypes, CdLocals, Unlock, Goto
  <2>3. /\ pc' \in [Threads -> PCs] /\ timed' \in [Threads -> BOOLEAN]
        /\ pc'[t] = "u_lock" /\ timed'[t] = timed[t]
        /\ \A v \in Threads \ {t} : pc'[v] = pc[v] /\ timed'[v] = timed[v]
    BY <1>1, <2>1, <2>2, CdEnters
  <2>4. UNCHANGED <<owner, count>>
    BY <1>3, <1>d, <2>1 DEF Unlock
  <2>5. n = 0 /\ owner' = t /\ count' = 0
    BY <1>2, <1>3, <1>4, <1>7, <1>d, <2>4
  <2>6. count' \in 0..MaxLocks
    BY <1>3, <1>d, <2>4
  <2>7. CdPlain(t)
    BY <1>1, <1>2, <1>5, <1>8, <1>d, <2>3, <2>4, <2>6, <1>U
    DEF CdPlain, CdTypes, ObjTypeOK, CdLocals, CdQueueStep
  <2>F. CdFaultPart(t)'
    BY <1>1, <1>2, <2>3, <1>U DEF CdPart, CdFaultPart, CdTimeLabels, CdSaveLabels, CdGuards
  <2>L. CdListPart(t)'
    BY <1>5, <1>U DEF CdListPart
  <2>O. CdOwnPart(t)'
    BY <1>3, <1>5, <1>8, <2>3, <2>4, <2>5, <2>6, <1>U DEF CdOwnPart, CdFree, CdWaits, CdListed
  <2>S. CdSchedPart(t)'
    BY <1>2, <2>3, <1>U DEF CdSchedPart, CdCalls, CdWaits
  <2>D. CdLoadPart(t)'
    BY <1>1, <1>2, <2>3, <1>U DEF CdPart, CdLoadPart, CdWaits
  <2>Q. QED
    BY <2>7, <2>F, <2>L, <2>O, <2>S, <2>D, CdPlainInv DEF CdPart
<1>Q. QED
  BY <1>3, <1>a, <1>b, <1>c, <1>d

(***************************************************************************)
(* sys_cond_wait, up to the internal mutex.                                *)
(***************************************************************************)
LEMMA CdWait ==
  ASSUME CdInv, NEW t \in Threads, NEW from \in {"idle", "c_redo"}, NEW to \in BOOLEAN, Wait(t, from, to),
         to => "timeout" \in faults
  PROVE  CdInv'
<1> USE ThreadsAssumption, LocksAssumption
<1>1. CdTypes /\ CdFaultInv /\ CdListInv /\ CdPart(t)
  BY DEF CdInv, CdGlobal
<1>U. UNCHANGED <<fifo, exists, stopped, toSleep, saves, faults, guard, sched, owner, mq, count, sq,
                  batch, toAwake, saved, inMutex, redoLoaded>>
  BY DEF Wait, world
<1>2. /\ pc[t] \in {"idle", "c_redo"} /\ sched[t] = "on" /\ (toSleep = {} \/ t \in toSleep)
      /\ pc[t] = "idle" => toSleep = {}
  BY <1>1 DEF Wait, MayStep, CdPart, CdSchedPart, CdCalls, PCs, CdWaits
<1>3. held[t] \in 0..MaxLocks + 1 /\ count \in 0..MaxLocks
  BY <1>1 DEF CdTypes, CdLocals
<1>4. /\ pc[t] = "idle" => held[t] > 0 /\ owner = t
      /\ pc[t] = "c_redo" => held[t] = 0 /\ saves > 0
      /\ pc[t] = "c_redo" /\ t \in toSleep => t \in redoLoaded
  BY <1>1, <1>2, <1>3 DEF CdPart, CdOwnPart, CdFaultPart, CdLoadPart, CdFree, Wait, MayStep
<1>5. /\ ~CdListed(t) /\ t \notin toAwake
      /\ ~Contains(mq, t) /\ ~Contains(sq, t) /\ ~Contains(batch, t)
  BY <1>1, <1>2 DEF CdPart, CdListPart, CdListed, CdWaits, CdCondWaits
<1>a. CASE owner # t /\ t \notin redoLoaded
  <2>1. PICK l \in PCs : l = "idle"
    BY DEF PCs
  <2>2. FALSE \in BOOLEAN /\ Enter(t, l, FALSE)
    BY <1>a, <2>1 DEF Wait, Return
  <2>3. /\ pc' \in [Threads -> PCs] /\ timed' \in [Threads -> BOOLEAN]
        /\ pc'[t] = "idle" /\ timed'[t] = FALSE
        /\ \A v \in Threads \ {t} : pc'[v] = pc[v] /\ timed'[v] = timed[v]
    BY <1>1, <2>1, <2>2, CdEnters
  <2>4. held' = held
    BY <1>a DEF Wait, Return
  <2>5. CdPlain(t)
    BY <1>1, <2>3, <2>4, <1>U DEF CdPlain, CdTypes, ObjTypeOK, CdLocals, CdQueueStep
  <2>6. pc[t] = "c_redo" /\ held[t] = 0 /\ toSleep = {}
    BY <1>2, <1>4, <1>a
  <2>F. CdFaultPart(t)'
    BY <1>1, <1>2, <2>3, <1>U DEF CdPart, CdFaultPart, CdTimeLabels, CdSaveLabels, CdGuards
  <2>L. CdListPart(t)'
    BY <1>5, <1>U DEF CdListPart
  <2>O. CdOwnPart(t)'
    BY <1>5, <1>a, <2>3, <2>4, <2>6, <1>U DEF CdOwnPart, CdFree, CdWaits, CdListed
  <2>S. CdSchedPart(t)'
    BY <1>2, <2>3, <1>U DEF CdSchedPart, CdCalls, CdWaits
  <2>D. CdLoadPart(t)'
    BY <1>1, <2>3, <2>6, <1>U DEF CdPart, CdLoadPart, CdWaits
  <2>Q. QED
    BY <2>5, <2>F, <2>L, <2>O, <2>S, <2>D, CdPlainInv DEF CdPart
<1>b. CASE owner = t \/ t \in redoLoaded
  <2>1. PICK l \in PCs : l = "c_lock"
    BY DEF PCs
  <2>2. to \in BOOLEAN /\ Enter(t, l, to)
    BY <1>b, <2>1 DEF Wait
  <2>3. /\ pc' \in [Threads -> PCs] /\ timed' \in [Threads -> BOOLEAN]
        /\ pc'[t] = "c_lock" /\ timed'[t] = to
        /\ \A v \in Threads \ {t} : pc'[v] = pc[v] /\ timed'[v] = timed[v]
    BY <1>1, <2>1, <2>2, CdEnters
  <2>4. /\ held' \in [Threads -> 0..MaxLocks + 1] /\ held'[t] = 0
        /\ \A v \in Threads \ {t} : held'[v] = held[v]
    <3>1. held' = [held EXCEPT ![t] = 0]
      BY <1>b DEF Wait
    <3>2. PICK n \in 0..MaxLocks + 1 : n = 0
      OBVIOUS
    <3>3. QED
      BY <1>1, <3>1, <3>2, CdHolds
  <2>5. CdPlain(t)
    BY <1>1, <2>3, <2>4, <1>U DEF CdPlain, CdTypes, ObjTypeOK, CdLocals, CdQueueStep
  <2>F. CdFaultPart(t)'
    BY <1>1, <1>2, <2>3, <1>U DEF CdPart, CdFaultPart, CdTimeLabels, CdSaveLabels, CdGuards
  <2>L. CdListPart(t)'
    BY <1>5, <1>U DEF CdListPart
  <2>O. CdOwnPart(t)'
    BY <1>5, <1>b, <2>3, <2>4, <1>U DEF CdOwnPart, CdFree, CdWaits, CdListed
  <2>S. CdSchedPart(t)'
    BY <1>2, <2>3, <1>U DEF CdSchedPart, CdCalls, CdWaits
  <2>D. CdLoadPart(t)'
    BY <1>1, <1>2, <1>4, <2>3, <1>U DEF CdPart, CdLoadPart, CdWaits
  <2>Q. QED
    BY <2>5, <2>F, <2>L, <2>O, <2>S, <2>D, CdPlainInv DEF CdPart
<1>Q. QED
  BY <1>a, <1>b

(***************************************************************************)
(* A loaded call finds that the condition variable is gone.                *)
(***************************************************************************)
LEMMA CdRedoEsrch ==
  ASSUME CdInv, NEW t \in Threads, RedoEsrch(t)
  PROVE  CdInv'
<1> USE ThreadsAssumption, LocksAssumption
<1>1. CdTypes /\ CdFaultInv /\ CdListInv /\ CdPart(t)
  BY DEF CdInv, CdGlobal
<1>U. UNCHANGED <<fifo, exists, stopped, toSleep, saves, faults, guard, sched, owner, mq, count, sq,
                  batch, toAwake, saved, inMutex, redoLoaded, held>>
  BY DEF RedoEsrch, Return, world
<1>2. pc[t] = "c_redo" /\ sched[t] = "on"
  BY <1>1 DEF RedoEsrch, MayStep, CdPart, CdSchedPart, CdCalls, PCs, CdWaits
<1>3. /\ ~CdListed(t) /\ t \notin toAwake
      /\ ~Contains(mq, t) /\ ~Contains(sq, t) /\ ~Contains(batch, t)
  BY <1>1, <1>2 DEF CdPart, CdListPart, CdListed, CdWaits, CdCondWaits
<1>4. held[t] = 0 /\ saves > 0 /\ saves \in Nat
  BY <1>1, <1>2, SavesAssumption DEF CdPart, CdOwnPart, CdFaultPart, CdFree, CdTypes, CdLocals, ObjTypeOK
<1>5. QED
  <2>1. PICK l \in PCs : l = "idle"
    BY DEF PCs
  <2>2. FALSE \in BOOLEAN /\ Enter(t, l, FALSE)
    BY <1>2, <2>1 DEF RedoEsrch, Return
  <2>3. /\ pc' \in [Threads -> PCs] /\ timed' \in [Threads -> BOOLEAN]
        /\ pc'[t] = "idle" /\ timed'[t] = FALSE
        /\ \A v \in Threads \ {t} : pc'[v] = pc[v] /\ timed'[v] = timed[v]
    BY <1>1, <2>1, <2>2, CdEnters
  <2>5. CdPlain(t)
    BY <1>1, <2>3, <1>U DEF CdPlain, CdTypes, ObjTypeOK, CdLocals, CdQueueStep
  <2>F. CdFaultPart(t)'
    BY <1>1, <1>2, <2>3, <1>U DEF CdPart, CdFaultPart, CdTimeLabels, CdSaveLabels, CdGuards
  <2>L. CdListPart(t)'
    BY <1>3, <1>U DEF CdListPart
  <2>O. CdOwnPart(t)'
    BY <1>3, <1>4, <2>3, <1>U DEF CdOwnPart, CdFree, CdWaits, CdListed
  <2>S. CdSchedPart(t)'
    BY <1>2, <2>3, <1>U DEF CdSchedPart, CdCalls, CdWaits
  <2>D. CdLoadPart(t)'
    BY <1>1, <1>2, <2>3, <1>U DEF CdPart, CdLoadPart, CdWaits
  <2>Q. QED
    BY <2>5, <2>F, <2>L, <2>O, <2>S, <2>D, CdPlainInv DEF CdPart

(***************************************************************************)
(* An awakened wait owns the mutex.                                        *)
(***************************************************************************)
LEMMA CdWaitSignal ==
  ASSUME CdInv, NEW t \in Threads, WaitSignal(t)
  PROVE  CdInv'
<1> USE ThreadsAssumption, LocksAssumption
<1>1. CdTypes /\ CdFaultInv /\ CdListInv /\ CdPart(t)
  BY DEF CdInv, CdGlobal
<1>U. UNCHANGED <<fifo, exists, stopped, toSleep, saves, faults, guard, owner, mq, count, sq,
                  batch, toAwake, saved, inMutex, redoLoaded, held>>
  BY DEF WaitSignal, world, own
<1>2. /\ sched' \in [Threads -> SchedStates] /\ sched'[t] = "on"
      /\ \A v \in Threads \ {t} : sched'[v] = sched[v]
  BY <1>1 DEF WaitSignal, Signalled, CdTypes, ObjTypeOK, SchedStates
<1>3. pc[t] = "c_wait" /\ ~CdListed(t) /\ t \notin toAwake
  BY <1>1 DEF CdPart, CdSchedPart, WaitSignal, Signalled
<1>4. owner = t /\ toSleep = {}
  BY <1>1, <1>3 DEF CdPart, CdOwnPart, CdLoadPart, CdWaits
<1>5. /\ ~Contains(mq, t) /\ ~Contains(sq, t) /\ ~Contains(batch, t)
  BY <1>3 DEF CdListed
<1>6. QED
  <2>1. PICK l \in PCs : l = "c_done"
    BY DEF PCs
  <2>2. timed[t] \in BOOLEAN /\ Enter(t, l, timed[t])
    BY <1>1, <2>1 DEF CdTypes, CdLocals, WaitSignal, Goto
  <2>3. /\ pc' \in [Threads -> PCs] /\ timed' \in [Threads -> BOOLEAN]
        /\ pc'[t] = "c_done" /\ timed'[t] = timed[t]
        /\ \A v \in Threads \ {t} : pc'[v] = pc[v] /\ timed'[v] = timed[v]
    BY <1>1, <2>1, <2>2, CdEnters
  <2>5. CdPlain(t)
    BY <1>1, <1>2, <2>3, <1>U DEF CdPlain, CdTypes, ObjTypeOK, CdLocals, CdQueueStep
  <2>F. CdFaultPart(t)'
    BY <1>1, <1>3, <2>3, <1>U DEF CdPart, CdFaultPart, CdTimeLabels, CdSaveLabels, CdGuards
  <2>L. CdListPart(t)'
    BY <1>3, <1>5, <1>U DEF CdListPart
  <2>O. CdOwnPart(t)'
    BY <1>1, <1>3, <1>4, <1>5, <2>3, <1>U DEF CdPart, CdOwnPart, CdFree, CdWaits, CdListed
  <2>S. CdSchedPart(t)'
    BY <1>2, <2>3, <1>U DEF CdSchedPart, CdCalls, CdWaits
  <2>D. CdLoadPart(t)'
    BY <1>1, <1>3, <1>4, <2>3, <1>U DEF CdPart, CdLoadPart, CdWaits
  <2>Q. QED
    BY <2>5, <2>F, <2>L, <2>O, <2>S, <2>D, CdPlainInv DEF CdPart

(***************************************************************************)
(* A wait is interrupted by a savestate: it is in one of the queues, or owns the *)
(* mutex.                                                                  *)
(***************************************************************************)
LEMMA CdWaitStopped ==
  ASSUME CdInv, NEW t \in Threads, WaitStopped(t)
  PROVE  CdInv'
<1> USE ThreadsAssumption, LocksAssumption
<1>1. CdTypes /\ CdFaultInv /\ CdListInv /\ CdPart(t)
  BY DEF CdInv, CdGlobal
<1>U. UNCHANGED <<fifo, exists, stopped, toSleep, saves, faults, guard, sched, owner, mq, count, sq,
                  batch, toAwake, saved, redoLoaded, held>>
  BY DEF WaitStopped, world
<1>2. /\ pc[t] = "c_wait" /\ t \in stopped /\ sched[t] # "signal" /\ guard = NoThread
      /\ "save" \in faults /\ toAwake = {} /\ batch = <<>>
  BY <1>1 DEF WaitStopped, Stopping, CdFaultInv, CdListInv
<1>3. CdListed(t)' <=> CdListed(t)
  BY <1>U DEF CdListed
<1>4. ~Contains(batch, t) /\ (CdListed(t) <=> Contains(sq, t) \/ Contains(mq, t))
  BY <1>2 DEF CdListed, Contains
<1>5. /\ inMutex' \in [Threads -> BOOLEAN] /\ (inMutex'[t] <=> Contains(mq, t))
      /\ \A v \in Threads \ {t} : inMutex'[v] = inMutex[v]
  <2>1. inMutex' = [inMutex EXCEPT ![t] = Contains(mq, t)] /\ inMutex \in [Threads -> BOOLEAN]
    BY <1>1 DEF WaitStopped, CdTypes, CdLocals
  <2>2. Contains(mq, t) \in BOOLEAN
    BY DEF Contains
  <2>3. QED
    BY <2>1, <2>2, Zenon
<1>6. sched[t] = "asleep" <=> CdListed(t)
  BY <1>1, <1>2 DEF CdPart, CdSchedPart
<1>7. CASE CdListed(t)
  <2>1. PICK l \in PCs : l = "a_cond"
    BY DEF PCs
  <2>2. timed[t] \in BOOLEAN /\ Enter(t, l, timed[t])
    BY <1>1, <1>4, <1>7, <2>1 DEF CdTypes, CdLocals, WaitStopped, Goto
  <2>3. /\ pc' \in [Threads -> PCs] /\ timed' \in [Threads -> BOOLEAN]
        /\ pc'[t] = "a_cond" /\ timed'[t] = timed[t]
        /\ \A v \in Threads \ {t} : pc'[v] = pc[v] /\ timed'[v] = timed[v]
    BY <1>1, <2>1, <2>2, CdEnters
  <2>4. CdPlain(t)
    BY <1>1, <1>5, <2>3, <1>U DEF CdPlain, CdTypes, ObjTypeOK, CdLocals, CdQueueStep
  <2>F. CdFaultPart(t)'
    BY <1>1, <1>2, <2>3, <1>U DEF CdPart, CdFaultPart, CdTimeLabels, CdSaveLabels, CdGuards
  <2>L. CdListPart(t)'
    BY <1>1, <1>2, <1>4, <2>3, <1>U DEF CdPart, CdListPart
  <2>O. CdOwnPart(t)'
    BY <1>1, <1>2, <1>3, <2>3, <1>U DEF CdPart, CdOwnPart, CdFree, CdWaits
  <2>S. CdSchedPart(t)'
    BY <1>2, <1>3, <1>5, <1>6, <1>7, <2>3, <1>U DEF CdSchedPart, CdCalls, CdWaits
  <2>D. CdLoadPart(t)'
    BY <1>1, <1>2, <2>3, <1>U DEF CdPart, CdLoadPart, CdWaits
  <2>Q. QED
    BY <2>4, <2>F, <2>L, <2>O, <2>S, <2>D, CdPlainInv DEF CdPart
<1>8. CASE ~CdListed(t)
  <2>1. PICK l \in PCs : l = "c_done"
    BY DEF PCs
  <2>2. timed[t] \in BOOLEAN /\ Enter(t, l, timed[t])
    BY <1>1, <1>4, <1>8, <2>1 DEF CdTypes, CdLocals, WaitStopped, Goto
  <2>3. /\ pc' \in [Threads -> PCs] /\ timed' \in [Threads -> BOOLEAN]
        /\ pc'[t] = "c_done" /\ timed'[t] = timed[t]
        /\ \A v \in Threads \ {t} : pc'[v] = pc[v] /\ timed'[v] = timed[v]
    BY <1>1, <2>1, <2>2, CdEnters
  <2>4. CdPlain(t)
    BY <1>1, <1>5, <2>3, <1>U DEF CdPlain, CdTypes, ObjTypeOK, CdLocals, CdQueueStep
  <2>5. owner = t /\ toSleep = {} /\ sched[t] # "cancelled"
    BY <1>1, <1>2, <1>8 DEF CdPart, CdOwnPart, CdLoadPart, CdSchedPart, CdWaits
  <2>F. CdFaultPart(t)'
    BY <1>1, <1>2, <2>3, <1>U DEF CdPart, CdFaultPart, CdTimeLabels, CdSaveLabels, CdGuards
  <2>L. CdListPart(t)'
    BY <1>2, <1>4, <1>8, <2>3, <1>U DEF CdListPart
  <2>O. CdOwnPart(t)'
    BY <1>1, <1>2, <1>3, <1>4, <1>8, <2>3, <2>5, <1>U DEF CdPart, CdOwnPart, CdFree, CdWaits
  <2>S. CdSchedPart(t)'
    BY <1>2, <1>6, <1>8, <2>3, <2>5, <1>U DEF CdSchedPart, CdCalls, CdWaits
  <2>D. CdLoadPart(t)'
    BY <1>1, <1>2, <2>3, <2>5, <1>U DEF CdPart, CdLoadPart, CdWaits
  <2>Q. QED
    BY <2>4, <2>F, <2>L, <2>O, <2>S, <2>D, CdPlainInv DEF CdPart
<1>9. QED
  BY <1>7, <1>8

(***************************************************************************)
(* wait returns with the depth that it had put aside.                      *)
(***************************************************************************)
LEMMA CdWaitReturn ==
  ASSUME CdInv, NEW t \in Threads, WaitReturn(t)
  PROVE  CdInv'
<1> USE ThreadsAssumption, LocksAssumption
<1>1. CdTypes /\ CdFaultInv /\ CdListInv /\ CdPart(t)
  BY DEF CdInv, CdGlobal
<1>U. UNCHANGED <<fifo, exists, stopped, toSleep, saves, faults, guard, sched, owner, mq, sq,
                  batch, toAwake, inMutex, redoLoaded>>
  BY DEF WaitReturn, world
<1>2. pc[t] = "c_done" /\ count' = saved[t] /\ saved[t] \in 0..MaxLocks
  BY <1>1 DEF WaitReturn, CdTypes, CdLocals
<1>3. saved' \in [Threads -> 0..MaxLocks]
  BY <1>1 DEF WaitReturn, CdTypes, CdLocals
<1>4. owner = t /\ toSleep = {}
  BY <1>1, <1>2 DEF CdPart, CdOwnPart, CdLoadPart
<1>5. /\ ~CdListed(t) /\ t \notin toAwake
      /\ ~Contains(mq, t) /\ ~Contains(sq, t) /\ ~Contains(batch, t)
  BY <1>1, <1>2 DEF CdPart, CdListPart, CdListed, CdWaits, CdCondWaits
<1>6. QED
  <2>1. PICK l \in PCs : l = "idle"
    BY DEF PCs
  <2>2. FALSE \in BOOLEAN /\ Enter(t, l, FALSE)
    BY <1>2, <2>1 DEF WaitReturn, ReturnWith
  <2>3. /\ pc' \in [Threads -> PCs] /\ timed' \in [Threads -> BOOLEAN]
        /\ pc'[t] = "idle" /\ timed'[t] = FALSE
        /\ \A v \in Threads \ {t} : pc'[v] = pc[v] /\ timed'[v] = timed[v]
    BY <1>1, <2>1, <2>2, CdEnters
  <2>4. /\ held' \in [Threads -> 0..MaxLocks + 1] /\ held'[t] = saved[t] + 1
        /\ \A v \in Threads \ {t} : held'[v] = held[v]
    <3>1. held' = [held EXCEPT ![t] = saved[t] + 1]
      BY <1>2 DEF WaitReturn, ReturnWith
    <3>2. PICK n \in 0..MaxLocks + 1 : n = saved[t] + 1
      BY <1>2
    <3>3. QED
      BY <1>1, <3>1, <3>2, CdHolds
  <2>0. held'[t] = count' + 1 /\ count' \in 0..MaxLocks
    BY <1>2, <2>4
  <2>5. CdPlain(t)
    BY <1>1, <1>2, <1>3, <1>4, <2>3, <2>4, <2>0, <1>U DEF CdPlain, CdTypes, ObjTypeOK, CdLocals, CdQueueStep
  <2>F. CdFaultPart(t)'
    BY <1>1, <1>2, <2>3, <1>U DEF CdPart, CdFaultPart, CdTimeLabels, CdSaveLabels, CdGuards
  <2>L. CdListPart(t)'
    BY <1>5, <1>U DEF CdListPart
  <2>O. CdOwnPart(t)'
    BY <1>2, <1>4, <1>5, <2>3, <2>0, <1>U DEF CdOwnPart, CdFree, CdWaits, CdListed
  <2>S. CdSchedPart(t)'
    BY <1>1, <1>2, <2>3, <1>U DEF CdPart, CdSchedPart, CdCalls, CdWaits
  <2>D. CdLoadPart(t)'
    BY <1>1, <1>2, <1>4, <2>3, <1>U DEF CdPart, CdLoadPart, CdWaits
  <2>Q. QED
    BY <2>5, <2>F, <2>L, <2>O, <2>S, <2>D, CdPlainInv DEF CdPart

-----------------------------------------------------------------------------
(* Timeouts, and waits that were loaded *)

(***************************************************************************)
(* In a behaviour with timeouts nobody saves.                              *)
(***************************************************************************)
LEMMA CdNoSave ==
  ASSUME OneFault, CdInv, "timeout" \in faults
  PROVE  "save" \notin faults /\ stopped = {} /\ toSleep = {} /\ redoLoaded = {} /\ saves = 0
<1>1. faults \in Faults /\ saves \in Nat /\ CdFaultInv /\ redoLoaded \subseteq toSleep
  BY SavesAssumption DEF CdInv, CdGlobal, CdTypes, ObjTypeOK
<1>2. "save" \notin faults
  BY <1>1 DEF OneFault
<1>3. QED
  BY <1>1, <1>2 DEF CdFaultInv

(***************************************************************************)
(* The time of a wait is over.                                             *)
(***************************************************************************)
LEMMA CdTimeOut ==
  ASSUME OneFault, CdInv, NEW t \in Threads, TimeOut(t)
  PROVE  CdInv'
<1> USE ThreadsAssumption, LocksAssumption
<1>1. CdTypes /\ CdFaultInv /\ CdListInv /\ CdPart(t)
  BY DEF CdInv, CdGlobal
<1>U. UNCHANGED <<fifo, exists, stopped, toSleep, saves, faults, guard, sched, owner, mq, count, sq,
                  batch, toAwake, saved, inMutex, redoLoaded, held>>
  BY DEF TimeOut, world, own
<1>2. pc[t] = "c_wait" /\ "timeout" \in faults /\ sched[t] # "cancelled"
  BY <1>1 DEF TimeOut, TimedOut, CdPart, CdFaultPart, CdSchedPart
<1>3. "save" \notin faults /\ stopped = {} /\ toSleep = {} /\ redoLoaded = {} /\ saves = 0
  BY <1>2, CdNoSave
<1>4. CdListed(t)' <=> CdListed(t)
  BY <1>U DEF CdListed
<1>5. QED
  <2>1. PICK l \in PCs : l = "t_check"
    BY DEF PCs
  <2>2. timed[t] \in BOOLEAN /\ Enter(t, l, timed[t])
    BY <1>1, <2>1 DEF CdTypes, CdLocals, TimeOut, Goto
  <2>3. /\ pc' \in [Threads -> PCs] /\ timed' \in [Threads -> BOOLEAN]
        /\ pc'[t] = "t_check" /\ timed'[t] = timed[t]
        /\ \A v \in Threads \ {t} : pc'[v] = pc[v] /\ timed'[v] = timed[v]
    BY <1>1, <2>1, <2>2, CdEnters
  <2>4. CdPlain(t)
    BY <1>1, <2>3, <1>U DEF CdPlain, CdTypes, ObjTypeOK, CdLocals, CdQueueStep
  <2>F. CdFaultPart(t)'
    BY <1>1, <1>2, <2>3, <1>U DEF CdPart, CdFaultPart, CdTimeLabels, CdSaveLabels, CdGuards
  <2>L. CdListPart(t)'
    BY <1>1, <1>2, <1>4, <2>3, <1>U DEF CdPart, CdListPart, CdWaits, CdCondWaits
  <2>O. CdOwnPart(t)'
    BY <1>1, <1>2, <1>4, <2>3, <1>U DEF CdPart, CdOwnPart, CdFree, CdWaits
  <2>S. CdSchedPart(t)'
    BY <1>2, <2>3, <1>U DEF CdSchedPart, CdCalls, CdWaits
  <2>D. CdLoadPart(t)'
    BY <1>3, <2>3, <1>U DEF CdLoadPart
  <2>Q. QED
    BY <2>4, <2>F, <2>L, <2>O, <2>S, <2>D, CdPlainInv DEF CdPart

(***************************************************************************)
(* check_state after a timeout.                                            *)
(***************************************************************************)
LEMMA CdTimeOutCheck ==
  ASSUME OneFault, CdInv, NEW t \in Threads, TimeOutCheck(t)
  PROVE  CdInv'
<1> USE ThreadsAssumption, LocksAssumption
<1>1. CdTypes /\ CdFaultInv /\ CdListInv /\ CdPart(t)
  BY DEF CdInv, CdGlobal
<1>U. UNCHANGED <<fifo, exists, stopped, toSleep, saves, faults, guard, owner, mq, count, sq,
                  batch, toAwake, timed, saved, inMutex, redoLoaded, held>>
  BY DEF TimeOutCheck, world, own
<1>2. pc[t] = "t_check" /\ "timeout" \in faults
  BY <1>1 DEF TimeOutCheck, CdPart, CdFaultPart, CdTimeLabels
<1>3. "save" \notin faults /\ stopped = {} /\ toSleep = {} /\ redoLoaded = {} /\ saves = 0
  BY <1>2, CdNoSave
<1>4. CdListed(t)' <=> CdListed(t)
  BY <1>U DEF CdListed
<1>5. PICK s \in {"ready", "on"}, l \in {"t_check", "t_lock"} :
        /\ sched' = [sched EXCEPT ![t] = s] /\ pc' = [pc EXCEPT ![t] = l]
        /\ l = "t_lock" => s = "on"
  <2>1. t \notin stopped
    BY <1>3
  <2>2. pc = [pc EXCEPT ![t] = "t_check"]
    BY <1>1, <1>2 DEF CdTypes, CdLocals
  <2>3. QED
    BY <2>1, <2>2 DEF TimeOutCheck, CheckState
<1>6. /\ pc' \in [Threads -> PCs] /\ pc'[t] = l /\ \A v \in Threads \ {t} : pc'[v] = pc[v]
  BY <1>1, <1>5 DEF CdTypes, CdLocals, PCs
<1>7. /\ sched' \in [Threads -> SchedStates] /\ sched'[t] = s
      /\ \A v \in Threads \ {t} : sched'[v] = sched[v]
  BY <1>1, <1>5 DEF CdTypes, ObjTypeOK, SchedStates
<1>8. QED
  <2>1. CdPlain(t)
    BY <1>1, <1>6, <1>7, <1>U DEF CdPlain, CdTypes, ObjTypeOK, CdLocals, CdQueueStep
  <2>F. CdFaultPart(t)'
    BY <1>1, <1>2, <1>5, <1>6, <1>U DEF CdPart, CdFaultPart, CdTimeLabels, CdSaveLabels, CdGuards
  <2>L. CdListPart(t)'
    BY <1>1, <1>2, <1>4, <1>5, <1>6, <1>U DEF CdPart, CdListPart, CdWaits, CdCondWaits
  <2>O. CdOwnPart(t)'
    BY <1>1, <1>2, <1>4, <1>5, <1>6, <1>U DEF CdPart, CdOwnPart, CdFree, CdWaits
  <2>S. CdSchedPart(t)'
    BY <1>5, <1>6, <1>7 DEF CdSchedPart, CdCalls, CdWaits
  <2>D. CdLoadPart(t)'
    BY <1>3, <1>5, <1>6, <1>U DEF CdLoadPart
  <2>Q. QED
    BY <2>1, <2>F, <2>L, <2>O, <2>S, <2>D, CdPlainInv DEF CdPart

(***************************************************************************)
(* A wait whose time is over owns the mutex or waits for it.               *)
(***************************************************************************)
LEMMA CdTimeOutLock ==
  ASSUME OneFault, CdInv, NEW t \in Threads, TimeOutLock(t)
  PROVE  CdInv'
<1> USE ThreadsAssumption, LocksAssumption
<1>1. CdTypes /\ CdFaultInv /\ CdListInv /\ CdPart(t)
  BY DEF CdInv, CdGlobal
<1>U. UNCHANGED <<fifo, exists, stopped, saves, faults, guard, count, batch, toAwake, saved,
                  inMutex, redoLoaded, held>>
  BY DEF TimeOutLock
<1>2. /\ pc[t] = "t_lock" /\ "timeout" \in faults /\ guard = NoThread /\ sched[t] = "on"
      /\ toAwake = {} /\ batch = <<>>
  BY <1>1 DEF TimeOutLock, CdPart, CdFaultPart, CdSchedPart, CdTimeLabels, CdListInv
<1>3. "save" \notin faults /\ stopped = {} /\ toSleep = {} /\ redoLoaded = {} /\ saves = 0
  BY <1>2, CdNoSave
<1>4. /\ mq \in Seq(Threads) /\ Distinct(mq) /\ sq \in Seq(Threads) /\ Distinct(sq)
      /\ ~Contains(batch, t)
  BY <1>1, <1>2 DEF CdTypes, CdListInv, Contains
<1>5. sq' = RemoveFirst(sq, t)
  BY DEF TimeOutLock, Without
<1>6. /\ sq' \in Seq(Threads) /\ Distinct(sq') /\ \A v : Contains(sq', v) <=> Contains(sq, v) /\ v # t
  BY <1>4, <1>5, RemoveFirstHas
<1>7. /\ CdListed(t) \/ owner = t
      /\ ~(owner = t /\ CdListed(t))
      /\ ~(Contains(sq, t) /\ Contains(mq, t))
      /\ held[t] = 0
      /\ owner = NoThread => count = 0 /\ mq = <<>>
  BY <1>1, <1>2, <1>3 DEF CdPart, CdOwnPart, CdListPart, CdListInv, CdWaits, CdFree, CdTypes, CdLocals
<1>8. /\ owner' = t => Goto(t, "c_done") /\ UNCHANGED <<sched, toSleep>>
      /\ owner' # t => FallAsleep(t) /\ Enter(t, "c_wait", FALSE)
      /\ Contains(sq, t) => TryOwn(t)
      /\ ~Contains(sq, t) => UNCHANGED <<owner, mq>>
  BY DEF TimeOutLock
<1>9. \/ owner' = owner /\ owner # NoThread
      \/ owner' = t /\ owner = NoThread /\ mq' = mq
  <2>1. CASE Contains(sq, t)
    BY <1>8, <2>1 DEF TryOwn
  <2>2. CASE ~Contains(sq, t)
    <3>1. owner' = owner /\ mq' = mq
      BY <1>8, <2>2
    <3>2. owner # NoThread
      <4>1. SUFFICES ASSUME owner = NoThread PROVE FALSE
        OBVIOUS
      <4>2. ~Contains(mq, t)
        BY <1>7, <4>1 DEF Contains
      <4>3. QED
        BY <1>4, <1>7, <2>2, <4>1, <4>2 DEF CdListed
    <3>3. QED
      BY <3>1, <3>2
  <2>3. QED
    BY <2>1, <2>2
<1>10. /\ mq' \in Seq(Threads) /\ Distinct(mq')
       /\ \A v \in Threads \ {t} : Contains(mq', v) <=> Contains(mq, v)
       /\ Contains(mq', t) <=> owner' # t
  <2>1. CASE Contains(sq, t) /\ owner # NoThread
    <3>1. mq' = <<t>> \o mq /\ owner' = owner /\ owner # t
      BY <1>7, <1>8, <2>1 DEF TryOwn, CdListed
    <3>2. QED
      BY <1>4, <1>7, <2>1, <3>1, PushIs
  <2>2. CASE Contains(sq, t) /\ owner = NoThread
    <3>1. mq' = mq /\ owner' = t
      BY <1>8, <2>2 DEF TryOwn
    <3>2. QED
      BY <1>4, <1>7, <2>2, <3>1
  <2>3. CASE ~Contains(sq, t)
    BY <1>4, <1>7, <1>8, <2>3 DEF CdListed
  <2>4. QED
    BY <2>1, <2>2, <2>3
<1>11. /\ ~Contains(sq', t) /\ ~Contains(batch', t) /\ t \notin toAwake'
       /\ CdListed(t)' <=> owner' # t
  BY <1>2, <1>4, <1>6, <1>10, <1>U DEF CdListed
<1>a. CASE owner' = t
  <2>1. PICK l \in PCs : l = "c_done"
    BY DEF PCs
  <2>2. timed[t] \in BOOLEAN /\ Enter(t, l, timed[t])
    BY <1>1, <1>8, <1>a, <2>1 DEF CdTypes, CdLocals, Goto
  <2>3. /\ pc' \in [Threads -> PCs] /\ timed' \in [Threads -> BOOLEAN]
        /\ pc'[t] = "c_done" /\ timed'[t] = timed[t]
        /\ \A v \in Threads \ {t} : pc'[v] = pc[v] /\ timed'[v] = timed[v]
    BY <1>1, <2>1, <2>2, CdEnters
  <2>4. sched' = sched /\ toSleep' = toSleep
    BY <1>8, <1>a
  <2>5. CdPlain(t)
    BY <1>1, <1>6, <1>9, <1>10, <1>a, <2>3, <2>4, <1>U DEF CdPlain, CdTypes, ObjTypeOK, CdLocals, CdQueueStep
  <2>F. CdFaultPart(t)'
    BY <1>1, <1>2, <2>3, <1>U DEF CdPart, CdFaultPart, CdTimeLabels, CdSaveLabels, CdGuards
  <2>L. CdListPart(t)'
    BY <1>10, <1>11, <1>a DEF CdListPart
  <2>O. CdOwnPart(t)'
    BY <1>7, <1>11, <1>a, <2>3, <1>U DEF CdOwnPart, CdFree, CdWaits
  <2>S. CdSchedPart(t)'
    BY <1>2, <2>3, <2>4 DEF CdSchedPart, CdCalls, CdWaits
  <2>D. CdLoadPart(t)'
    BY <1>3, <2>3, <2>4, <1>U DEF CdLoadPart
  <2>Q. QED
    BY <2>5, <2>F, <2>L, <2>O, <2>S, <2>D, CdPlainInv DEF CdPart
<1>b. CASE owner' # t
  <2>1. PICK l \in PCs : l = "c_wait"
    BY DEF PCs
  <2>2. FALSE \in BOOLEAN /\ Enter(t, l, FALSE)
    BY <1>8, <1>b, <2>1 DEF FallAsleep
  <2>3. /\ pc' \in [Threads -> PCs] /\ timed' \in [Threads -> BOOLEAN]
        /\ pc'[t] = "c_wait" /\ timed'[t] = FALSE
        /\ \A v \in Threads \ {t} : pc'[v] = pc[v] /\ timed'[v] = timed[v]
    BY <1>1, <2>1, <2>2, CdEnters
  <2>4. /\ sched' \in [Threads -> SchedStates] /\ sched'[t] = "asleep"
        /\ \A v \in Threads \ {t} : sched'[v] = sched[v]
    BY <1>1, <1>8, <1>b DEF FallAsleep, CdTypes, ObjTypeOK, SchedStates
  <2>5. toSleep' = {} /\ toSleep' = toSleep
    BY <1>3, <1>8, <1>b DEF FallAsleep
  <2>6. CdPlain(t)
    BY <1>1, <1>6, <1>9, <1>10, <1>b, <2>3, <2>4, <2>5, <1>U
    DEF CdPlain, CdTypes, ObjTypeOK, CdLocals, CdQueueStep
  <2>F. CdFaultPart(t)'
    BY <1>1, <1>2, <2>3, <1>U DEF CdPart, CdFaultPart, CdTimeLabels, CdSaveLabels, CdGuards
  <2>L. CdListPart(t)'
    BY <1>11, <1>b, <2>3 DEF CdListPart, CdWaits
  <2>O. CdOwnPart(t)'
    BY <1>7, <1>11, <1>b, <2>3, <1>U DEF CdOwnPart, CdFree, CdWaits
  <2>S. CdSchedPart(t)'
    BY <1>11, <1>b, <2>3, <2>4 DEF CdSchedPart, CdCalls, CdWaits
  <2>D. CdLoadPart(t)'
    BY <1>3, <2>3, <2>5, <1>U DEF CdLoadPart
  <2>Q. QED
    BY <2>6, <2>F, <2>L, <2>O, <2>S, <2>D, CdPlainInv DEF CdPart
<1>Q. QED
  BY <1>a, <1>b

(***************************************************************************)
(* A loaded wait queues itself where it was.                               *)
(***************************************************************************)
LEMMA CdWaitReload ==
  ASSUME CdInv, NEW t \in Threads, WaitReload(t)
  PROVE  CdInv'
<1> USE ThreadsAssumption, LocksAssumption
<1>1. CdTypes /\ CdFaultInv /\ CdListInv /\ CdPart(t)
  BY DEF CdInv, CdGlobal
<1>U. UNCHANGED <<fifo, exists, stopped, saves, faults, guard, count, batch, toAwake,
                  saved, held>>
  BY DEF WaitReload
<1>2. pc[t] = "c_lock" /\ t \in redoLoaded /\ guard = NoThread /\ toAwake = {} /\ batch = <<>>
  BY <1>1 DEF WaitReload, CdListInv
<1>3. t \in toSleep /\ "save" \in faults /\ saves > 0 /\ saves \in Nat
  BY <1>1, <1>2, SavesAssumption DEF CdTypes, ObjTypeOK, CdFaultInv, CdPart, CdFaultPart
<1>4. /\ mq \in Seq(Threads) /\ Distinct(mq) /\ sq \in Seq(Threads) /\ Distinct(sq)
      /\ ~Contains(batch, t) /\ ~Contains(mq, t) /\ ~Contains(sq, t)
  BY <1>1, <1>2 DEF CdTypes, CdListInv, Contains, CdPart, CdListPart, CdWaits, CdCondWaits
<1>5. inMutex[t] => owner # NoThread
  BY <1>1, <1>2, <1>3 DEF CdPart, CdLoadPart
<1>6. owner' = owner /\ IF inMutex[t] THEN mq' = <<t>> \o mq /\ sq' = sq ELSE sq' = <<t>> \o sq /\ mq' = mq
  BY <1>5 DEF WaitReload, TryOwn
<1>7. /\ mq' \in Seq(Threads) /\ Distinct(mq')
      /\ \A v \in Threads \ {t} : Contains(mq', v) <=> Contains(mq, v)
      /\ Contains(mq', t) <=> inMutex[t]
      /\ owner' = NoThread => mq' = mq
  <2>1. CASE inMutex[t]
    <3>1. mq' = <<t>> \o mq /\ owner' # NoThread
      BY <1>5, <1>6, <2>1
    <3>2. QED
      BY <1>4, <2>1, <3>1, PushIs
  <2>2. CASE ~inMutex[t]
    BY <1>4, <1>6, <2>2
  <2>3. QED
    BY <2>1, <2>2
<1>8. /\ sq' \in Seq(Threads) /\ Distinct(sq')
      /\ \A v \in Threads \ {t} : Contains(sq', v) <=> Contains(sq, v)
      /\ Contains(sq', t) <=> ~inMutex[t]
  <2>1. CASE inMutex[t]
    BY <1>4, <1>6, <2>1
  <2>2. CASE ~inMutex[t]
    <3>1. sq' = <<t>> \o sq
      BY <1>6, <2>2
    <3>2. QED
      BY <1>4, <2>2, <3>1, PushIs
  <2>3. QED
    BY <2>1, <2>2
<1>9. CdListed(t)' /\ ~Contains(batch', t) /\ t \notin toAwake' /\ ~(Contains(mq', t) /\ Contains(sq', t))
  BY <1>2, <1>4, <1>7, <1>8, <1>U DEF CdListed
<1>10. /\ sched' \in [Threads -> SchedStates] /\ sched'[t] = "asleep"
       /\ \A v \in Threads \ {t} : sched'[v] = sched[v]
       /\ toSleep' = toSleep \ {t}
  BY <1>1 DEF WaitReload, SleepAndAwaken, CdTypes, ObjTypeOK, SchedStates
<1>11. /\ inMutex' \in [Threads -> BOOLEAN] /\ \A v \in Threads \ {t} : inMutex'[v] = inMutex[v]
  <2>1. inMutex' = [inMutex EXCEPT ![t] = FALSE] /\ inMutex \in [Threads -> BOOLEAN]
    BY <1>1 DEF WaitReload, CdTypes, CdLocals
  <2>2. QED
    BY <2>1, Zenon
<1>12. redoLoaded' = redoLoaded \ {t} /\ redoLoaded' = redoLoaded \ (toSleep \ toSleep')
  <2>1. redoLoaded' = redoLoaded \ {t}
    BY DEF WaitReload
  <2>2. QED
    BY <1>3, <1>10, <2>1
<1>13. QED
  <2>1. PICK l \in PCs : l = "c_wait"
    BY DEF PCs
  <2>2. timed[t] \in BOOLEAN /\ Enter(t, l, timed[t])
    BY <1>1, <2>1 DEF CdTypes, CdLocals, WaitReload, Goto
  <2>3. /\ pc' \in [Threads -> PCs] /\ timed' \in [Threads -> BOOLEAN]
        /\ pc'[t] = "c_wait" /\ timed'[t] = timed[t]
        /\ \A v \in Threads \ {t} : pc'[v] = pc[v] /\ timed'[v] = timed[v]
    BY <1>1, <2>1, <2>2, CdEnters
  <2>4. CdPlain(t)
    BY <1>1, <1>6, <1>7, <1>8, <1>10, <1>11, <1>12, <2>3, <1>U
    DEF CdPlain, CdTypes, ObjTypeOK, CdLocals, CdQueueStep
  <2>5. held[t] = 0
    BY <1>1, <1>2 DEF CdPart, CdOwnPart, CdFree, CdTypes, CdLocals
  <2>F. CdFaultPart(t)'
    BY <1>1, <1>2, <1>12, <2>3, <1>U DEF CdPart, CdFaultPart, CdTimeLabels, CdSaveLabels, CdGuards
  <2>L. CdListPart(t)'
    BY <1>9, <2>3 DEF CdListPart, CdWaits, CdCondWaits
  <2>O. CdOwnPart(t)'
    BY <1>3, <1>9, <2>3, <2>5, <1>U DEF CdOwnPart, CdFree, CdWaits
  <2>S. CdSchedPart(t)'
    BY <1>9, <1>10, <2>3 DEF CdSchedPart, CdCalls, CdWaits
  <2>D. CdLoadPart(t)'
    BY <1>9, <1>10, <1>12, <2>3 DEF CdPart, CdLoadPart, CdWaits
  <2>Q. QED
    BY <2>4, <2>F, <2>L, <2>O, <2>S, <2>D, CdPlainInv DEF CdPart

-----------------------------------------------------------------------------
(* Handing the mutex over *)

\* A thread t serves a thread u.
CdPair(t, u) ==
  /\ CdLocals' /\ sched' \in [Threads -> SchedStates]
  /\ \A v \in Threads \ {t, u} :
       /\ pc'[v] = pc[v] /\ timed'[v] = timed[v] /\ sched'[v] = sched[v]
       /\ held'[v] = held[v] /\ inMutex'[v] = inMutex[v]
       /\ Contains(mq', v) <=> Contains(mq, v)
       /\ Contains(sq', v) <=> Contains(sq, v)
       /\ Contains(batch', v) <=> Contains(batch, v)
       /\ v \in toAwake' <=> v \in toAwake
       /\ owner' = v <=> owner = v
       /\ owner = v => count' = count
  /\ UNCHANGED <<fifo, exists, stopped, saves, faults>>
  /\ toSleep = {} /\ toSleep' = {} /\ redoLoaded' = redoLoaded
  /\ guard \in {t, NoThread} /\ guard' \in {t, NoThread}
  /\ owner' \in Threads \union {NoThread} /\ count' \in 0..MaxLocks
  /\ mq' \in Seq(Threads) /\ sq' \in Seq(Threads) /\ batch' \in Seq(Threads)
  /\ toAwake' \subseteq Threads
  /\ CdListInv'

(***************************************************************************)
(* Such a step keeps the invariant if it does so for the two.              *)
(***************************************************************************)
LEMMA CdPairInv ==
  ASSUME CdInv, NEW t \in Threads, NEW u \in Threads, CdPair(t, u), CdPart(t)', CdPart(u)'
  PROVE  CdInv'
<1> USE ThreadsAssumption
<1>1. CdTypes /\ CdFaultInv
  BY DEF CdInv, CdGlobal
<1>2. \A v \in Threads \ {t, u} : CdSame(v)
  BY <1>1 DEF CdPair, CdSame, CdTypes
<1>3. CdCalm
  BY DEF CdPair, CdCalm
<1>4. CdTypes'
  BY <1>1 DEF CdPair, CdTypes, ObjTypeOK, CdLocals
<1>5. CdFaultInv'
  BY <1>1 DEF CdPair, CdFaultInv
<1>6. CdListInv'
  BY DEF CdPair
<1>7. QED
  BY <1>2, <1>3, <1>4, <1>5, <1>6, CdFrame DEF CdGlobal

(***************************************************************************)
(* schedule finds the next thread in the queue.                            *)
(***************************************************************************)
LEMMA CdServed ==
  ASSUME NEW q \in Seq(Threads), q # <<>>, NEW u, u \in ServedFirst(q) \/ u \in MostUrgent(q)
  PROVE  u \in Threads /\ Contains(q, u)
<1>1. Len(q) \in 1..Len(q) /\ Last(q) = q[Len(q)]
  BY DEF Last
<1>2. PICK i \in 1..Len(q) : u = q[i]
  BY <1>1 DEF ServedFirst, MostUrgent
<1>3. QED
  BY <1>2 DEF Contains

(***************************************************************************)
(* A thread has been taken out of all queues and owns the mutex; it has    *)
(* been awakened, or will be.                                              *)
(***************************************************************************)
LEMMA CdGiven ==
  ASSUME CdInv, NEW u \in Threads, pc[u] \in CdWaits,
         pc'[u] = pc[u], timed'[u] = timed[u], held'[u] = held[u], faults' = faults, saves' = saves,
         guard' # u, redoLoaded' = redoLoaded, toSleep = {}, toSleep' = {},
         owner' = u, saves = 0 => count' = 0,
         ~Contains(mq', u), ~Contains(sq', u), ~Contains(batch', u),
         IF u \in toAwake' THEN sched'[u] = sched[u] /\ (CdListed(u) \/ u \in toAwake)
         ELSE sched'[u] = IF sched[u] = "asleep" THEN "ready"
                          ELSE IF sched[u] = "on" /\ pc[u] = "l_sleep" THEN "cancelled" ELSE sched[u]
  PROVE  CdPart(u)'
<1>1. CdTypes /\ CdPart(u)
  BY DEF CdInv, CdGlobal
<1>2. ~CdListed(u)'
  BY DEF CdListed
<1>3. held[u] = 0 /\ u \notin redoLoaded
  BY <1>1 DEF CdPart, CdOwnPart, CdWaits, CdFree, CdTypes, CdLocals
<1>4. sched[u] \in SchedStates
  BY <1>1 DEF CdTypes, ObjTypeOK
<1>F. CdFaultPart(u)'
  BY <1>1, <1>3 DEF CdPart, CdFaultPart, CdWaits, CdGuards
<1>L. CdListPart(u)'
  BY <1>2 DEF CdListPart
<1>O. CdOwnPart(u)'
  BY <1>2, <1>3 DEF CdOwnPart, CdWaits, CdFree
<1>S. CdSchedPart(u)'
  BY <1>1, <1>2, <1>4 DEF CdPart, CdSchedPart, CdWaits, CdCalls, SchedStates
<1>D. CdLoadPart(u)'
  BY <1>3 DEF CdLoadPart, CdWaits
<1>Q. QED
  BY <1>F, <1>L, <1>O, <1>S, <1>D DEF CdPart

(***************************************************************************)
(* unlock passes the mutex on.                                             *)
(***************************************************************************)
LEMMA CdUnlockReown ==
  ASSUME CdInv, NEW t \in Threads, UnlockReown(t)
  PROVE  CdInv'
<1> USE ThreadsAssumption, LocksAssumption
<1>1. CdTypes /\ CdFaultInv /\ CdListInv /\ CdPart(t)
  BY DEF CdInv, CdGlobal
<1>U. UNCHANGED <<fifo, exists, stopped, toSleep, saves, faults, sched, count, sq, batch, saved,
                  inMutex, redoLoaded, held>>
  BY DEF UnlockReown, world
<1>2. /\ pc[t] = "u_lock" /\ guard = NoThread /\ owner = t /\ count = 0 /\ sched[t] = "on"
      /\ toAwake = {} /\ batch = <<>> /\ toSleep = {} /\ redoLoaded = {} /\ held[t] = 0
  BY <1>1 DEF UnlockReown, CdPart, CdOwnPart, CdSchedPart, CdLoadPart, CdListInv, CdCalls, CdWaits,
              CdFree, PCs, CdTypes, CdLocals
<1>3. /\ ~Contains(mq, t) /\ ~Contains(sq, t) /\ ~Contains(batch, t) /\ ~CdListed(t)
  BY <1>1, <1>2 DEF CdPart, CdListPart, CdListed, CdWaits, CdCondWaits
<1>4. /\ mq \in Seq(Threads) /\ sq \in Seq(Threads) /\ batch \in Seq(Threads)
      /\ Distinct(mq) /\ Distinct(sq) /\ Distinct(batch)
  BY <1>1 DEF CdTypes, CdListInv
<1>5. timed[t] \in BOOLEAN /\ 0 \in 0..MaxLocks
  BY <1>1 DEF CdTypes, CdLocals
<1>a. CASE mq = <<>>
  <2>1. PICK l \in PCs : l = "idle"
    BY DEF PCs
  <2>2. timed[t] \in BOOLEAN /\ Enter(t, l, timed[t])
    BY <1>5, <1>a, <2>1 DEF UnlockReown, Goto
  <2>3. /\ pc' \in [Threads -> PCs] /\ timed' \in [Threads -> BOOLEAN]
        /\ pc'[t] = "idle" /\ timed'[t] = timed[t]
        /\ \A v \in Threads \ {t} : pc'[v] = pc[v] /\ timed'[v] = timed[v]
    BY <1>1, <2>1, <2>2, CdEnters
  <2>4. owner' = NoThread /\ UNCHANGED <<guard, mq, toAwake>>
    BY <1>a DEF UnlockReown
  <2>5. CdPlain(t)
    BY <1>1, <1>2, <1>5, <1>a, <2>3, <2>4, <1>U DEF CdPlain, CdTypes, ObjTypeOK, CdLocals, CdQueueStep
  <2>F. CdFaultPart(t)'
    BY <1>1, <1>2, <2>3, <2>4, <1>U DEF CdPart, CdFaultPart, CdTimeLabels, CdSaveLabels, CdGuards
  <2>L. CdListPart(t)'
    BY <1>2, <1>3, <2>4, <1>U DEF CdListPart
  <2>O. CdOwnPart(t)'
    BY <1>2, <1>3, <2>3, <2>4, <1>U DEF CdOwnPart, CdFree, CdWaits
  <2>S. CdSchedPart(t)'
    BY <1>2, <2>3, <1>U DEF CdSchedPart, CdCalls, CdWaits
  <2>D. CdLoadPart(t)'
    BY <1>2, <2>3, <1>U DEF CdLoadPart
  <2>Q. QED
    BY <2>5, <2>F, <2>L, <2>O, <2>S, <2>D, CdPlainInv DEF CdPart
<1>b. ASSUME NEW u \in ServedFirst(mq), mq # <<>>, owner' = u, Again(u), Goto(t, "a_unlock"),
             UNCHANGED <<guard, mq, toAwake>>
      PROVE  CdInv'
  <2>1. PICK l \in PCs : l = "a_unlock"
    BY DEF PCs
  <2>2. timed[t] \in BOOLEAN /\ Enter(t, l, timed[t])
    BY <1>5, <1>b, <2>1 DEF Goto
  <2>3. /\ pc' \in [Threads -> PCs] /\ timed' \in [Threads -> BOOLEAN]
        /\ pc'[t] = "a_unlock" /\ timed'[t] = timed[t]
        /\ \A v \in Threads \ {t} : pc'[v] = pc[v] /\ timed'[v] = timed[v]
    BY <1>1, <2>1, <2>2, CdEnters
  <2>4. u \in Threads /\ Contains(mq, u)
    BY <1>4, <1>b, CdServed
  <2>5. CdPart(u) /\ pc[u] \in {"a_lock", "a_cond"} /\ u # t
    BY <1>2, <1>b, <2>4 DEF CdInv, Again
  <2>6. "save" \in faults /\ held[u] = 0
    BY <1>1, <2>4, <2>5 DEF CdPart, CdFaultPart, CdSaveLabels, CdOwnPart, CdFree, CdTypes, CdLocals
  <2>7. CdListInv'
    BY <1>2, <1>4, <1>b, <2>4, <1>U DEF CdListInv
  <2>8. CdPair(t, u)
    BY <1>1, <1>2, <1>4, <1>b, <2>3, <2>4, <2>7, <1>U DEF CdPair, CdTypes, ObjTypeOK, CdLocals
  <2>9. CdListed(u)' <=> CdListed(u)
    BY <1>b, <1>U DEF CdListed
  <2>10. CdPart(u)'
    <3>1. pc'[u] = pc[u] /\ timed'[u] = timed[u]
      BY <2>3, <2>4, <2>5
    <3>F. CdFaultPart(u)'
      BY <1>b, <2>5, <3>1, <1>U DEF CdPart, CdFaultPart
    <3>L. CdListPart(u)'
      BY <1>b, <2>5, <2>9, <3>1, <1>U DEF CdPart, CdListPart
    <3>O. CdOwnPart(u)'
      BY <1>b, <2>5, <2>6, <3>1, <1>U DEF CdOwnPart, CdFree, CdWaits
    <3>S. CdSchedPart(u)'
      BY <1>b, <2>5, <2>9, <3>1, <1>U DEF CdPart, CdSchedPart
    <3>D. CdLoadPart(u)'
      BY <1>2, <2>5, <3>1, <1>U DEF CdLoadPart
    <3>Q. QED
      BY <3>F, <3>L, <3>O, <3>S, <3>D DEF CdPart
  <2>11. CdPart(t)'
    <3>F. CdFaultPart(t)'
      BY <1>1, <1>2, <1>b, <2>3, <2>6, <1>U DEF CdPart, CdFaultPart, CdTimeLabels, CdSaveLabels, CdGuards
    <3>L. CdListPart(t)'
      BY <1>2, <1>3, <1>b, <1>U DEF CdListPart
    <3>O. CdOwnPart(t)'
      BY <1>2, <1>b, <2>3, <2>5, <1>U DEF CdOwnPart, CdFree, CdWaits
    <3>S. CdSchedPart(t)'
      BY <1>2, <2>3, <1>U DEF CdSchedPart, CdCalls, CdWaits
    <3>D. CdLoadPart(t)'
      BY <1>2, <2>3, <1>U DEF CdLoadPart
    <3>Q. QED
      BY <3>F, <3>L, <3>O, <3>S, <3>D DEF CdPart
  <2>12. QED
    BY <2>4, <2>8, <2>10, <2>11, CdPairInv
<1>c. ASSUME NEW u \in ServedFirst(mq), mq # <<>>, owner' = u, ~Again(u), Goto(t, "wake"),
             mq' = Without(mq, u), toAwake' = {u}, guard' = t
      PROVE  CdInv'
  <2>1. PICK l \in PCs : l = "wake"
    BY DEF PCs
  <2>2. timed[t] \in BOOLEAN /\ Enter(t, l, timed[t])
    BY <1>5, <1>c, <2>1 DEF Goto
  <2>3. /\ pc' \in [Threads -> PCs] /\ timed' \in [Threads -> BOOLEAN]
        /\ pc'[t] = "wake" /\ timed'[t] = timed[t]
        /\ \A v \in Threads \ {t} : pc'[v] = pc[v] /\ timed'[v] = timed[v]
    BY <1>1, <2>1, <2>2, CdEnters
  <2>4. u \in Threads /\ Contains(mq, u)
    BY <1>4, <1>c, CdServed
  <2>5. CdPart(u) /\ pc[u] \in CdWaits /\ u # t /\ ~Contains(sq, u) /\ ~Contains(batch, u) /\ CdListed(u)
    BY <1>3, <1>c, <2>4 DEF CdInv, CdPart, CdListPart, Again, CdListed
  <2>6. /\ mq' \in Seq(Threads) /\ Distinct(mq') /\ \A v : Contains(mq', v) <=> Contains(mq, v) /\ v # u
    BY <1>4, <1>c, RemoveFirstHas DEF Without
  <2>7. CdListInv'
    BY <1>4, <1>c, <2>4, <2>6, <1>U, ThreadsAssumption DEF CdListInv
  <2>8. CdPair(t, u)
    BY <1>1, <1>2, <1>4, <1>c, <2>3, <2>4, <2>6, <2>7, <1>U DEF CdPair, CdTypes, ObjTypeOK, CdLocals
  <2>9. CdPart(u)'
    <3>1. /\ pc'[u] = pc[u] /\ timed'[u] = timed[u] /\ held'[u] = held[u] /\ guard' # u
          /\ ~Contains(mq', u) /\ ~Contains(sq', u) /\ ~Contains(batch', u)
          /\ sched'[u] = sched[u] /\ u \in toAwake' /\ owner' = u
      BY <1>c, <2>3, <2>4, <2>5, <2>6, <1>U
    <3>2. faults' = faults /\ saves' = saves /\ redoLoaded' = redoLoaded /\ toSleep' = {} /\ count' = 0
      BY <1>2, <1>U
    <3>3. QED
      BY <1>2, <2>4, <2>5, <3>1, <3>2, CdGiven
  <2>10. CdPart(t)'
    <3>0. ~CdListed(t)' /\ ~Contains(mq', t) /\ ~Contains(sq', t) /\ ~Contains(batch', t) /\ t \notin toAwake'
      BY <1>3, <1>c, <2>5, <2>6, <1>U DEF CdListed
    <3>F. CdFaultPart(t)'
      BY <1>1, <1>2, <1>c, <2>3, <1>U DEF CdPart, CdFaultPart, CdTimeLabels, CdSaveLabels, CdGuards
    <3>L. CdListPart(t)'
      BY <3>0 DEF CdListPart
    <3>O. CdOwnPart(t)'
      BY <1>2, <1>c, <2>3, <2>5, <1>U DEF CdOwnPart, CdFree, CdWaits
    <3>S. CdSchedPart(t)'
      BY <1>2, <2>3, <1>U DEF CdSchedPart, CdCalls, CdWaits
    <3>D. CdLoadPart(t)'
      BY <1>2, <2>3, <1>U DEF CdLoadPart
    <3>Q. QED
      BY <3>F, <3>L, <3>O, <3>S, <3>D DEF CdPart
  <2>11. QED
    BY <2>4, <2>8, <2>9, <2>10, CdPairInv
<1>Q. QED
  BY <1>a, <1>b, <1>c DEF UnlockReown

(***************************************************************************)
(* wait queues the thread, passes the mutex on and sleeps.                 *)
(***************************************************************************)
LEMMA CdWaitSleep ==
  ASSUME CdInv, NEW t \in Threads, WaitSleep(t)
  PROVE  CdInv'
<1> USE ThreadsAssumption, LocksAssumption
<1>1. CdTypes /\ CdFaultInv /\ CdListInv /\ CdPart(t)
  BY DEF CdInv, CdGlobal
<1>U. /\ UNCHANGED <<fifo, exists, stopped, saves, faults, guard, batch, toAwake, inMutex,
                     redoLoaded, held>>
      /\ count' = 0
  BY DEF WaitSleep
<1>2. /\ pc[t] = "c_lock" /\ t \notin redoLoaded /\ guard = NoThread /\ owner = t /\ sched[t] = "on"
      /\ toAwake = {} /\ batch = <<>> /\ held[t] = 0
  BY <1>1 DEF WaitSleep, CdPart, CdOwnPart, CdSchedPart, CdListInv, CdCalls, CdWaits,
              CdFree, PCs, CdTypes, CdLocals
<1>0. toSleep = {} /\ redoLoaded = {}
  BY <1>1, <1>2 DEF CdPart, CdLoadPart, CdTypes
<1>3. /\ ~Contains(mq, t) /\ ~Contains(sq, t) /\ ~Contains(batch, t) /\ ~CdListed(t)
  BY <1>1, <1>2 DEF CdPart, CdListPart, CdListed, CdWaits, CdCondWaits
<1>4. /\ mq \in Seq(Threads) /\ sq \in Seq(Threads) /\ batch \in Seq(Threads)
      /\ Distinct(mq) /\ Distinct(sq) /\ Distinct(batch)
  BY <1>1 DEF CdTypes, CdListInv
<1>5. timed[t] \in BOOLEAN /\ 0 \in 0..MaxLocks /\ count \in 0..MaxLocks
  BY <1>1 DEF CdTypes, CdLocals
<1>6. ASSUME Goto(t, "c_wait"), sq' = <<t>> \o sq, saved' = [saved EXCEPT ![t] = count]
      PROVE  /\ pc' \in [Threads -> PCs] /\ timed' \in [Threads -> BOOLEAN]
             /\ pc'[t] = "c_wait" /\ timed'[t] = timed[t]
             /\ \A v \in Threads \ {t} : pc'[v] = pc[v] /\ timed'[v] = timed[v]
             /\ sq' \in Seq(Threads) /\ Distinct(sq')
             /\ \A v : Contains(sq', v) <=> Contains(sq, v) \/ v = t
             /\ saved' \in [Threads -> 0..MaxLocks]
  <2>1. PICK l \in PCs : l = "c_wait"
    BY DEF PCs
  <2>2. timed[t] \in BOOLEAN /\ Enter(t, l, timed[t])
    BY <1>5, <1>6, <2>1 DEF Goto
  <2>3. /\ pc' \in [Threads -> PCs] /\ timed' \in [Threads -> BOOLEAN]
        /\ pc'[t] = "c_wait" /\ timed'[t] = timed[t]
        /\ \A v \in Threads \ {t} : pc'[v] = pc[v] /\ timed'[v] = timed[v]
    BY <1>1, <2>1, <2>2, CdEnters
  <2>4. /\ sq' \in Seq(Threads) /\ Distinct(sq')
        /\ \A v : Contains(sq', v) <=> Contains(sq, v) \/ v = t
    BY <1>3, <1>4, <1>6, PushIs
  <2>5. saved' \in [Threads -> 0..MaxLocks]
    BY <1>1, <1>5, <1>6 DEF CdTypes, CdLocals
  <2>6. QED
    BY <2>3, <2>4, <2>5
<1>7. ASSUME pc'[t] = "c_wait", timed'[t] = timed[t], Contains(sq', t), ~Contains(mq', t),
             sched'[t] = "asleep", toSleep' = {}, owner' # t
      PROVE  CdPart(t)'
  <2>1. CdListed(t)' /\ ~Contains(batch', t) /\ t \notin toAwake'
    BY <1>2, <1>3, <1>7, <1>U DEF CdListed
  <2>F. CdFaultPart(t)'
    BY <1>1, <1>2, <1>7, <1>U DEF CdPart, CdFaultPart, CdTimeLabels, CdSaveLabels, CdGuards
  <2>L. CdListPart(t)'
    BY <1>7, <2>1 DEF CdListPart, CdCondWaits
  <2>O. CdOwnPart(t)'
    BY <1>2, <1>7, <2>1, <1>U DEF CdOwnPart, CdFree, CdWaits
  <2>S. CdSchedPart(t)'
    BY <1>7, <2>1 DEF CdSchedPart, CdCalls, CdWaits
  <2>D. CdLoadPart(t)'
    BY <1>0, <1>7, <1>U DEF CdLoadPart
  <2>Q. QED
    BY <2>F, <2>L, <2>O, <2>S, <2>D DEF CdPart
<1>a. ASSUME mq = <<>>, owner' = NoThread, SleepAndAwaken(t, {}), UNCHANGED mq, sq' = <<t>> \o sq,
             saved' = [saved EXCEPT ![t] = count], Goto(t, "c_wait")
      PROVE  CdInv'
  <2>1. /\ pc' \in [Threads -> PCs] /\ timed' \in [Threads -> BOOLEAN]
        /\ pc'[t] = "c_wait" /\ timed'[t] = timed[t]
        /\ \A v \in Threads \ {t} : pc'[v] = pc[v] /\ timed'[v] = timed[v]
        /\ sq' \in Seq(Threads) /\ Distinct(sq')
        /\ \A v : Contains(sq', v) <=> Contains(sq, v) \/ v = t
        /\ saved' \in [Threads -> 0..MaxLocks]
    BY <1>6, <1>a
  <2>2. /\ sched' \in [Threads -> SchedStates] /\ sched'[t] = "asleep"
        /\ \A v \in Threads \ {t} : sched'[v] = sched[v]
        /\ toSleep' = {} /\ toSleep' = toSleep
    BY <1>0, <1>1, <1>a DEF SleepAndAwaken, CdTypes, ObjTypeOK, SchedStates
  <2>3. CdPlain(t)
    BY <1>0, <1>1, <1>2, <1>5, <1>a, <2>1, <2>2, <1>U DEF CdPlain, CdTypes, ObjTypeOK, CdLocals, CdQueueStep
  <2>4. ~Contains(mq', t) /\ Contains(sq', t) /\ owner' # t
    BY <1>3, <1>a, <2>1
  <2>5. CdPart(t)'
    BY <1>7, <2>1, <2>2, <2>4
  <2>6. QED
    BY <2>3, <2>5, CdPlainInv
<1>b. ASSUME NEW u \in ServedFirst(mq), mq # <<>>, owner' = u, Again(u), Goto(t, "a_cond"),
             UNCHANGED <<sched, toSleep, mq, sq, saved>>
      PROVE  CdInv'
  <2>1. PICK l \in PCs : l = "a_cond"
    BY DEF PCs
  <2>2. timed[t] \in BOOLEAN /\ Enter(t, l, timed[t])
    BY <1>5, <1>b, <2>1 DEF Goto
  <2>3. /\ pc' \in [Threads -> PCs] /\ timed' \in [Threads -> BOOLEAN]
        /\ pc'[t] = "a_cond" /\ timed'[t] = timed[t]
        /\ \A v \in Threads \ {t} : pc'[v] = pc[v] /\ timed'[v] = timed[v]
    BY <1>1, <2>1, <2>2, CdEnters
  <2>4. u \in Threads /\ Contains(mq, u)
    BY <1>4, <1>b, CdServed
  <2>5. CdPart(u) /\ pc[u] \in {"a_lock", "a_cond"} /\ u # t
    BY <1>2, <1>b, <2>4 DEF CdInv, Again
  <2>6. "save" \in faults /\ held[u] = 0
    BY <1>1, <2>4, <2>5 DEF CdPart, CdFaultPart, CdSaveLabels, CdOwnPart, CdFree, CdTypes, CdLocals
  <2>7. CdListInv'
    BY <1>2, <1>4, <1>b, <2>4, <1>U DEF CdListInv
  <2>8. CdPair(t, u)
    BY <1>0, <1>1, <1>2, <1>4, <1>5, <1>b, <2>3, <2>4, <2>7, <1>U DEF CdPair, CdTypes, ObjTypeOK, CdLocals
  <2>9. CdListed(u)' <=> CdListed(u)
    BY <1>b, <1>U DEF CdListed
  <2>10. CdPart(u)'
    <3>1. pc'[u] = pc[u] /\ timed'[u] = timed[u]
      BY <2>3, <2>4, <2>5
    <3>F. CdFaultPart(u)'
      BY <1>b, <2>5, <3>1, <1>U DEF CdPart, CdFaultPart
    <3>L. CdListPart(u)'
      BY <1>b, <2>5, <2>9, <3>1, <1>U DEF CdPart, CdListPart
    <3>O. CdOwnPart(u)'
      BY <1>b, <2>5, <2>6, <3>1, <1>U DEF CdOwnPart, CdFree, CdWaits
    <3>S. CdSchedPart(u)'
      BY <1>b, <2>5, <2>9, <3>1, <1>U DEF CdPart, CdSchedPart
    <3>D. CdLoadPart(u)'
      BY <1>0, <1>b, <2>5, <3>1, <1>U DEF CdLoadPart
    <3>Q. QED
      BY <3>F, <3>L, <3>O, <3>S, <3>D DEF CdPart
  <2>11. CdPart(t)'
    <3>0. ~CdListed(t)' /\ ~Contains(mq', t) /\ ~Contains(sq', t) /\ ~Contains(batch', t) /\ t \notin toAwake'
      BY <1>2, <1>3, <1>b, <1>U DEF CdListed
    <3>F. CdFaultPart(t)'
      BY <1>1, <1>2, <1>b, <2>3, <2>6, <1>U DEF CdPart, CdFaultPart, CdTimeLabels, CdSaveLabels, CdGuards
    <3>L. CdListPart(t)'
      BY <3>0 DEF CdListPart
    <3>O. CdOwnPart(t)'
      BY <1>2, <1>b, <2>3, <2>5, <1>U DEF CdOwnPart, CdFree, CdWaits
    <3>S. CdSchedPart(t)'
      BY <1>2, <1>b, <2>3, <3>0 DEF CdSchedPart, CdCalls, CdWaits
    <3>D. CdLoadPart(t)'
      BY <1>0, <1>b, <2>3, <1>U DEF CdLoadPart
    <3>Q. QED
      BY <3>F, <3>L, <3>O, <3>S, <3>D DEF CdPart
  <2>12. QED
    BY <2>4, <2>8, <2>10, <2>11, CdPairInv
<1>c. ASSUME NEW u \in ServedFirst(mq), mq # <<>>, owner' = u, ~Again(u), mq' = Without(mq, u),
             SleepAndAwaken(t, {u}), sq' = <<t>> \o sq, saved' = [saved EXCEPT ![t] = count],
             Goto(t, "c_wait")
      PROVE  CdInv'
  <2>1. /\ pc' \in [Threads -> PCs] /\ timed' \in [Threads -> BOOLEAN]
        /\ pc'[t] = "c_wait" /\ timed'[t] = timed[t]
        /\ \A v \in Threads \ {t} : pc'[v] = pc[v] /\ timed'[v] = timed[v]
        /\ sq' \in Seq(Threads) /\ Distinct(sq')
        /\ \A v : Contains(sq', v) <=> Contains(sq, v) \/ v = t
        /\ saved' \in [Threads -> 0..MaxLocks]
    BY <1>6, <1>c
  <2>4. u \in Threads /\ Contains(mq, u)
    BY <1>4, <1>c, CdServed
  <2>5. CdPart(u) /\ pc[u] \in CdWaits /\ u # t /\ ~Contains(sq, u) /\ ~Contains(batch, u) /\ CdListed(u)
    BY <1>3, <1>c, <2>4 DEF CdInv, CdPart, CdListPart, Again, CdListed
  <2>2. /\ sched' \in [Threads -> SchedStates] /\ sched'[t] = "asleep"
        /\ \A v \in Threads \ {t, u} : sched'[v] = sched[v]
        /\ sched'[u] = IF sched[u] = "asleep" THEN "ready"
                       ELSE IF sched[u] = "on" /\ pc[u] = "l_sleep" THEN "cancelled" ELSE sched[u]
        /\ toSleep' = {}
    BY <1>0, <1>1, <1>c, <2>4, <2>5 DEF SleepAndAwaken, CdTypes, ObjTypeOK, SchedStates
  <2>6. /\ mq' \in Seq(Threads) /\ Distinct(mq') /\ \A v : Contains(mq', v) <=> Contains(mq, v) /\ v # u
    BY <1>4, <1>c, RemoveFirstHas DEF Without
  <2>7. CdListInv'
    BY <1>2, <1>4, <1>c, <2>1, <2>4, <2>6, <1>U DEF CdListInv
  <2>8. CdPair(t, u)
    BY <1>0, <1>1, <1>2, <1>4, <1>5, <1>c, <2>1, <2>2, <2>4, <2>6, <2>7, <1>U
    DEF CdPair, CdTypes, ObjTypeOK, CdLocals
  <2>9. CdPart(u)'
    <3>1. /\ pc'[u] = pc[u] /\ timed'[u] = timed[u] /\ held'[u] = held[u] /\ guard' # u
          /\ ~Contains(mq', u) /\ ~Contains(sq', u) /\ ~Contains(batch', u)
          /\ u \notin toAwake' /\ owner' = u
      BY <1>2, <1>c, <2>1, <2>4, <2>5, <2>6, <1>U
    <3>2. faults' = faults /\ saves' = saves /\ redoLoaded' = redoLoaded /\ toSleep' = {} /\ count' = 0
      BY <2>2, <1>U
    <3>3. QED
      BY <1>0, <2>2, <2>4, <2>5, <3>1, <3>2, CdGiven
  <2>10. ~Contains(mq', t) /\ Contains(sq', t) /\ owner' # t
    BY <1>3, <1>c, <2>1, <2>5, <2>6
  <2>11. CdPart(t)'
    BY <1>7, <2>1, <2>2, <2>10
  <2>12. QED
    BY <2>4, <2>8, <2>9, <2>11, CdPairInv
<1>Q. QED
  BY <1>a, <1>b, <1>c DEF WaitSleep

(***************************************************************************)
(* awake, at the end of unlock and of the signal calls.                    *)
(***************************************************************************)
LEMMA CdWake ==
  ASSUME CdInv, NEW t \in Threads, Wake(t)
  PROVE  CdInv'
<1> USE ThreadsAssumption, LocksAssumption
<1>1. CdTypes /\ CdFaultInv /\ CdListInv /\ CdPart(t)
  BY DEF CdInv, CdGlobal
<1>U. /\ UNCHANGED <<fifo, exists, stopped, toSleep, saves, faults, owner, mq, count, sq, batch, saved,
                     inMutex, redoLoaded, held>>
      /\ toAwake' = {} /\ guard' = NoThread
  BY DEF Wake, world, Return
<1>2. pc[t] = "wake" /\ guard = t /\ sched[t] = "on" /\ toSleep = {} /\ redoLoaded = {}
  BY <1>1 DEF Wake, CdPart, CdFaultPart, CdGuards, CdSchedPart, CdLoadPart, CdCalls, CdWaits, PCs, CdTypes
<1>3. /\ ~Contains(mq, t) /\ ~Contains(sq, t) /\ ~Contains(batch, t) /\ ~CdListed(t) /\ t \notin toAwake
  BY <1>1, <1>2 DEF CdPart, CdListPart, CdListed, CdWaits, CdCondWaits
<1>4. batch = <<>>
  BY <1>1, <1>2 DEF CdPart, CdFaultPart
<1>5. PICK l \in PCs : l = "idle"
  BY DEF PCs
<1>6. FALSE \in BOOLEAN /\ Enter(t, l, FALSE)
  BY <1>5 DEF Wake, Return
<1>7. /\ pc' \in [Threads -> PCs] /\ timed' \in [Threads -> BOOLEAN]
      /\ pc'[t] = "idle" /\ timed'[t] = FALSE
      /\ \A v \in Threads \ {t} : pc'[v] = pc[v] /\ timed'[v] = timed[v]
  BY <1>1, <1>5, <1>6, CdEnters
<1>8. /\ sched' \in [Threads -> SchedStates]
      /\ \A v \in Threads : sched'[v] = IF v \in toAwake
           THEN IF sched[v] = "asleep" THEN "ready"
                ELSE IF sched[v] = "on" /\ pc[v] = "l_sleep" THEN "cancelled" ELSE sched[v]
           ELSE sched[v]
  BY <1>1 DEF Wake, AwakenOrCancel, CdTypes, ObjTypeOK, SchedStates
<1>9. sched'[t] = "on"
  BY <1>2, <1>3, <1>8
<1>10. CdPart(t)'
  <2>0. ~CdListed(t)' /\ ~Contains(mq', t) /\ ~Contains(sq', t) /\ ~Contains(batch', t) /\ t \notin toAwake'
    BY <1>3, <1>U DEF CdListed
  <2>F. CdFaultPart(t)'
    BY <1>1, <1>2, <1>7, <1>U DEF CdPart, CdFaultPart, CdTimeLabels, CdSaveLabels, CdGuards
  <2>L. CdListPart(t)'
    BY <2>0 DEF CdListPart
  <2>O. CdOwnPart(t)'
    BY <1>1, <1>2, <1>7, <2>0, <1>U DEF CdPart, CdOwnPart, CdFree, CdWaits
  <2>S. CdSchedPart(t)'
    BY <1>7, <1>9 DEF CdSchedPart, CdCalls, CdWaits
  <2>D. CdLoadPart(t)'
    BY <1>2, <1>7, <1>U DEF CdLoadPart
  <2>Q. QED
    BY <2>F, <2>L, <2>O, <2>S, <2>D DEF CdPart
<1>11. CdListInv'
  BY <1>1, <1>4, <1>U DEF CdListInv
<1>a. CASE toAwake = {}
  <2>1. CdPair(t, t)
    BY <1>1, <1>2, <1>7, <1>8, <1>11, <1>a, <1>U DEF CdPair, CdTypes, ObjTypeOK, CdLocals
  <2>2. QED
    BY <1>10, <2>1, CdPairInv
<1>b. CASE toAwake # {}
  <2>1. PICK u \in Threads : toAwake = {u} /\ owner = u
    BY <1>1, <1>b DEF CdListInv, CdTypes
  <2>2. /\ u # t /\ CdPart(u) /\ pc[u] \in CdWaits
        /\ ~Contains(mq, u) /\ ~Contains(sq, u) /\ ~Contains(batch, u)
    BY <1>3, <2>1 DEF CdInv, CdPart, CdListPart, CdListed
  <2>3. saves = 0 => count = 0
    BY <2>1, <2>2 DEF CdPart, CdOwnPart
  <2>4. /\ pc'[u] = pc[u] /\ timed'[u] = timed[u] /\ held'[u] = held[u] /\ guard' # u
        /\ ~Contains(mq', u) /\ ~Contains(sq', u) /\ ~Contains(batch', u)
        /\ u \notin toAwake' /\ owner' = u
    BY <1>7, <2>1, <2>2, <1>U
  <2>5. /\ faults' = faults /\ saves' = saves /\ redoLoaded' = redoLoaded /\ toSleep' = {}
        /\ saves = 0 => count' = 0
    BY <1>2, <2>3, <1>U
  <2>6. sched'[u] = IF sched[u] = "asleep" THEN "ready"
                    ELSE IF sched[u] = "on" /\ pc[u] = "l_sleep" THEN "cancelled" ELSE sched[u]
    BY <1>8, <2>1
  <2>7. CdPart(u)'
    BY <1>2, <2>2, <2>4, <2>5, <2>6, CdGiven
  <2>8. CdPair(t, u)
    BY <1>1, <1>2, <1>7, <1>8, <1>11, <2>1, <1>U DEF CdPair, CdTypes, ObjTypeOK, CdLocals
  <2>9. QED
    BY <1>10, <2>7, <2>8, CdPairInv
<1>Q. QED
  BY <1>a, <1>b

-----------------------------------------------------------------------------
(* The signal calls serve the waiters *)

(***************************************************************************)
(* A waiter of the condition variable goes to another list: it keeps       *)
(* sleeping.                                                               *)
(***************************************************************************)
LEMMA CdMoved ==
  ASSUME CdInv, NEW u \in Threads, pc[u] \in CdCondWaits, CdListed(u), CdListed(u)',
         pc'[u] = pc[u], timed'[u] = timed[u], held'[u] = held[u], sched'[u] = sched[u],
         faults' = faults, saves' = saves, owner' = owner, count' = count,
         guard' # u, redoLoaded' = redoLoaded, toSleep = {}, toSleep' = {}, u \notin toAwake',
         ~Contains(sq', u), ~(Contains(batch', u) /\ Contains(mq', u))
  PROVE  CdPart(u)'
<1>1. CdTypes /\ CdPart(u)
  BY DEF CdInv, CdGlobal
<1>2. u \notin redoLoaded
  BY <1>1 DEF CdTypes
<1>F. CdFaultPart(u)'
  BY <1>1, <1>2 DEF CdPart, CdFaultPart, CdCondWaits, CdGuards
<1>L. CdListPart(u)'
  BY DEF CdListPart, CdCondWaits, CdWaits
<1>O. CdOwnPart(u)'
  BY <1>1 DEF CdPart, CdOwnPart
<1>S. CdSchedPart(u)'
  BY <1>1 DEF CdPart, CdSchedPart, CdCondWaits, CdWaits, CdCalls
<1>D. CdLoadPart(u)'
  BY <1>2 DEF CdLoadPart, CdCondWaits
<1>Q. QED
  BY <1>F, <1>L, <1>O, <1>S, <1>D DEF CdPart

(***************************************************************************)
(* signal and signal_to make a waiter the owner or a waiter of the mutex.  *)
(***************************************************************************)
LEMMA CdServe ==
  ASSUME CdInv, NEW t \in Threads, NEW u \in Threads, pc[t] \in {"s_lock", "d_lock"},
         guard = NoThread, Contains(sq, u), ~Again(u), Serve(t, u),
         UNCHANGED <<world, sched, count, batch, saved, inMutex, redoLoaded, held>>
  PROVE  CdInv'
<1> USE ThreadsAssumption, LocksAssumption
<1>1. CdTypes /\ CdFaultInv /\ CdListInv /\ CdPart(t) /\ CdPart(u)
  BY DEF CdInv, CdGlobal
<1>U. UNCHANGED <<fifo, exists, stopped, toSleep, saves, faults, sched, count, batch, saved,
                  inMutex, redoLoaded, held>>
  BY DEF world
<1>2. /\ sched[t] = "on" /\ toAwake = {} /\ batch = <<>> /\ toSleep = {} /\ redoLoaded = {}
  BY <1>1 DEF CdPart, CdSchedPart, CdLoadPart, CdListInv, CdCalls, CdWaits, PCs, CdTypes
<1>3. /\ ~Contains(mq, t) /\ ~Contains(sq, t) /\ ~Contains(batch, t) /\ ~CdListed(t)
  BY <1>1 DEF CdPart, CdListPart, CdListed, CdWaits, CdCondWaits
<1>4. /\ mq \in Seq(Threads) /\ sq \in Seq(Threads) /\ batch \in Seq(Threads)
      /\ Distinct(mq) /\ Distinct(sq) /\ Distinct(batch)
  BY <1>1 DEF CdTypes, CdListInv
<1>5. timed[t] \in BOOLEAN /\ u # t
  BY <1>1, <1>3 DEF CdTypes, CdLocals
<1>6. /\ pc[u] \in CdCondWaits /\ pc[u] \in CdWaits /\ CdListed(u)
      /\ ~Contains(mq, u) /\ ~Contains(batch, u)
  BY <1>1 DEF CdPart, CdListPart, Again, CdListed, CdCondWaits, CdWaits
<1>7. /\ sq' \in Seq(Threads) /\ Distinct(sq') /\ \A v : Contains(sq', v) <=> Contains(sq, v) /\ v # u
  <2>1. sq' = RemoveFirst(sq, u)
    BY DEF Serve, Without
  <2>2. QED
    BY <1>4, <2>1, RemoveFirstHas
<1>8. ASSUME NEW l \in {"wake", "idle"}, Goto(t, l), ~Contains(mq', t), t \notin toAwake',
             l = "idle" => guard' = NoThread, l = "wake" => guard' = t, owner' = t <=> owner = t
      PROVE  /\ pc' \in [Threads -> PCs] /\ timed' \in [Threads -> BOOLEAN]
             /\ pc'[t] = l /\ timed'[t] = timed[t]
             /\ \A v \in Threads \ {t} : pc'[v] = pc[v] /\ timed'[v] = timed[v]
             /\ CdPart(t)'
  <2>1. l \in PCs
    BY <1>8 DEF PCs
  <2>2. Enter(t, l, timed[t])
    BY <1>8 DEF Goto
  <2>3. /\ pc' \in [Threads -> PCs] /\ timed' \in [Threads -> BOOLEAN]
        /\ pc'[t] = l /\ timed'[t] = timed[t]
        /\ \A v \in Threads \ {t} : pc'[v] = pc[v] /\ timed'[v] = timed[v]
    BY <1>1, <1>5, <2>1, <2>2, CdEnters
  <2>4. ~CdListed(t)' /\ ~Contains(mq', t) /\ ~Contains(sq', t) /\ ~Contains(batch', t)
    BY <1>3, <1>7, <1>8, <1>U DEF CdListed
  <2>F. CdFaultPart(t)'
    BY <1>1, <1>2, <1>8, <2>3, <1>U DEF CdPart, CdFaultPart, CdTimeLabels, CdSaveLabels, CdGuards
  <2>L. CdListPart(t)'
    BY <1>8, <2>4 DEF CdListPart
  <2>O. CdOwnPart(t)'
    BY <1>1, <1>8, <2>3, <2>4, <1>U DEF CdPart, CdOwnPart, CdFree, CdWaits
  <2>S. CdSchedPart(t)'
    BY <1>2, <1>8, <2>3, <1>U DEF CdSchedPart, CdCalls, CdWaits
  <2>D. CdLoadPart(t)'
    BY <1>2, <1>8, <2>3, <1>U DEF CdLoadPart
  <2>Q. QED
    BY <2>3, <2>F, <2>L, <2>O, <2>S, <2>D DEF CdPart
<1>a. CASE owner = NoThread
  <2>1. owner' = u /\ mq' = mq /\ mq = <<>> /\ count = 0 /\ toAwake' = {u} /\ guard' = t /\ Goto(t, "wake")
    BY <1>1, <1>a DEF Serve, TryOwn, CdListInv
  <2>2. ~Contains(mq', t) /\ t \notin toAwake' /\ (owner' = t <=> owner = t)
    BY <1>3, <1>5, <1>a, <2>1
  <2>3. /\ pc' \in [Threads -> PCs] /\ timed' \in [Threads -> BOOLEAN]
        /\ pc'[t] = "wake" /\ timed'[t] = timed[t]
        /\ \A v \in Threads \ {t} : pc'[v] = pc[v] /\ timed'[v] = timed[v]
        /\ CdPart(t)'
    BY <1>8, <2>1, <2>2
  <2>4. CdListInv'
    BY <1>4, <1>7, <2>1, <1>U DEF CdListInv
  <2>5. CdPair(t, u)
    BY <1>1, <1>2, <1>4, <1>7, <1>a, <2>1, <2>3, <2>4, <1>U DEF CdPair, CdTypes, ObjTypeOK, CdLocals
  <2>6. /\ pc'[u] = pc[u] /\ timed'[u] = timed[u] /\ held'[u] = held[u] /\ guard' # u
        /\ ~Contains(mq', u) /\ ~Contains(sq', u) /\ ~Contains(batch', u)
        /\ sched'[u] = sched[u] /\ u \in toAwake' /\ owner' = u
    BY <1>5, <1>6, <1>7, <2>1, <2>3, <1>U
  <2>7. faults' = faults /\ saves' = saves /\ redoLoaded' = redoLoaded /\ toSleep' = {} /\ count' = 0
    BY <1>2, <2>1, <1>U
  <2>8. CdPart(u)'
    BY <1>2, <1>6, <2>6, <2>7, CdGiven
  <2>9. QED
    BY <2>3, <2>5, <2>8, CdPairInv
<1>b. CASE owner # NoThread
  <2>1. owner' = owner /\ mq' = <<u>> \o mq /\ toAwake' = toAwake /\ guard' = guard /\ Goto(t, "idle")
    BY <1>b DEF Serve, TryOwn
  <2>2. /\ mq' \in Seq(Threads) /\ Distinct(mq') /\ \A v : Contains(mq', v) <=> Contains(mq, v) \/ v = u
    BY <1>4, <1>6, <2>1, PushIs
  <2>3. ~Contains(mq', t) /\ t \notin toAwake' /\ (owner' = t <=> owner = t) /\ guard' = NoThread
    BY <1>2, <1>3, <1>5, <2>1, <2>2
  <2>4. /\ pc' \in [Threads -> PCs] /\ timed' \in [Threads -> BOOLEAN]
        /\ pc'[t] = "idle" /\ timed'[t] = timed[t]
        /\ \A v \in Threads \ {t} : pc'[v] = pc[v] /\ timed'[v] = timed[v]
        /\ CdPart(t)'
    BY <1>8, <2>1, <2>3
  <2>5. CdListInv'
    BY <1>1, <1>4, <1>7, <1>b, <2>1, <2>2, <1>U DEF CdListInv
  <2>6. CdPair(t, u)
    BY <1>1, <1>2, <1>4, <1>7, <2>1, <2>2, <2>4, <2>5, <1>U DEF CdPair, CdTypes, ObjTypeOK, CdLocals
  <2>7. /\ pc'[u] = pc[u] /\ timed'[u] = timed[u] /\ held'[u] = held[u] /\ guard' # u
        /\ ~Contains(sq', u) /\ ~(Contains(batch', u) /\ Contains(mq', u)) /\ CdListed(u)'
        /\ sched'[u] = sched[u] /\ u \notin toAwake'
    BY <1>2, <1>5, <1>6, <1>7, <2>1, <2>2, <2>4, <1>U DEF CdListed
  <2>8. faults' = faults /\ saves' = saves /\ redoLoaded' = redoLoaded /\ toSleep' = {} /\ count' = count
    BY <1>2, <1>U
  <2>9. CdPart(u)'
    BY <1>2, <1>6, <2>1, <2>7, <2>8, CdMoved
  <2>10. QED
    BY <2>4, <2>6, <2>9, CdPairInv
<1>Q. QED
  BY <1>a, <1>b

(***************************************************************************)
(* signal and signal_to.                                                   *)
(***************************************************************************)
LEMMA CdSignalOne ==
  ASSUME CdInv, NEW t \in Threads, SignalOne(t) \/ \E u \in Threads \ {t} : SignalTo(t, u)
  PROVE  CdInv'
<1>1. CdTypes /\ CdPart(t)
  BY DEF CdInv, CdGlobal
<1>2. /\ pc[t] \in {"s_lock", "d_lock"} /\ guard = NoThread
      /\ UNCHANGED <<world, sched, count, batch, saved, inMutex, redoLoaded, held>>
  BY DEF SignalOne, SignalTo
<1>3. pc[t] \in CdFree /\ pc[t] \notin CdGuards /\ pc[t] # "idle" /\ toSleep = {}
  BY <1>1, <1>2 DEF CdFree, CdGuards, CdPart, CdLoadPart
<1>4. ASSUME NEW l \in {"idle", "a_signal", "a_to"}, Goto(t, l), l # "idle" => "save" \in faults,
             UNCHANGED <<sq, owner, mq, toAwake, guard>>
      PROVE  CdInv'
  <2>1. l \in CdFree /\ l \notin CdGuards /\ l # "wake" /\ (l \in CdSaveLabels => "save" \in faults)
    BY <1>4 DEF CdFree, CdGuards, CdSaveLabels
  <2>2. UNCHANGED <<world, guard, sched, own>>
    BY <1>2, <1>4 DEF own
  <2>3. QED
    BY <1>3, <1>4, <2>1, <2>2, CdQuietInv
<1>5. ASSUME NEW u \in Threads, Again(u) PROVE "save" \in faults
  BY <1>5 DEF CdInv, CdPart, CdFaultPart, CdSaveLabels, Again
<1>6. CASE SignalOne(t)
  <2>1. CASE sq = <<>>
    BY <1>4, <1>6, <2>1 DEF SignalOne
  <2>2. CASE sq # <<>>
    <3>1. PICK u \in ServedFirst(sq) :
             IF Again(u) THEN Goto(t, "a_signal") /\ UNCHANGED <<sq, owner, mq, toAwake, guard>>
             ELSE Serve(t, u)
      BY <1>6, <2>2 DEF SignalOne
    <3>2. sq \in Seq(Threads)
      BY <1>1 DEF CdTypes
    <3>3. u \in Threads /\ Contains(sq, u)
      BY <2>2, <3>2, CdServed
    <3>4. CASE Again(u)
      BY <1>4, <1>5, <3>1, <3>3, <3>4
    <3>5. CASE ~Again(u)
      BY <1>2, <3>1, <3>3, <3>5, CdServe
    <3>6. QED
      BY <3>4, <3>5
  <2>3. QED
    BY <2>1, <2>2
<1>7. ASSUME NEW u \in Threads \ {t}, SignalTo(t, u) PROVE CdInv'
  <2>1. CASE ~Contains(sq, u)
    BY <1>4, <1>7, <2>1 DEF SignalTo
  <2>2. CASE Contains(sq, u) /\ Again(u)
    <3>1. Goto(t, "a_to") /\ UNCHANGED <<sq, owner, mq, toAwake, guard>> /\ "save" \in faults
      BY <1>5, <1>7, <2>2 DEF SignalTo
    <3>2. QED
      BY <1>4, <3>1
  <2>3. CASE Contains(sq, u) /\ ~Again(u)
    <3>1. Serve(t, u)
      BY <1>7, <2>3 DEF SignalTo
    <3>2. QED
      BY <1>2, <2>3, <3>1, CdServe
  <2>4. QED
    BY <2>1, <2>2, <2>3
<1>8. QED
  BY <1>6, <1>7

(***************************************************************************)
(* signal_all takes the whole queue.                                       *)
(***************************************************************************)
LEMMA CdSignalAll ==
  ASSUME CdInv, NEW t \in Threads, SignalAll(t)
  PROVE  CdInv'
<1> USE ThreadsAssumption, LocksAssumption
<1>1. CdTypes /\ CdFaultInv /\ CdListInv /\ CdPart(t)
  BY DEF CdInv, CdGlobal
<1>U. UNCHANGED <<fifo, exists, stopped, toSleep, saves, faults, sched, owner, mq, count, toAwake, saved,
                  inMutex, redoLoaded, held>>
  BY DEF SignalAll, world
<1>2. /\ pc[t] = "b_lock" /\ guard = NoThread /\ sched[t] = "on" /\ toAwake = {} /\ batch = <<>>
      /\ toSleep = {} /\ redoLoaded = {}
  BY <1>1 DEF SignalAll, CdPart, CdSchedPart, CdLoadPart, CdListInv, CdCalls, CdWaits, PCs, CdTypes
<1>3. /\ ~Contains(mq, t) /\ ~Contains(sq, t) /\ ~Contains(batch, t) /\ ~CdListed(t)
  BY <1>1, <1>2 DEF CdPart, CdListPart, CdListed, CdWaits, CdCondWaits
<1>4. sq \in Seq(Threads) /\ Distinct(sq) /\ timed[t] \in BOOLEAN
  BY <1>1 DEF CdTypes, CdListInv, CdLocals
<1>a. CASE \E i \in 1..Len(sq) : Again(sq[i])
  <2>1. Goto(t, "a_all") /\ UNCHANGED <<sq, batch, guard>>
    BY <1>a DEF SignalAll
  <2>2. PICK i \in 1..Len(sq) : Again(sq[i])
    BY <1>a
  <2>3. sq[i] \in Threads
    BY <1>4
  <2>4. "save" \in faults
    BY <2>2, <2>3 DEF CdInv, CdPart, CdFaultPart, CdSaveLabels, Again
  <2>5. PICK l \in CdFree : l = "a_all"
    BY DEF CdFree
  <2>6. l \notin CdGuards /\ pc[t] \in CdFree /\ pc[t] \notin CdGuards
    BY <1>2, <2>5 DEF CdFree, CdGuards
  <2>7. UNCHANGED <<world, guard, sched, own>>
    BY <2>1, <1>U DEF own, world
  <2>8. QED
    BY <1>2, <2>1, <2>4, <2>5, <2>6, <2>7, CdQuietInv
<1>b. CASE ~\E i \in 1..Len(sq) : Again(sq[i])
  <2>1. sq' = <<>> /\ batch' = sq /\ guard' = t /\ Goto(t, "b_own")
    BY <1>b DEF SignalAll
  <2>2. PICK l \in PCs : l = "b_own"
    BY DEF PCs
  <2>3. Enter(t, l, timed[t])
    BY <2>1, <2>2 DEF Goto
  <2>4. /\ pc' \in [Threads -> PCs] /\ timed' \in [Threads -> BOOLEAN]
        /\ pc'[t] = "b_own" /\ timed'[t] = timed[t]
        /\ \A v \in Threads \ {t} : pc'[v] = pc[v] /\ timed'[v] = timed[v]
    BY <1>1, <1>4, <2>2, <2>3, CdEnters
  <2>5. \A v : ~Contains(sq', v) /\ ~Contains(batch, v) /\ (Contains(batch', v) <=> Contains(sq, v))
    BY <1>2, <2>1 DEF Contains
  <2>6. CdTypes'
    <3>1. ObjTypeOK(PCs)'
      BY <1>1, <2>1, <2>4, <1>U DEF CdTypes, ObjTypeOK
    <3>2. CdLocals'
      BY <1>1, <2>4, <1>U DEF CdTypes, CdLocals
    <3>3. sq' \in Seq(Threads) /\ batch' \in Seq(Threads)
      BY <1>4, <2>1
    <3>4. QED
      BY <1>1, <3>1, <3>2, <3>3, <1>U DEF CdTypes
  <2>7. CdFaultInv'
    BY <1>1, <1>U DEF CdFaultInv
  <2>8. CdListInv'
    <3>1. Distinct(sq')
      BY <2>1 DEF Distinct
    <3>2. QED
      BY <1>1, <1>2, <1>4, <2>1, <3>1, <1>U DEF CdListInv
  <2>9. CdCalm
    BY <1>2, <1>U DEF CdCalm
  <2>10. CdPart(t)'
    <3>1. ~CdListed(t)' /\ ~Contains(mq', t) /\ ~Contains(sq', t) /\ ~Contains(batch', t) /\ t \notin toAwake'
      BY <1>2, <1>3, <2>5, <1>U DEF CdListed
    <3>F. CdFaultPart(t)'
      BY <1>1, <1>2, <2>1, <2>4, <1>U DEF CdPart, CdFaultPart, CdTimeLabels, CdSaveLabels, CdGuards
    <3>L. CdListPart(t)'
      BY <3>1 DEF CdListPart
    <3>O. CdOwnPart(t)'
      BY <1>1, <1>2, <2>4, <3>1, <1>U DEF CdPart, CdOwnPart, CdFree, CdWaits
    <3>S. CdSchedPart(t)'
      BY <1>2, <2>4, <1>U DEF CdSchedPart, CdCalls, CdWaits
    <3>D. CdLoadPart(t)'
      BY <1>2, <2>4, <1>U DEF CdLoadPart
    <3>Q. QED
      BY <3>F, <3>L, <3>O, <3>S, <3>D DEF CdPart
  <2>11. ASSUME NEW v \in Threads \ {t}, Contains(sq, v) PROVE CdPart(v)'
    <3>1. PICK i \in 1..Len(sq) : sq[i] = v
      BY <2>11 DEF Contains
    <3>2. ~Again(v) /\ CdPart(v)
      BY <1>b, <3>1 DEF CdInv
    <3>3. pc[v] \in CdCondWaits /\ CdListed(v) /\ ~Contains(mq, v)
      BY <2>11, <3>2 DEF CdPart, CdListPart, Again, CdListed
    <3>4. /\ pc'[v] = pc[v] /\ timed'[v] = timed[v] /\ held'[v] = held[v] /\ guard' # v
          /\ ~Contains(sq', v) /\ ~(Contains(batch', v) /\ Contains(mq', v)) /\ CdListed(v)'
          /\ sched'[v] = sched[v] /\ v \notin toAwake'
      BY <1>2, <2>1, <2>4, <2>5, <2>11, <3>3, <1>U DEF CdListed
    <3>5. /\ faults' = faults /\ saves' = saves /\ redoLoaded' = redoLoaded /\ toSleep' = {}
          /\ count' = count /\ owner' = owner
      BY <1>2, <1>U
    <3>6. QED
      BY <1>2, <3>3, <3>4, <3>5, CdMoved
  <2>12. ASSUME NEW v \in Threads \ {t}, ~Contains(sq, v) PROVE CdSame(v)
    BY <1>2, <2>1, <2>4, <2>5, <2>12, <1>U DEF CdSame
  <2>13. QED
    BY <2>6, <2>7, <2>8, <2>9, <2>10, <2>11, <2>12, CdFrame DEF CdGlobal
<1>Q. QED
  BY <1>a, <1>b

(***************************************************************************)
(* signal_all serves one of the threads it has taken.                      *)
(***************************************************************************)
LEMMA CdSignalAllOwn ==
  ASSUME CdInv, NEW t \in Threads, SignalAllOwn(t)
  PROVE  CdInv'
<1> USE ThreadsAssumption, LocksAssumption
<1>1. CdTypes /\ CdFaultInv /\ CdListInv /\ CdPart(t)
  BY DEF CdInv, CdGlobal
<1>U. UNCHANGED <<fifo, exists, stopped, toSleep, saves, faults, guard, pc, timed, sched, count, sq,
                  saved, inMutex, redoLoaded, held>>
  BY DEF SignalAllOwn, world
<1>2. /\ pc[t] = "b_own" /\ batch # <<>> /\ guard = t /\ toSleep = {} /\ redoLoaded = {}
  BY <1>1 DEF SignalAllOwn, CdPart, CdFaultPart, CdGuards, CdLoadPart, CdTypes
<1>3. /\ mq \in Seq(Threads) /\ sq \in Seq(Threads) /\ batch \in Seq(Threads)
      /\ Distinct(mq) /\ Distinct(sq) /\ Distinct(batch)
  BY <1>1 DEF CdTypes, CdListInv
<1>4. PICK u \in MostUrgent(batch) :
        /\ batch' = Without(batch, u)
        /\ TryOwn(u)
        /\ toAwake' = IF owner = NoThread THEN toAwake \union {u} ELSE toAwake
  BY DEF SignalAllOwn
<1>5. u \in Threads /\ Contains(batch, u)
  BY <1>2, <1>3, <1>4, CdServed
<1>6. /\ CdPart(u) /\ pc[u] \in CdCondWaits /\ pc[u] \in CdWaits /\ CdListed(u) /\ u # t
      /\ ~Contains(mq, u) /\ ~Contains(sq, u) /\ u \notin toAwake
  BY <1>2, <1>5 DEF CdInv, CdPart, CdListPart, CdListed, CdCondWaits, CdWaits
<1>7. /\ batch' \in Seq(Threads) /\ Distinct(batch')
      /\ \A v : Contains(batch', v) <=> Contains(batch, v) /\ v # u
  <2>1. batch' = RemoveFirst(batch, u)
    BY <1>4 DEF Without
  <2>2. QED
    BY <1>3, <2>1, RemoveFirstHas
<1>8. CdCalm
  BY <1>2, <1>U DEF CdCalm
<1>a. CASE owner = NoThread
  <2>1. owner' = u /\ mq' = mq /\ mq = <<>> /\ count = 0 /\ toAwake' = {u} /\ toAwake = {}
    BY <1>1, <1>4, <1>a DEF TryOwn, CdListInv, CdTypes
  <2>2. CdListInv'
    BY <1>2, <1>3, <1>5, <1>7, <2>1, <1>U DEF CdListInv
  <2>3. CdPair(t, u)
    BY <1>1, <1>2, <1>3, <1>5, <1>7, <1>a, <2>1, <2>2, <1>U DEF CdPair, CdTypes, ObjTypeOK, CdLocals
  <2>4. CdSame(t)
    BY <1>2, <1>6, <1>7, <1>a, <2>1, <1>U DEF CdSame
  <2>5. CdPart(t)'
    BY <1>1, <1>8, <2>4, CdPartKept
  <2>6. /\ pc'[u] = pc[u] /\ timed'[u] = timed[u] /\ held'[u] = held[u] /\ guard' # u
        /\ ~Contains(mq', u) /\ ~Contains(sq', u) /\ ~Contains(batch', u)
        /\ sched'[u] = sched[u] /\ u \in toAwake' /\ owner' = u
    BY <1>2, <1>6, <1>7, <2>1, <1>U
  <2>7. faults' = faults /\ saves' = saves /\ redoLoaded' = redoLoaded /\ toSleep' = {} /\ count' = 0
    BY <1>2, <2>1, <1>U
  <2>8. CdPart(u)'
    BY <1>2, <1>5, <1>6, <2>6, <2>7, CdGiven
  <2>9. QED
    BY <1>5, <2>3, <2>5, <2>8, CdPairInv
<1>b. CASE owner # NoThread
  <2>1. owner' = owner /\ mq' = <<u>> \o mq /\ toAwake' = toAwake
    BY <1>4, <1>b DEF TryOwn
  <2>2. /\ mq' \in Seq(Threads) /\ Distinct(mq') /\ \A v : Contains(mq', v) <=> Contains(mq, v) \/ v = u
    BY <1>3, <1>5, <1>6, <2>1, PushIs
  <2>3. CdListInv'
    BY <1>1, <1>2, <1>3, <1>7, <1>b, <2>1, <2>2, <1>U DEF CdListInv
  <2>4. CdPair(t, u)
    BY <1>1, <1>2, <1>3, <1>7, <2>1, <2>2, <2>3, <1>U DEF CdPair, CdTypes, ObjTypeOK, CdLocals
  <2>5. CdSame(t)
    BY <1>2, <1>6, <1>7, <2>1, <2>2, <1>U DEF CdSame
  <2>6. CdPart(t)'
    BY <1>1, <1>8, <2>5, CdPartKept
  <2>7. /\ pc'[u] = pc[u] /\ timed'[u] = timed[u] /\ held'[u] = held[u] /\ guard' # u
        /\ ~Contains(sq', u) /\ ~(Contains(batch', u) /\ Contains(mq', u)) /\ CdListed(u)'
        /\ sched'[u] = sched[u] /\ u \notin toAwake'
    BY <1>2, <1>6, <1>7, <2>1, <2>2, <1>U DEF CdListed
  <2>8. faults' = faults /\ saves' = saves /\ redoLoaded' = redoLoaded /\ toSleep' = {} /\ count' = count
    BY <1>2, <1>U
  <2>9. CdPart(u)'
    BY <1>2, <1>5, <1>6, <2>1, <2>7, <2>8, CdMoved
  <2>10. QED
    BY <1>5, <2>4, <2>6, <2>9, CdPairInv
<1>Q. QED
  BY <1>a, <1>b

-----------------------------------------------------------------------------
(* The environment *)

(***************************************************************************)
(* sys_cond_destroy.                                                       *)
(***************************************************************************)
LEMMA CdDestroy ==
  ASSUME CdInv, NEW t \in Threads, Destroy(t)
  PROVE  CdInv'
<1>1. CdTypes /\ CdPart(t)
  BY DEF CdInv, CdGlobal
<1>U. /\ UNCHANGED <<fifo, stopped, toSleep, saves, faults, guard, pc, timed, sched, owner, mq, count,
                     sq, batch, toAwake, saved, inMutex, redoLoaded, held>>
      /\ exists' = FALSE
  BY DEF Destroy, own
<1>2. CdSame(t) /\ CdCalm
  BY <1>U DEF CdSame, CdCalm
<1>3. CdPart(t)'
  BY <1>1, <1>2, CdPartKept
<1>4. CdPlain(t)
  BY <1>1, <1>U DEF CdPlain, CdTypes, ObjTypeOK, CdLocals, CdQueueStep
<1>5. QED
  BY <1>3, <1>4, CdPlainInv

(***************************************************************************)
(* An awakened thread is signalled.                                        *)
(***************************************************************************)
LEMMA CdSchedule ==
  ASSUME CdInv, NEW t \in Threads, Schedule(t)
  PROVE  CdInv'
<1>1. CdTypes /\ CdPart(t)
  BY DEF CdInv, CdGlobal
<1>U. UNCHANGED <<fifo, exists, stopped, toSleep, saves, faults, guard, pc, timed, owner, mq, count,
                  sq, batch, toAwake, saved, inMutex, redoLoaded, held>>
  BY DEF Schedule, ObjSchedule, own, world
<1>2. sched[t] = "ready" /\ sched' = [sched EXCEPT ![t] = "signal"]
  BY DEF Schedule, ObjSchedule
<1>3. /\ sched' \in [Threads -> SchedStates] /\ sched'[t] = "signal"
      /\ \A v \in Threads \ {t} : sched'[v] = sched[v]
  BY <1>1, <1>2 DEF CdTypes, ObjTypeOK, SchedStates
<1>4. CdPlain(t)
  BY <1>1, <1>3, <1>U DEF CdPlain, CdTypes, ObjTypeOK, CdLocals, CdQueueStep
<1>5. CdListed(t)' <=> CdListed(t)
  BY <1>U DEF CdListed
<1>F. CdFaultPart(t)'
  BY <1>1, <1>U DEF CdPart, CdFaultPart
<1>L. CdListPart(t)'
  BY <1>1, <1>5, <1>U DEF CdPart, CdListPart
<1>O. CdOwnPart(t)'
  BY <1>1, <1>5, <1>U DEF CdPart, CdOwnPart
<1>S. CdSchedPart(t)'
  BY <1>1, <1>2, <1>3, <1>5, <1>U DEF CdPart, CdSchedPart
<1>D. CdLoadPart(t)'
  BY <1>1, <1>5, <1>U DEF CdPart, CdLoadPart
<1>Q. QED
  BY <1>4, <1>F, <1>L, <1>O, <1>S, <1>D, CdPlainInv DEF CdPart

(***************************************************************************)
(* A thread is told to stop.                                               *)
(***************************************************************************)
LEMMA CdStopThread ==
  ASSUME CdInv, NEW t \in Threads, StopThread(t)
  PROVE  CdInv'
<1>1. CdTypes /\ CdFaultInv /\ CdListInv /\ CdPart(t)
  BY DEF CdInv, CdGlobal
<1>U. UNCHANGED <<fifo, exists, toSleep, saves, faults, guard, pc, timed, sched, owner, mq, count,
                  sq, batch, toAwake, saved, inMutex, redoLoaded, held>>
  BY DEF StopThread, ObjStop, own
<1>2. "save" \in faults /\ saves < MaxSaves /\ stopped' = stopped \union {t}
  BY DEF StopThread, ObjStop
<1>3. CdCalm
  BY <1>U DEF CdCalm
<1>4. \A v \in Threads \ {t} : CdSame(v)
  BY <1>2, <1>U DEF CdSame
<1>5. CdListed(t)' <=> CdListed(t)
  BY <1>U DEF CdListed
<1>6. CdPart(t)'
  <2>F. CdFaultPart(t)'
    BY <1>1, <1>U DEF CdPart, CdFaultPart
  <2>L. CdListPart(t)'
    BY <1>1, <1>5, <1>U DEF CdPart, CdListPart
  <2>O. CdOwnPart(t)'
    BY <1>1, <1>5, <1>U DEF CdPart, CdOwnPart
  <2>S. CdSchedPart(t)'
    BY <1>1, <1>2, <1>5, <1>U DEF CdPart, CdSchedPart
  <2>D. CdLoadPart(t)'
    BY <1>1, <1>5, <1>U DEF CdPart, CdLoadPart
  <2>Q. QED
    BY <2>F, <2>L, <2>O, <2>S, <2>D DEF CdPart
<1>7. CdTypes'
  BY <1>1, <1>2, <1>U DEF CdTypes, ObjTypeOK, CdLocals
<1>8. CdFaultInv'
  BY <1>2, <1>U DEF CdFaultInv
<1>9. CdListInv'
  BY <1>1, <1>U DEF CdListInv
<1>10. QED
  BY <1>3, <1>4, <1>6, <1>7, <1>8, <1>9, CdFrame DEF CdGlobal

(***************************************************************************)
(* The state is saved and loaded.                                          *)
(***************************************************************************)
LEMMA CdSaveAndLoad ==
  ASSUME CdInv, SaveAndLoad
  PROVE  CdInv'
<1> USE ThreadsAssumption
<1>1. CdTypes /\ CdFaultInv /\ CdListInv
  BY DEF CdInv, CdGlobal
<1>U. UNCHANGED <<fifo, exists, guard, timed, faults, owner, count, batch, toAwake, saved, inMutex, held>>
  BY DEF SaveAndLoad, ObjSaveAndLoad
<1>2. /\ stopped = Threads /\ saves' = saves + 1 /\ stopped' = {}
      /\ mq' = <<>> /\ sq' = <<>>
      /\ toSleep' = {t \in Threads : pc[t] # "idle" /\ sched[t] = "asleep"}
      /\ sched' = [t \in Threads |-> "on"]
      /\ redoLoaded' = {t \in toSleep' : pc[t] = "a_cond"}
      /\ pc' = [t \in Threads |-> IF pc[t] = "idle" THEN "idle" ELSE Redo[pc[t]]]
  BY DEF SaveAndLoad, ObjSaveAndLoad
<1>3. \A t \in Threads : pc[t] \in {"idle", "a_lock", "a_unlock", "a_cond", "a_signal", "a_all", "a_to"}
  BY DEF SaveAndLoad, ObjSaveAndLoad, Redo
<1>4. "save" \in faults /\ saves < MaxSaves /\ saves \in 0..MaxSaves
  BY <1>1, <1>2, MainThreadAssumption DEF CdFaultInv, CdTypes, ObjTypeOK
<1>5. saves' \in 0..MaxSaves /\ saves' > 0 /\ saves' # 0
  BY <1>2, <1>4, SavesAssumption
<1>6. guard = NoThread /\ toAwake = {} /\ batch = <<>>
  <2>1. ASSUME NEW v \in Threads PROVE guard # v
    BY <1>3 DEF CdInv, CdPart, CdFaultPart, CdGuards
  <2>2. guard = NoThread
    BY <1>1, <2>1 DEF CdTypes, ObjTypeOK
  <2>3. QED
    BY <1>1, <2>2 DEF CdListInv
<1>7. \A v : ~Contains(mq', v) /\ ~Contains(sq', v) /\ ~Contains(batch', v)
  BY <1>2, <1>6, <1>U DEF Contains
<1>8. ASSUME NEW t \in Threads
      PROVE  /\ pc[t] = "idle" => pc'[t] = "idle"
             /\ pc[t] = "a_lock" => pc'[t] = "l_redo"
             /\ pc[t] = "a_unlock" => pc'[t] = "u_redo"
             /\ pc[t] = "a_cond" => pc'[t] = "c_redo"
             /\ pc[t] = "a_signal" => pc'[t] = "s_look"
             /\ pc[t] = "a_all" => pc'[t] = "b_look"
             /\ pc[t] = "a_to" => pc'[t] = "d_look"
  <2>1. pc'[t] = IF pc[t] = "idle" THEN "idle" ELSE Redo[pc[t]]
    BY <1>2
  <2>2. /\ Redo["a_lock"] = "l_redo" /\ Redo["a_unlock"] = "u_redo" /\ Redo["a_cond"] = "c_redo"
        /\ Redo["a_signal"] = "s_look" /\ Redo["a_all"] = "b_look" /\ Redo["a_to"] = "d_look"
    BY DEF Redo
  <2>3. QED
    BY <2>1, <2>2
<1>9. ASSUME NEW t \in Threads
      PROVE  pc'[t] \in {"idle", "l_redo", "u_redo", "c_redo", "s_look", "b_look", "d_look"}
  BY <1>3, <1>8
<1>10. CdTypes'
  <2>1. pc' \in [Threads -> PCs]
    <3>1. \A t \in Threads : pc'[t] \in PCs
      BY <1>9 DEF PCs
    <3>2. pc' = [t \in Threads |-> pc'[t]]
      BY <1>2
    <3>3. QED
      BY <3>1, <3>2
  <2>2. sched' \in [Threads -> SchedStates]
    BY <1>2 DEF SchedStates
  <2>3. /\ mq' \in Seq(Threads) /\ sq' \in Seq(Threads)
        /\ stopped' \subseteq Threads /\ toSleep' \subseteq Threads /\ redoLoaded' \subseteq toSleep'
    BY <1>2
  <2>4. QED
    BY <1>1, <1>5, <2>1, <2>2, <2>3, <1>U DEF CdTypes, ObjTypeOK, CdLocals
<1>11. CdFaultInv'
  BY <1>2, <1>4, <1>U DEF CdFaultInv
<1>12. CdListInv'
  <2>1. Distinct(mq') /\ Distinct(sq')
    BY <1>2 DEF Distinct
  <2>2. QED
    BY <1>1, <1>2, <1>6, <2>1, <1>U DEF CdListInv
<1>13. ASSUME NEW t \in Threads PROVE CdPart(t)'
  <2>1. CdPart(t)
    BY DEF CdInv
  <2>2. ~CdListed(t)' /\ t \notin toAwake' /\ sched'[t] = "on"
    BY <1>2, <1>6, <1>7, <1>U DEF CdListed
  <2>3. /\ t \in toSleep' <=> pc[t] # "idle" /\ sched[t] = "asleep"
        /\ t \in redoLoaded' <=> t \in toSleep' /\ pc[t] = "a_cond"
    BY <1>2
  <2>4. t \in toSleep' => pc[t] \in {"a_lock", "a_cond"}
    BY <1>3, <2>1, <2>3 DEF CdPart, CdSchedPart, CdCalls, CdWaits, PCs
  <2>5. pc[t] = "a_lock" => sched[t] = "asleep" /\ mq # <<>>
    BY <2>1 DEF CdPart, CdSchedPart, Contains
  <2>6. pc[t] = "a_cond" /\ sched[t] = "asleep" /\ inMutex[t] => mq # <<>>
    BY <2>1 DEF CdPart, CdSchedPart, Contains
  <2>7. mq # <<>> => owner' # NoThread
    BY <1>1, <1>U DEF CdListInv
  <2>F. CdFaultPart(t)'
    BY <1>4, <1>5, <1>6, <1>9, <2>1, <1>U DEF CdPart, CdFaultPart, CdTimeLabels, CdGuards
  <2>L. CdListPart(t)'
    BY <1>7, <2>2 DEF CdListPart
  <2>O. CdOwnPart(t)'
    <3>1. held[t] > 0 => owner = t /\ held[t] <= count + 1 /\ pc'[t] \in CdFree
      BY <1>3, <1>8, <2>1 DEF CdPart, CdOwnPart, CdFree
    <3>2. QED
      BY <1>5, <1>9, <2>2, <3>1, <1>U DEF CdOwnPart, CdWaits
  <2>S. CdSchedPart(t)'
    BY <1>9, <2>2 DEF CdSchedPart, CdWaits
  <2>D. CdLoadPart(t)'
    <3>1. pc'[t] = "l_redo" => t \in toSleep' /\ owner' # NoThread
      BY <1>3, <1>8, <2>3, <2>5, <2>7
    <3>2. t \in toSleep' => pc'[t] \in {"l_redo", "c_redo"}
      BY <1>8, <2>4
    <3>3. t \in redoLoaded' => pc'[t] = "c_redo"
      BY <1>8, <2>3
    <3>4. t \in toSleep' /\ pc'[t] = "c_redo" => t \in redoLoaded' /\ (inMutex'[t] => owner' # NoThread)
      BY <1>8, <2>3, <2>4, <2>6, <2>7, <1>U
    <3>5. QED
      BY <1>9, <3>1, <3>2, <3>3, <3>4 DEF CdLoadPart, CdWaits
  <2>Q. QED
    BY <2>F, <2>L, <2>O, <2>S, <2>D DEF CdPart
<1>14. QED
  BY <1>10, <1>11, <1>12, <1>13 DEF CdInv, CdGlobal

-----------------------------------------------------------------------------
(* The condition variable: every step *)

(***************************************************************************)
(* The invariant holds at first.                                           *)
(***************************************************************************)
LEMMA CdInitInv ==
  ASSUME Init
  PROVE  CdInv
<1> USE ThreadsAssumption, LocksAssumption, SavesAssumption DEF Init, ObjInit
<1>1. \A v : ~Contains(mq, v) /\ ~Contains(sq, v) /\ ~Contains(batch, v)
  BY DEF Contains
<1>2. CdTypes
  BY DEF CdTypes, ObjTypeOK, CdLocals, SchedStates, PCs
<1>3. CdFaultInv /\ CdListInv
  BY DEF CdFaultInv, CdListInv, Distinct
<1>4. ASSUME NEW t \in Threads PROVE CdPart(t)
  <2>1. ~CdListed(t)
    BY <1>1 DEF CdListed
  <2>2. pc[t] = "idle" /\ sched[t] = "on" /\ ~timed[t] /\ held[t] = 0 /\ owner # t /\ guard # t
    BY Zenon
  <2>F. CdFaultPart(t)
    BY <2>2 DEF CdFaultPart, CdSaveLabels, CdTimeLabels, CdGuards
  <2>L. CdListPart(t)
    BY <1>1 DEF CdListPart
  <2>O. CdOwnPart(t)
    BY <2>2 DEF CdOwnPart, CdWaits
  <2>S. CdSchedPart(t)
    BY <2>2 DEF CdSchedPart, CdWaits
  <2>D. CdLoadPart(t)
    BY <2>2 DEF CdLoadPart
  <2>Q. QED
    BY <2>F, <2>L, <2>O, <2>S, <2>D DEF CdPart
<1>5. QED
  BY <1>2, <1>3, <1>4 DEF CdInv, CdGlobal

(***************************************************************************)
(* It goes on to hold if nothing happens.                                  *)
(***************************************************************************)
LEMMA CdStutter ==
  ASSUME CdInv, UNCHANGED vars
  PROVE  CdInv'
<1>U. UNCHANGED <<fifo, exists, stopped, toSleep, saves, faults, guard, pc, timed, sched, owner, mq,
                  count, sq, batch, toAwake, saved, inMutex, redoLoaded, held>>
  BY DEF vars, objVars, own
<1>1. CdGlobal'
  BY <1>U DEF CdInv, CdGlobal, CdTypes, ObjTypeOK, CdLocals, CdFaultInv, CdListInv
<1>2. CdCalm /\ \A v \in Threads : CdSame(v)
  BY <1>U DEF CdCalm, CdSame
<1>3. QED
  BY <1>1, <1>2, CdFrame

(***************************************************************************)
(* Every step keeps the invariant.                                         *)
(***************************************************************************)
LEMMA CdNextInv ==
  ASSUME OneFault, CdInv, Next
  PROVE  CdInv'
<1>1. ASSUME NEW t \in Threads, Call(t) PROVE CdInv'
  <2>1. ASSUME NEW to \in Timeouts, Wait(t, "idle", to) PROVE CdInv'
    <3>1. to \in BOOLEAN /\ (to => "timeout" \in faults)
      BY DEF Timeouts
    <3>2. QED
      BY <2>1, <3>1, CdWait
  <2>2. QED
    BY <1>1, <2>1, CdLock, CdUnlock, CdDestroy, CdSignals DEF Call
<1>2. ASSUME NEW t \in Threads, Step(t) PROVE CdInv'
  <2>1. CASE \/ Lock(t, "l_redo") \/ LockSleep(t) \/ LockSignal(t) \/ LockStopped(t)
             \/ Unlock(t, "u_redo") \/ UnlockReown(t) \/ Wake(t)
    BY <2>1, CdLock, CdLockCancelled, CdLockSleep, CdLockSignal, CdLockStopped, CdUnlock, CdUnlockReown,
       CdWake
  <2>2. CASE Wait(t, "c_redo", timed[t])
    <3>1. timed[t] \in BOOLEAN /\ (timed[t] => "timeout" \in faults)
      BY DEF CdInv, CdGlobal, CdTypes, CdLocals, CdPart, CdFaultPart
    <3>2. QED
      BY <2>2, <3>1, CdWait
  <2>3. CASE \/ WaitSleep(t) \/ WaitReload(t) \/ WaitSignal(t) \/ WaitStopped(t) \/ TimeOutCheck(t)
             \/ TimeOutLock(t) \/ WaitReturn(t) \/ RedoEsrch(t)
    BY <2>3, CdWaitSleep, CdWaitReload, CdWaitSignal, CdWaitStopped, CdTimeOutCheck, CdTimeOutLock,
       CdWaitReturn, CdRedoEsrch
  <2>4. CASE \/ SignalStopped(t, "s_look", "a_signal") \/ SignalLook(t, "s_look", "s_lock")
             \/ SignalStopped(t, "b_look", "a_all") \/ SignalLook(t, "b_look", "b_lock")
             \/ SignalStopped(t, "d_look", "a_to") \/ SignalLook(t, "d_look", "d_lock")
             \/ SignalEmpty(t) \/ SignalAllEnd(t)
    BY <2>4, CdSignals
  <2>5. CASE \/ SignalOne(t) \/ SignalAll(t) \/ SignalAllOwn(t)
             \/ \E u \in Threads \ {t} : SignalTo(t, u)
    BY <2>5, CdSignalOne, CdSignalAll, CdSignalAllOwn
  <2>6. QED
    BY <1>2, <2>1, <2>2, <2>3, <2>4, <2>5 DEF Step
<1>3. QED
  BY <1>1, <1>2, CdTimeOut, CdSchedule, CdStopThread, CdSaveAndLoad DEF Next

-----------------------------------------------------------------------------
(* The condition variable: what its invariant says *)

(***************************************************************************)
(* In a behaviour with a condition variable its invariant always holds.    *)
(***************************************************************************)
THEOREM CondAmongLocks ==
  ASSUME OneFault
  PROVE  LocksSpec => [](kind = "cond" => CdInv)
<1>1. LocksInit => (kind = "cond" => CdInv)
  BY CdInitInv DEF LocksInit
<1>2. ASSUME kind = "cond" => CdInv, [LocksNext]_locksVars
      PROVE  (kind = "cond" => CdInv)'
  <2>1. CASE UNCHANGED locksVars
    <3>1. kind' = kind /\ UNCHANGED vars
      BY <2>1 DEF locksVars
    <3>2. QED
      BY <1>2, <3>1, CdStutter
  <2>2. CASE LocksNext
    BY <1>2, <2>2, CdNextInv DEF LocksNext
  <2>3. QED
    BY <1>2, <2>1, <2>2
<1>3. QED
  BY <1>1, <1>2, PTL DEF LocksSpec, locksVars

(***************************************************************************)
(* Condition variable: who was told that wait is over, or that the mutex   *)
(* is locked, owns the mutex, with the recursion depth that wait had put   *)
(* aside.                                                                  *)
(***************************************************************************)
THEOREM CondOwned ==
  ASSUME OneFault
  PROVE  LocksSpec => []CondOwnership
<1>1. ASSUME kind = "cond" => CdInv PROVE CondOwnership
  <2>1. SUFFICES ASSUME CdInv PROVE TypeOK /\ HeldIsOwned /\ DepthIsRestored
    BY <1>1 DEF CondOwnership
  <2>2. TypeOK
    BY <2>1 DEF TypeOK, CdInv, CdGlobal, CdTypes, CdLocals, ObjTypeOK
  <2>3. HeldIsOwned
    BY <2>1 DEF HeldIsOwned, CdInv, CdPart, CdOwnPart
  <2>4. ASSUME saves = 0, NEW t \in Threads, held[t] > 0 PROVE count = held[t] - 1
    <3>1. CdOwnPart(t) /\ count \in Nat
      BY <2>1, LocksAssumption DEF CdInv, CdPart, CdGlobal, CdTypes
    <3>2. held[t] = count + 1
      BY <2>4, <3>1 DEF CdOwnPart
    <3>3. QED
      BY <3>1, <3>2
  <2>5. QED
    BY <2>2, <2>3, <2>4 DEF DepthIsRestored
<1>2. LocksSpec => [](kind = "cond" => CdInv)
  BY CondAmongLocks
<1>3. QED
  BY <1>1, <1>2, PTL

(***************************************************************************)
(* Condition variable: the two assertions of wait hold, the one at its end *)
(* and the one with which a loaded waiter of the mutex queues itself.      *)
(***************************************************************************)
THEOREM CondEnsured ==
  ASSUME OneFault
  PROVE  LocksSpec => []CondEnsuresHold
<1>1. ASSUME kind = "cond" => CdInv PROVE CondEnsuresHold
  <2>1. SUFFICES ASSUME CdInv PROVE OwnershipVerified /\ ReloadFindsOwner
    BY <1>1 DEF CondEnsuresHold
  <2>2. OwnershipVerified
    BY <2>1 DEF OwnershipVerified, CdInv, CdPart, CdOwnPart
  <2>3. ASSUME NEW t \in Threads, pc[t] = "c_lock", t \in redoLoaded, inMutex[t]
        PROVE  owner # NoThread
    <3>1. CdLoadPart(t) /\ t \in toSleep
      BY <2>1, <2>3 DEF CdInv, CdPart, CdGlobal, CdTypes
    <3>2. QED
      BY <2>3, <3>1 DEF CdLoadPart
  <2>4. QED
    BY <2>2, <2>3 DEF ReloadFindsOwner
<1>2. LocksSpec => [](kind = "cond" => CdInv)
  BY CondAmongLocks
<1>3. QED
  BY <1>1, <1>2, PTL

(***************************************************************************)
(* Condition variable: no waiter is lost between the two queues, or in     *)
(* both, or left in front of a free mutex, and signal_all awakens only the *)
(* new owner.                                                              *)
(***************************************************************************)
THEOREM CondServed ==
  ASSUME OneFault
  PROVE  LocksSpec => []CondNobodyStranded
<1>1. ASSUME kind = "cond" => CdInv PROVE CondNobodyStranded
  <2>1. SUFFICES ASSUME CdInv PROVE NobodyStranded /\ QueueHasOwner /\ OneIsAwakened
    BY <1>1 DEF CondNobodyStranded
  <2>2. /\ mq \in Seq(Threads) /\ sq \in Seq(Threads) /\ batch \in Seq(Threads)
        /\ Distinct(mq) /\ Distinct(sq) /\ Distinct(batch)
    BY <2>1 DEF CdInv, CdGlobal, CdTypes, CdListInv
  <2>3. ASSUME NEW v \in Threads
        PROVE  /\ ~(Contains(mq, v) /\ Contains(sq, v))
               /\ Contains(batch, v) => ~Contains(mq, v) /\ ~Contains(sq, v)
    BY <2>1 DEF CdInv, CdPart, CdListPart
  <2>4. /\ mq \o sq \in Seq(Threads) /\ Distinct(mq \o sq)
        /\ \A x : Contains(mq \o sq, x) <=> Contains(mq, x) \/ Contains(sq, x)
    BY <2>2, <2>3, JoinIs
  <2>5. \A x \in Threads : ~(Contains(mq \o sq, x) /\ Contains(batch, x))
    BY <2>3, <2>4
  <2>6. /\ (mq \o sq) \o batch \in Seq(Threads) /\ Distinct((mq \o sq) \o batch)
        /\ \A x : Contains((mq \o sq) \o batch, x) <=> Contains(mq \o sq, x) \/ Contains(batch, x)
    BY Zenon, <2>2, <2>4, <2>5, JoinIs
  <2>7. NobodyStranded
    <3>1. SUFFICES ASSUME NEW t \in Threads, pc[t] \in {"c_wait", "l_wait"}, sched[t] = "asleep"
                   PROVE  Contains(mq \o sq \o batch, t) \/ t \in toAwake
      BY DEF NobodyStranded
    <3>2. CdListed(t) \/ t \in toAwake
      BY <2>1, <3>1 DEF CdInv, CdPart, CdSchedPart
    <3>3. QED
      BY <2>4, <2>6, <3>2 DEF CdListed
  <2>8. QueueHasOwner
    <3>1. mq # <<>> => owner # NoThread
      BY <2>1 DEF CdInv, CdGlobal, CdListInv
    <3>2. QED
      BY <2>6, <3>1 DEF QueueHasOwner, Distinct
  <2>9. OneIsAwakened
    BY <2>1 DEF OneIsAwakened, CdInv, CdGlobal, CdListInv
  <2>10. QED
    BY <2>7, <2>8, <2>9
<1>2. LocksSpec => [](kind = "cond" => CdInv)
  BY CondAmongLocks
<1>3. QED
  BY <1>1, <1>2, PTL

-----------------------------------------------------------------------------
(* The mutex with savestates: its invariant *)

\* The labels of calls without a timeout, under the internal mutex, and of
\* waiters; a waiter with cpu_flag::again is still queued.
MxLabels == {"idle", "y_cas", "l_cas", "l_own", "l_sleep", "l_wait", "l_redo", "a_lock", "u_cas",
             "u_lock", "u_load", "u_schedule", "u_store", "u_awake", "u_redo", "a_unlock"}
MxInside == {"u_load", "u_schedule", "u_store", "u_awake"}
MxWaits == {"l_sleep", "l_wait"}
MxUnlocks == {"u_cas", "u_lock", "u_load", "u_schedule", "u_store"}

\* Whom the holder of the internal mutex will awaken, and whom it will make
\* the owner before that.
MxAwaited ==
  IF guard \in Threads /\ pc[guard] \in {"u_store", "u_awake"} THEN next[guard] ELSE NoThread
MxElect == IF guard \in Threads /\ pc[guard] = "u_store" THEN next[guard] ELSE NoThread

MxLocals ==
  /\ pc \in [Threads -> MxLabels] /\ timed \in [Threads -> {FALSE}]
  /\ snap \in [Threads -> Mutex!Control] /\ next \in [Threads -> Threads \union {NoThread}]
  /\ held \in [Threads -> 0..MaxLocks + 1]

MxTypes ==
  /\ ObjTypeOK(MxLabels) /\ MxLocals
  /\ recursive \in BOOLEAN /\ ctl \in Mutex!Control /\ count \in 0..MaxLocks
  /\ "timeout" \notin faults /\ (stopped # {} => saves < MaxSaves)

\* Nobody is queued twice, for a free mutex or for a destroyed one.
MxListInv ==
  /\ Distinct(ctl.sq)
  /\ ctl.sq # <<>> => ctl.owner # NoThread
  /\ ctl.owner # NoThread => exists

\* What holds of each thread: its locks, ...
MxOwnPart(t) ==
  /\ held[t] > 0 => ctl.owner = t /\ pc[t] = "idle" /\ held[t] <= count + 1
  /\ pc[t] \in MxUnlocks => ctl.owner = t
  /\ pc[t] \in Mutex!UnderIdm => exists
  /\ pc[t] \in MxWaits => Contains(ctl.sq, t) \/ ctl.owner = t \/ MxElect = t

\* ... what it has read, ...
MxReadPart(t) ==
  /\ guard = t <=> pc[t] \in MxInside
  /\ pc[t] \in {"l_cas", "y_cas"} => snap[t].owner = NoThread
  /\ pc[t] = "u_cas" => snap[t].sq = <<>>
  /\ pc[t] = "u_schedule" => \A u \in Threads : Contains(snap[t].sq, u) => Contains(ctl.sq, u)
  /\ pc[t] \in {"u_store", "u_awake"} => next[t] \in Threads

\* ... and who is queued or will be awakened.
MxWaitPart(t) ==
  /\ Contains(ctl.sq, t) => pc[t] \in MxWaits \union {"a_lock"}
  /\ MxAwaited = t => \/ pc[t] \in MxWaits /\ ~Contains(ctl.sq, t)
                      \/ pc[t] = "a_lock" /\ MxElect = t
  /\ MxAwaited = t /\ MxElect # t => ctl.owner = t
  /\ pc[t] = "l_wait" => (sched[t] = "asleep" <=> Contains(ctl.sq, t) \/ MxAwaited = t)
  /\ pc[t] = "l_sleep" => /\ sched[t] \in {"on", "cancelled"}
                          /\ sched[t] = "on" <=> Contains(ctl.sq, t) \/ MxAwaited = t
  /\ pc[t] = "a_lock" => Contains(ctl.sq, t)
  /\ pc[t] \notin MxWaits \union {"idle", "a_lock"} => sched[t] = "on"
  /\ pc[t] = "idle" /\ t \notin stopped => sched[t] = "on"

MxPart(t) == MxOwnPart(t) /\ MxReadPart(t) /\ MxWaitPart(t)

MxInv == MxTypes /\ MxListInv /\ \A t \in Threads : MxPart(t)

-----------------------------------------------------------------------------
(* What a step of the mutex leaves alone *)

(***************************************************************************)
(* The module of the mutex looks into its list as this one.                *)
(***************************************************************************)
LEMMA MxSeq ==
  ASSUME NEW q, NEW x
  PROVE  /\ Mutex!Contains(q, x) <=> Contains(q, x)
         /\ Mutex!Without(q, x) = RemoveFirst(q, x)
<1>1. Mutex!Contains(q, x) <=> Contains(q, x)
  BY DEF Mutex!Contains, Contains
<1>2. Mutex!Without(q, x) = RemoveFirst(q, x)
  BY DEF Mutex!Without, Mutex!RemoveFirst, Mutex!RemoveAt, Mutex!SelectInSeq, Mutex!Min,
         RemoveFirst, RemoveAt, SelectInSeq, Min
<1>3. QED
  BY <1>1, <1>2

\* Nothing that MxPart(v) speaks of changes for v.
MxSame(v) ==
  /\ pc'[v] = pc[v] /\ snap'[v] = snap[v] /\ next'[v] = next[v] /\ held'[v] = held[v]
  /\ sched'[v] = sched[v]
  /\ Contains(ctl'.sq, v) <=> Contains(ctl.sq, v)
  /\ ctl'.owner = v <=> ctl.owner = v
  /\ ctl.owner = v => count' = count
  /\ guard' = v <=> guard = v
  /\ guard = v => \A u \in Threads : Contains(ctl.sq, u) => Contains(ctl'.sq, u)
  /\ MxAwaited' = v <=> MxAwaited = v
  /\ MxElect' = v <=> MxElect = v
  /\ v \in stopped => v \in stopped'
  /\ pc[v] \in Mutex!UnderIdm => exists' = exists

(***************************************************************************)
(* What holds of a thread goes on to hold if nothing changes for it.       *)
(***************************************************************************)
LEMMA MxPartKept ==
  ASSUME NEW v \in Threads, MxPart(v), MxSame(v)
  PROVE  MxPart(v)'
<1>1. MxOwnPart(v)'
  BY DEF MxPart, MxOwnPart, MxSame
<1>2. MxReadPart(v)'
  BY DEF MxPart, MxReadPart, MxSame, MxInside
<1>3. MxWaitPart(v)'
  BY DEF MxPart, MxWaitPart, MxSame
<1>4. QED
  BY <1>1, <1>2, <1>3 DEF MxPart

(***************************************************************************)
(* So a step is looked at only where something changes.                    *)
(***************************************************************************)
LEMMA MxFrame ==
  ASSUME MxInv, MxTypes', MxListInv', \A v \in Threads : MxSame(v) \/ MxPart(v)'
  PROVE  MxInv'
<1>1. ASSUME NEW v \in Threads PROVE MxPart(v)'
  BY <1>1, MxPartKept DEF MxInv
<1>2. QED
  BY <1>1 DEF MxInv

\* A thread t outside the internal mutex changes its own variables, and may
\* lock or free the mutex or queue itself.
MxPlain(t) ==
  /\ MxLocals' /\ sched' \in [Threads -> SchedStates]
  /\ \A v \in Threads \ {t} : /\ pc'[v] = pc[v] /\ snap'[v] = snap[v] /\ next'[v] = next[v]
                              /\ held'[v] = held[v] /\ sched'[v] = sched[v]
  /\ pc[t] \notin MxInside
  /\ UNCHANGED <<fifo, exists, stopped, saves, faults, guard, recursive>>
  /\ toSleep' \subseteq toSleep
  /\ ctl' \in Mutex!Control /\ count' \in 0..MaxLocks
  /\ \/ ctl'.sq = ctl.sq
     \/ ctl'.sq = <<t>> \o ctl.sq /\ ~Contains(ctl.sq, t) /\ ctl.owner # NoThread /\ ctl'.owner = ctl.owner
  /\ \/ ctl'.owner = ctl.owner /\ (ctl.owner = t \/ count' = count)
     \/ ctl.owner = NoThread /\ ctl'.owner = t /\ exists
     \/ ctl.owner = t /\ ctl'.owner = NoThread /\ ctl.sq = <<>>

(***************************************************************************)
(* Whoever is awaited by the holder of the internal mutex stays so.        *)
(***************************************************************************)
LEMMA MxAwaitedKept ==
  ASSUME MxInv, NEW t \in Threads, MxPlain(t)
  PROVE  MxAwaited' = MxAwaited /\ MxElect' = MxElect /\ guard # t
<1>1. guard # t /\ guard' = guard
  BY DEF MxInv, MxPart, MxReadPart, MxPlain
<1>2. guard \in Threads => pc'[guard] = pc[guard] /\ next'[guard] = next[guard]
  BY <1>1 DEF MxPlain
<1>3. QED
  BY <1>1, <1>2 DEF MxAwaited, MxElect

(***************************************************************************)
(* Such a step keeps the invariant if it does so for its thread.           *)
(***************************************************************************)
LEMMA MxPlainInv ==
  ASSUME MxInv, NEW t \in Threads, MxPlain(t), MxPart(t)'
  PROVE  MxInv'
<1> USE ThreadsAssumption
<1>1. MxTypes /\ MxListInv /\ ctl.sq \in Seq(Threads)
  BY DEF MxInv, MxTypes, Mutex!Control
<1>2. MxAwaited' = MxAwaited /\ MxElect' = MxElect
  BY MxAwaitedKept
<1>3. /\ Distinct(ctl'.sq) /\ \A v : Contains(ctl.sq, v) => Contains(ctl'.sq, v)
      /\ \A v \in Threads \ {t} : Contains(ctl'.sq, v) <=> Contains(ctl.sq, v)
  <2>1. CASE ctl'.sq = ctl.sq
    BY <1>1, <2>1 DEF MxListInv
  <2>2. CASE ctl'.sq = <<t>> \o ctl.sq /\ ~Contains(ctl.sq, t)
    BY <1>1, <2>2, PushIs DEF MxListInv
  <2>3. QED
    BY <2>1, <2>2 DEF MxPlain
<1>4. \A v \in Threads \ {t} : MxSame(v)
  BY <1>2, <1>3 DEF MxPlain, MxSame
<1>5. MxTypes'
  BY <1>1 DEF MxPlain, MxTypes, ObjTypeOK, MxLocals
<1>6. MxListInv'
  BY <1>1, <1>3 DEF MxPlain, MxListInv
<1>7. QED
  BY <1>4, <1>5, <1>6, MxFrame

(***************************************************************************)
(* Where a thread goes, and what it has in its local variables.            *)
(***************************************************************************)
LEMMA MxEnters ==
  ASSUME MxTypes, NEW t \in Threads, NEW l \in MxLabels, NEW s \in Mutex!Control,
         NEW n \in Threads \union {NoThread}, NEW b, b = FALSE, Mutex!Enter(t, l, s, n, b)
  PROVE  /\ pc' \in [Threads -> MxLabels] /\ timed' \in [Threads -> {FALSE}]
         /\ snap' \in [Threads -> Mutex!Control] /\ next' \in [Threads -> Threads \union {NoThread}]
         /\ pc'[t] = l /\ snap'[t] = s /\ next'[t] = n
         /\ \A v \in Threads \ {t} : pc'[v] = pc[v] /\ snap'[v] = snap[v] /\ next'[v] = next[v]
<1>1. MxLocals
  BY DEF MxTypes
<1>2. timed' \in [Threads -> {FALSE}]
  <2>1. timed \in [Threads -> {FALSE}] /\ timed' = [timed EXCEPT ![t] = b] /\ b \in {FALSE}
    BY <1>1 DEF MxLocals, Mutex!Enter
  <2>2. QED
    BY <2>1, Zenon
<1>3. QED
  BY <1>1, <1>2 DEF MxLocals, Mutex!Enter

(***************************************************************************)
(* How many locks a thread counts.                                         *)
(***************************************************************************)
LEMMA MxHolds ==
  ASSUME MxTypes, NEW t \in Threads, NEW n \in 0..MaxLocks + 1, held' = [held EXCEPT ![t] = n]
  PROVE  /\ held' \in [Threads -> 0..MaxLocks + 1] /\ held'[t] = n
         /\ \A v \in Threads \ {t} : held'[v] = held[v]
BY DEF MxTypes, MxLocals

(***************************************************************************)
(* What the invariant says of the word and of one thread.                  *)
(***************************************************************************)
LEMMA MxReads ==
  ASSUME MxInv, NEW t \in Threads
  PROVE  /\ MxTypes /\ MxListInv /\ MxPart(t) /\ timed[t] = FALSE /\ pc[t] \in MxLabels
         /\ held[t] \in 0..MaxLocks + 1 /\ held[t] \in Nat /\ count \in 0..MaxLocks /\ count \in Nat
         /\ MaxLocks \in Nat /\ ctl \in Mutex!Control /\ ctl.owner \in Threads \union {NoThread}
         /\ ctl.sq \in Seq(Threads) /\ ctl = [owner |-> ctl.owner, sq |-> ctl.sq]
         /\ snap[t] \in Mutex!Control /\ snap[t].owner \in Threads \union {NoThread}
         /\ snap[t].sq \in Seq(Threads) /\ Distinct(ctl.sq)
         /\ Mutex!NoSnap \in Mutex!Control /\ sched[t] \in SchedStates
<1> USE LocksAssumption
<1>1. MxTypes /\ MxListInv /\ MxPart(t) /\ MxLocals
  BY DEF MxInv, MxTypes
<1>2. timed[t] = FALSE
  BY <1>1 DEF MxLocals
<1>3. Mutex!NoSnap \in Mutex!Control
  BY DEF Mutex!NoSnap, Mutex!Control
<1>4. /\ pc[t] \in MxLabels /\ held[t] \in 0..MaxLocks + 1 /\ count \in 0..MaxLocks
      /\ ctl \in Mutex!Control /\ snap[t] \in Mutex!Control /\ sched[t] \in SchedStates /\ Distinct(ctl.sq)
  BY <1>1 DEF MxTypes, MxLocals, ObjTypeOK, MxListInv
<1>5. /\ ctl.owner \in Threads \union {NoThread} /\ ctl.sq \in Seq(Threads)
      /\ ctl = [owner |-> ctl.owner, sq |-> ctl.sq]
      /\ snap[t].owner \in Threads \union {NoThread} /\ snap[t].sq \in Seq(Threads)
  BY <1>4 DEF Mutex!Control
<1>6. held[t] \in Nat /\ count \in Nat /\ MaxLocks \in Nat
  BY <1>4
<1>7. QED
  BY <1>1, <1>2, <1>3, <1>4, <1>5, <1>6

-----------------------------------------------------------------------------
(* Steps of the mutex outside its internal mutex *)

\* The labels of a thread that is neither waiting nor under the internal mutex.
MxRuns == {"idle", "y_cas", "l_cas", "l_own", "l_redo", "u_cas", "u_lock", "u_redo", "a_unlock"}

(***************************************************************************)
(* A thread that runs goes on running, and may lock or free the mutex.     *)
(***************************************************************************)
LEMMA MxQuiet ==
  ASSUME MxInv, NEW t \in Threads, pc[t] \in MxRuns, pc[t] = "idle" => t \notin stopped,
         NEW l \in MxRuns, NEW s \in Mutex!Control, NEW b, b = FALSE, Mutex!Enter(t, l, s, NoThread, b),
         NEW n \in 0..MaxLocks + 1, held' = [held EXCEPT ![t] = n],
         ctl' \in Mutex!Control, ctl'.sq = ctl.sq, count' \in 0..MaxLocks,
         \/ ctl'.owner = ctl.owner /\ (ctl.owner = t \/ count' = count)
         \/ ctl.owner = NoThread /\ ctl'.owner = t /\ exists
         \/ ctl.owner = t /\ ctl'.owner = NoThread /\ ctl.sq = <<>>,
         UNCHANGED <<fifo, exists, stopped, toSleep, saves, faults, recursive, guard, sched>>,
         n > 0 => ctl'.owner = t /\ l = "idle" /\ n <= count' + 1,
         l \in {"u_cas", "u_lock"} => ctl'.owner = t,
         l \in Mutex!UnderIdm => exists,
         l \in {"l_cas", "y_cas"} => s.owner = NoThread,
         l = "u_cas" => s.sq = <<>>
  PROVE  MxInv'
<1> USE ThreadsAssumption
<1>1. MxTypes /\ MxPart(t)
  BY MxReads
<1>2. l \in MxLabels /\ l \notin MxInside /\ pc[t] \notin MxInside /\ NoThread \in Threads \union {NoThread}
  BY DEF MxLabels, MxRuns, MxInside
<1>3. /\ pc' \in [Threads -> MxLabels] /\ timed' \in [Threads -> {FALSE}]
      /\ snap' \in [Threads -> Mutex!Control] /\ next' \in [Threads -> Threads \union {NoThread}]
      /\ pc'[t] = l /\ snap'[t] = s /\ next'[t] = NoThread
      /\ \A v \in Threads \ {t} : pc'[v] = pc[v] /\ snap'[v] = snap[v] /\ next'[v] = next[v]
  BY <1>1, <1>2, MxEnters
<1>4. /\ held' \in [Threads -> 0..MaxLocks + 1] /\ held'[t] = n
      /\ \A v \in Threads \ {t} : held'[v] = held[v]
  BY <1>1, MxHolds
<1>5. MxPlain(t)
  BY <1>1, <1>2, <1>3, <1>4 DEF MxPlain, MxTypes, ObjTypeOK, MxLocals
<1>6. MxAwaited' = MxAwaited /\ MxElect' = MxElect /\ guard # t
  BY <1>5, MxAwaitedKept
<1>7. ~Contains(ctl.sq, t) /\ MxAwaited # t /\ sched[t] = "on"
  BY <1>1 DEF MxPart, MxWaitPart, MxRuns, MxWaits
<1>8. MxOwnPart(t)'
  BY <1>3, <1>4 DEF MxOwnPart, MxRuns, MxUnlocks, MxWaits
<1>9. MxReadPart(t)'
  BY <1>2, <1>3, <1>6 DEF MxReadPart, MxRuns
<1>10. MxWaitPart(t)'
  BY <1>3, <1>6, <1>7 DEF MxWaitPart, MxRuns, MxWaits
<1>11. QED
  BY <1>5, <1>8, <1>9, <1>10, MxPlainInv DEF MxPart

(***************************************************************************)
(* try_lock up to its compare-and-swap.                                    *)
(***************************************************************************)
LEMMA MxTryLock ==
  ASSUME MxInv, NEW t \in Threads, NEW from \in {"idle", "l_redo", "l_own"}, NEW free \in {"l_cas", "y_cas"},
         NEW busy \in {"l_own", "idle"}, NEW to, to = FALSE, Mutex!TryLock(t, from, free, busy, to)
  PROVE  MxInv'
<1> USE ThreadsAssumption
<1>1. /\ MxTypes /\ MxListInv /\ MxPart(t) /\ held[t] \in 0..MaxLocks + 1 /\ held[t] \in Nat
      /\ count \in 0..MaxLocks /\ count \in Nat /\ MaxLocks \in Nat /\ ctl \in Mutex!Control
      /\ Mutex!NoSnap \in Mutex!Control
  BY MxReads
<1>2. /\ pc[t] = from /\ (pc[t] = "idle" => t \notin stopped) /\ exists /\ pc[t] \in MxRuns
      /\ UNCHANGED <<fifo, exists, stopped, toSleep, saves, faults, recursive, guard, sched>>
      /\ ctl' = ctl
  BY DEF Mutex!TryLock, Mutex!Running, Mutex!MayStep, Mutex!world, MxRuns
<1>3. /\ free \in MxRuns /\ busy \in MxRuns /\ "idle" \in MxRuns
      /\ free \notin {"u_cas", "u_lock", "idle"} /\ busy \notin {"u_cas", "u_lock", "l_cas", "y_cas"}
  BY DEF MxRuns
<1>4. held = [held EXCEPT ![t] = held[t]]
  BY <1>1 DEF MxTypes, MxLocals
<1>5. held[t] > 0 => ctl.owner = t /\ pc[t] = "idle" /\ held[t] <= count + 1
  BY <1>1 DEF MxPart, MxOwnPart
<1>a. ASSUME ctl.owner = NoThread, Mutex!Enter(t, free, ctl, NoThread, to), UNCHANGED <<count, held>>
      PROVE  MxInv'
  <2>1. held' = [held EXCEPT ![t] = held[t]] /\ ~(held[t] > 0)
    BY <1>4, <1>5, <1>a
  <2>2. QED
    BY <1>1, <1>2, <1>3, <1>a, <2>1, MxQuiet
<1>b. ASSUME ctl.owner = t, count < MaxLocks, count' = count + 1, Mutex!ReturnLocked(t)
      PROVE  MxInv'
  <2>1. Mutex!Enter(t, "idle", Mutex!NoSnap, NoThread, FALSE) /\ held' = [held EXCEPT ![t] = held[t] + 1]
    BY <1>b DEF Mutex!ReturnLocked
  <2>2. held[t] <= count + 1 /\ count' \in 0..MaxLocks /\ held[t] + 1 \in 0..MaxLocks + 1
    BY <1>1, <1>5, <1>b
  <2>3. held[t] + 1 <= count' + 1
    BY <1>1, <1>b, <2>2
  <2>4. "idle" \notin Mutex!UnderIdm
    BY DEF Mutex!UnderIdm
  <2>5. QED
    BY Zenon, <1>1, <1>2, <1>3, <1>b, <2>1, <2>2, <2>3, <2>4, MxQuiet
<1>c. ASSUME ctl.owner = t, Mutex!Return(t), UNCHANGED count
      PROVE  MxInv'
  <2>1. Mutex!Enter(t, "idle", Mutex!NoSnap, NoThread, FALSE) /\ held' = [held EXCEPT ![t] = held[t]]
    BY <1>4, <1>c DEF Mutex!Return
  <2>2. "idle" \notin Mutex!UnderIdm
    BY DEF Mutex!UnderIdm
  <2>3. QED
    BY Zenon, <1>1, <1>2, <1>3, <1>5, <1>c, <2>1, <2>2, MxQuiet
<1>d. ASSUME ctl.owner \notin {t, NoThread}, Mutex!Enter(t, busy, Mutex!NoSnap, NoThread, to),
             UNCHANGED <<count, held>>
      PROVE  MxInv'
  <2>1. held' = [held EXCEPT ![t] = held[t]] /\ ~(held[t] > 0)
    BY <1>4, <1>5, <1>d
  <2>2. QED
    BY <1>1, <1>2, <1>3, <1>d, <2>1, MxQuiet
<1>Q. QED
  BY <1>a, <1>b, <1>c, <1>d DEF Mutex!TryLock

(***************************************************************************)
(* The compare-and-swap of lock and trylock, and try_own of a free mutex.  *)
(***************************************************************************)
LEMMA MxTake ==
  ASSUME MxInv, NEW t \in Threads, pc[t] \in {"l_cas", "y_cas", "l_own"}, ctl.owner = NoThread,
         ctl' = [ctl EXCEPT !.owner = t], Mutex!ReturnLocked(t),
         UNCHANGED <<world, recursive, count, guard, sched>>
  PROVE  MxInv'
<1> USE ThreadsAssumption
<1>1. /\ MxTypes /\ MxListInv /\ MxPart(t) /\ held[t] \in Nat
      /\ count \in 0..MaxLocks /\ count \in Nat /\ MaxLocks \in Nat /\ ctl \in Mutex!Control
      /\ Mutex!NoSnap \in Mutex!Control
  BY MxReads
<1>2. UNCHANGED <<fifo, exists, stopped, toSleep, saves, faults, recursive, guard, sched>>
  BY DEF world
<1>3. exists /\ held[t] = 0
  BY <1>1 DEF MxPart, MxOwnPart, Mutex!UnderIdm
<1>4. ctl' \in Mutex!Control /\ ctl'.owner = t /\ ctl'.sq = ctl.sq
  BY <1>1 DEF Mutex!Control
<1>5. Mutex!Enter(t, "idle", Mutex!NoSnap, NoThread, FALSE) /\ held' = [held EXCEPT ![t] = 1]
  <2>1. Mutex!Enter(t, "idle", Mutex!NoSnap, NoThread, FALSE) /\ held' = [held EXCEPT ![t] = held[t] + 1]
    BY DEF Mutex!ReturnLocked
  <2>2. held[t] + 1 = 1
    BY <1>3
  <2>3. QED
    BY <2>1, <2>2
<1>6. 1 \in 0..MaxLocks + 1 /\ count' \in 0..MaxLocks /\ 1 <= count' + 1
  BY <1>1
<1>7. pc[t] \in MxRuns /\ pc[t] # "idle" /\ "idle" \in MxRuns /\ "idle" \notin Mutex!UnderIdm
  BY DEF MxRuns, Mutex!UnderIdm
<1>8. QED
  BY <1>1, <1>2, <1>3, <1>4, <1>5, <1>6, <1>7, MxQuiet

(***************************************************************************)
(* A thread goes on without having changed the mutex.                      *)
(***************************************************************************)
LEMMA MxGoes ==
  ASSUME MxInv, NEW t \in Threads, pc[t] \in MxRuns \ {"idle"}, NEW l \in {"idle", "l_own", "u_lock"},
         l = "l_own" => exists, l = "u_lock" => ctl.owner = t /\ exists,
         Mutex!Enter(t, l, Mutex!NoSnap, NoThread, FALSE),
         UNCHANGED <<fifo, exists, stopped, toSleep, saves, faults, recursive, guard, sched, ctl, count, held>>
  PROVE  MxInv'
<1> USE ThreadsAssumption
<1>1. /\ MxTypes /\ MxListInv /\ MxPart(t) /\ held[t] \in 0..MaxLocks + 1 /\ held[t] \in Nat
      /\ count \in 0..MaxLocks /\ ctl \in Mutex!Control /\ Mutex!NoSnap \in Mutex!Control
  BY MxReads
<1>2. held[t] = 0 /\ ~(held[t] > 0) /\ held' = [held EXCEPT ![t] = held[t]]
  BY <1>1 DEF MxPart, MxOwnPart, MxTypes, MxLocals
<1>3. l \in MxRuns /\ pc[t] \in MxRuns /\ (l \in Mutex!UnderIdm => exists)
  BY DEF MxRuns, Mutex!UnderIdm
<1>4. QED
  BY <1>1, <1>2, <1>3, MxQuiet

(***************************************************************************)
(* lock and trylock up to queueing, and calls that find no mutex.          *)
(***************************************************************************)
LEMMA MxLocks ==
  ASSUME MxInv, NEW t \in Threads,
         \/ Mutex!LockCas(t) \/ Mutex!TryLockCas(t) \/ Mutex!RedoEsrch(t) \/ Mutex!LockRedo(t)
         \/ Mutex!LockSpin(t) \/ Mutex!TryLockCall(t) \/ Mutex!Lock(t, FALSE)
  PROVE  MxInv'
<1>1. /\ MxPart(t) /\ timed[t] = FALSE
  BY MxReads
<1>a. CASE Mutex!LockCas(t) \/ Mutex!TryLockCas(t)
  <2>1. pc[t] \in {"l_cas", "y_cas"} /\ UNCHANGED <<world, recursive, count, guard, sched>>
    BY <1>a DEF Mutex!LockCas, Mutex!TryLockCas, Mutex!world, world
  <2>2. snap[t].owner = NoThread /\ exists /\ pc[t] \in MxRuns \ {"idle"}
    BY <1>1, <2>1 DEF MxPart, MxOwnPart, MxReadPart, Mutex!UnderIdm, MxRuns
  <2>3. CASE Mutex!Unchanged(t)
    <3>1. ctl.owner = NoThread /\ ctl' = [ctl EXCEPT !.owner = t] /\ Mutex!ReturnLocked(t)
      BY <1>a, <2>2, <2>3 DEF Mutex!LockCas, Mutex!TryLockCas, Mutex!Unchanged
    <3>2. QED
      BY <2>1, <3>1, MxTake
  <2>4. CASE ~Mutex!Unchanged(t)
    <3>1. PICK l \in {"idle", "l_own", "u_lock"} :
             /\ l # "u_lock" /\ Mutex!Enter(t, l, Mutex!NoSnap, NoThread, FALSE) /\ UNCHANGED <<ctl, held>>
      BY <1>1, <1>a, <2>4 DEF Mutex!LockCas, Mutex!TryLockCas, Mutex!Goto, Mutex!Return
    <3>2. UNCHANGED <<fifo, exists, stopped, toSleep, saves, faults, recursive, guard, sched, ctl, count, held>>
      BY <2>1, <3>1 DEF world
    <3>3. QED
      BY <2>2, <3>1, <3>2, MxGoes
  <2>5. QED
    BY <2>3, <2>4
<1>b. CASE Mutex!RedoEsrch(t)
  <2>1. /\ pc[t] \in MxRuns \ {"idle"} /\ Mutex!Enter(t, "idle", Mutex!NoSnap, NoThread, FALSE)
        /\ UNCHANGED <<fifo, exists, stopped, toSleep, saves, faults, recursive, guard, sched, ctl, count, held>>
    BY <1>b DEF Mutex!RedoEsrch, Mutex!Return, Mutex!world, MxRuns
  <2>2. QED
    BY <2>1, MxGoes
<1>c. CASE \/ Mutex!LockRedo(t) \/ Mutex!LockSpin(t)
  <2>1. \/ Mutex!TryLock(t, "l_redo", "l_cas", "l_own", timed[t])
        \/ Mutex!TryLock(t, "l_own", "l_cas", "l_own", timed[t])
    BY <1>c DEF Mutex!LockRedo, Mutex!LockSpin
  <2>2. QED
    BY <1>1, <2>1, MxTryLock
<1>d. CASE \/ Mutex!TryLockCall(t) \/ Mutex!Lock(t, FALSE)
  <2>1. \/ Mutex!TryLock(t, "idle", "y_cas", "idle", FALSE)
        \/ Mutex!TryLock(t, "idle", "l_cas", "l_own", FALSE)
    BY <1>d DEF Mutex!TryLockCall, Mutex!Lock
  <2>2. QED
    BY <2>1, MxTryLock
<1>Q. QED
  BY <1>a, <1>b, <1>c, <1>d

(***************************************************************************)
(* unlock up to the internal mutex.                                        *)
(***************************************************************************)
LEMMA MxUnlock ==
  ASSUME MxInv, NEW t \in Threads, NEW from \in {"idle", "u_redo"}, Mutex!Unlock(t, from)
  PROVE  MxInv'
<1> USE ThreadsAssumption
<1>1. /\ MxTypes /\ MxListInv /\ MxPart(t) /\ held[t] \in 0..MaxLocks + 1 /\ held[t] \in Nat
      /\ count \in 0..MaxLocks /\ count \in Nat /\ MaxLocks \in Nat /\ ctl \in Mutex!Control
      /\ Mutex!NoSnap \in Mutex!Control /\ timed[t] = FALSE
  BY MxReads
<1>2. /\ pc[t] = from /\ (pc[t] = "idle" => t \notin stopped) /\ exists /\ pc[t] \in MxRuns
      /\ UNCHANGED <<fifo, exists, stopped, toSleep, saves, faults, recursive, guard, sched>>
      /\ ctl' = ctl
  BY DEF Mutex!Unlock, Mutex!Running, Mutex!MayStep, Mutex!world, MxRuns
<1>3. PICK n \in 0..MaxLocks + 1 : /\ n = IF held[t] > 0 THEN held[t] - 1 ELSE 0
                                   /\ held' = [held EXCEPT ![t] = n]
  <2>1. (IF held[t] > 0 THEN held[t] - 1 ELSE 0) \in 0..MaxLocks + 1
    BY <1>1
  <2>2. held' = [held EXCEPT ![t] = IF held[t] > 0 THEN held[t] - 1 ELSE 0]
    BY <1>1 DEF Mutex!Unlock, MxTypes, MxLocals
  <2>3. QED
    BY <2>1, <2>2
<1>4. held[t] > 0 => ctl.owner = t /\ held[t] <= count + 1
  BY <1>1 DEF MxPart, MxOwnPart
<1>5. "idle" \in MxRuns /\ "u_cas" \in MxRuns /\ "u_lock" \in MxRuns /\ "idle" \notin Mutex!UnderIdm
  BY DEF MxRuns, Mutex!UnderIdm
<1>a. ASSUME ctl.owner # t, Mutex!Goto(t, "idle"), UNCHANGED count PROVE MxInv'
  <2>1. Mutex!Enter(t, "idle", Mutex!NoSnap, NoThread, FALSE)
    BY <1>1, <1>a DEF Mutex!Goto
  <2>2. n = 0 /\ ~(n > 0)
    BY <1>1, <1>3, <1>4, <1>a
  <2>3. count' \in 0..MaxLocks /\ ctl' \in Mutex!Control /\ ctl'.sq = ctl.sq /\ ctl'.owner = ctl.owner
    BY <1>1, <1>2, <1>a
  <2>4. QED
    BY <1>1, <1>2, <1>3, <1>5, <1>a, <2>1, <2>2, <2>3, MxQuiet
<1>b. ASSUME ctl.owner = t, count > 0, count' = count - 1, Mutex!Goto(t, "idle") PROVE MxInv'
  <2>1. Mutex!Enter(t, "idle", Mutex!NoSnap, NoThread, FALSE)
    BY <1>1, <1>b DEF Mutex!Goto
  <2>2. count' \in 0..MaxLocks
    BY <1>1, <1>b
  <2>3. n > 0 => n <= count' + 1
    BY <1>1, <1>3, <1>4, <1>b
  <2>4. ctl' \in Mutex!Control /\ ctl'.sq = ctl.sq /\ ctl'.owner = t
    BY <1>1, <1>2, <1>b
  <2>5. QED
    BY Zenon, <1>1, <1>2, <1>3, <1>5, <1>b, <2>1, <2>2, <2>3, <2>4, MxQuiet
<1>c. ASSUME ctl.owner = t, count = 0, UNCHANGED count,
             IF ctl.sq = <<>> THEN Mutex!Enter(t, "u_cas", ctl, NoThread, FALSE) ELSE Mutex!Goto(t, "u_lock")
      PROVE MxInv'
  <2>1. /\ n = 0 /\ ~(n > 0) /\ count' \in 0..MaxLocks
        /\ ctl' \in Mutex!Control /\ ctl'.sq = ctl.sq /\ ctl'.owner = t
    BY <1>1, <1>2, <1>3, <1>4, <1>c
  <2>2. CASE ctl.sq = <<>>
    <3>1. Mutex!Enter(t, "u_cas", ctl, NoThread, FALSE)
      BY <1>c, <2>2
    <3>2. QED
      BY Zenon, <1>1, <1>2, <1>3, <1>5, <1>c, <2>1, <2>2, <3>1, MxQuiet
  <2>3. CASE ctl.sq # <<>>
    <3>1. Mutex!Enter(t, "u_lock", Mutex!NoSnap, NoThread, FALSE)
      BY <1>1, <1>c, <2>3 DEF Mutex!Goto
    <3>2. QED
      BY <1>1, <1>2, <1>3, <1>5, <1>c, <2>1, <3>1, MxQuiet
  <2>4. QED
    BY <2>2, <2>3
<1>Q. QED
  BY <1>a, <1>b, <1>c DEF Mutex!Unlock

(***************************************************************************)
(* The compare-and-swap of unlock.                                         *)
(***************************************************************************)
LEMMA MxUnlockCas ==
  ASSUME MxInv, NEW t \in Threads, Mutex!UnlockCas(t)
  PROVE  MxInv'
<1> USE ThreadsAssumption
<1>1. /\ MxTypes /\ MxListInv /\ MxPart(t) /\ held[t] \in 0..MaxLocks + 1 /\ held[t] \in Nat
      /\ count \in 0..MaxLocks /\ ctl \in Mutex!Control /\ ctl.sq \in Seq(Threads)
      /\ Mutex!NoSnap \in Mutex!Control /\ timed[t] = FALSE
  BY MxReads
<1>2. /\ pc[t] = "u_cas"
      /\ UNCHANGED <<fifo, exists, stopped, toSleep, saves, faults, recursive, guard, sched, count, held>>
  BY DEF Mutex!UnlockCas, Mutex!world
<1>3. ctl.owner = t /\ exists /\ snap[t].sq = <<>> /\ held[t] = 0 /\ pc[t] \in MxRuns \ {"idle"}
  BY <1>1, <1>2 DEF MxPart, MxOwnPart, MxReadPart, MxUnlocks, Mutex!UnderIdm, MxRuns
<1>a. CASE Mutex!Unchanged(t)
  <2>1. ctl.sq = <<>>
    <3>1. Mutex!First(ctl.sq) = NoThread
      BY <1>3, <1>a DEF Mutex!Unchanged, Mutex!First
    <3>2. QED
      BY <1>1, <3>1 DEF Mutex!First
  <2>2. ctl' = [ctl EXCEPT !.owner = NoThread] /\ Mutex!Enter(t, "idle", Mutex!NoSnap, NoThread, FALSE)
    BY <1>1, <1>a DEF Mutex!UnlockCas, Mutex!Goto
  <2>3. ctl' \in Mutex!Control /\ ctl'.owner = NoThread /\ ctl'.sq = ctl.sq
    BY <1>1, <2>2 DEF Mutex!Control
  <2>4. held' = [held EXCEPT ![t] = held[t]] /\ ~(held[t] > 0) /\ count' \in 0..MaxLocks
    BY <1>1, <1>2, <1>3 DEF MxTypes, MxLocals
  <2>5. "idle" \in MxRuns /\ "idle" \notin Mutex!UnderIdm
    BY DEF MxRuns, Mutex!UnderIdm
  <2>6. /\ UNCHANGED <<fifo, exists, stopped, toSleep, saves, faults, recursive, guard, sched>>
        /\ pc[t] \in MxRuns /\ pc[t] # "idle"
    BY <1>2, <1>3
  <2>7. ctl.owner = t /\ ctl'.owner = NoThread /\ ctl.sq = <<>>
    BY <1>3, <2>1, <2>3
  <2>8. QED
    BY <1>1, <2>2, <2>3, <2>4, <2>5, <2>6, <2>7, MxQuiet
<1>b. CASE ~Mutex!Unchanged(t)
  <2>1. Mutex!Enter(t, "u_lock", Mutex!NoSnap, NoThread, FALSE) /\ ctl' = ctl
    BY <1>1, <1>b DEF Mutex!UnlockCas, Mutex!Goto
  <2>2. UNCHANGED <<fifo, exists, stopped, toSleep, saves, faults, recursive, guard, sched, ctl, count, held>>
    BY <1>2, <2>1
  <2>3. QED
    BY <1>3, <2>1, <2>2, MxGoes
<1>Q. QED
  BY <1>a, <1>b

-----------------------------------------------------------------------------
(* Waiters of the mutex *)

(***************************************************************************)
(* A waiter that is neither queued nor awaited has been made the owner,    *)
(* and leaves its call with the mutex.                                     *)
(***************************************************************************)
LEMMA MxGot ==
  ASSUME MxInv, NEW t \in Threads, pc[t] \in MxWaits, ~Contains(ctl.sq, t), MxAwaited # t,
         Mutex!ReturnLocked(t), NEW x \in SchedStates, sched' = [sched EXCEPT ![t] = x],
         x = "on" \/ t \in stopped,
         UNCHANGED <<fifo, exists, stopped, toSleep, saves, faults, recursive, ctl, count, guard>>
  PROVE  MxInv'
<1> USE ThreadsAssumption
<1>1. /\ MxTypes /\ MxPart(t) /\ held[t] \in Nat /\ count \in 0..MaxLocks /\ count \in Nat
      /\ MaxLocks \in Nat /\ ctl \in Mutex!Control /\ Mutex!NoSnap \in Mutex!Control
  BY MxReads
<1>2. "idle" \in MxLabels /\ pc[t] \notin MxInside /\ pc[t] # "idle"
  BY DEF MxLabels, MxWaits, MxInside
<1>3. MxElect # t
  BY DEF MxElect, MxAwaited
<1>4. ctl.owner = t /\ held[t] = 0
  BY <1>1, <1>2, <1>3 DEF MxPart, MxOwnPart
<1>5. held' = [held EXCEPT ![t] = 1] /\ 1 \in 0..MaxLocks + 1
  <2>1. held' = [held EXCEPT ![t] = held[t] + 1]
    BY DEF Mutex!ReturnLocked
  <2>2. held[t] + 1 = 1 /\ 1 \in 0..MaxLocks + 1
    BY <1>1, <1>4
  <2>3. QED
    BY <2>1, <2>2
<1>6. /\ held' \in [Threads -> 0..MaxLocks + 1] /\ held'[t] = 1
      /\ \A v \in Threads \ {t} : held'[v] = held[v]
  BY <1>1, <1>5, MxHolds
<1>7. Mutex!Enter(t, "idle", Mutex!NoSnap, NoThread, FALSE)
  BY DEF Mutex!ReturnLocked
<1>8. /\ pc' \in [Threads -> MxLabels] /\ timed' \in [Threads -> {FALSE}]
      /\ snap' \in [Threads -> Mutex!Control] /\ next' \in [Threads -> Threads \union {NoThread}]
      /\ pc'[t] = "idle" /\ snap'[t] = Mutex!NoSnap /\ next'[t] = NoThread
      /\ \A v \in Threads \ {t} : pc'[v] = pc[v] /\ snap'[v] = snap[v] /\ next'[v] = next[v]
  BY <1>1, <1>2, <1>7, MxEnters
<1>9. /\ sched' \in [Threads -> SchedStates] /\ sched'[t] = x
      /\ \A v \in Threads \ {t} : sched'[v] = sched[v]
  BY <1>1 DEF MxTypes, ObjTypeOK
<1>10. MxPlain(t)
  BY <1>1, <1>2, <1>6, <1>8, <1>9 DEF MxPlain, MxLocals
<1>11. MxAwaited' = MxAwaited /\ MxElect' = MxElect /\ guard # t
  BY <1>10, MxAwaitedKept
<1>12. MxOwnPart(t)'
  <2>1. held'[t] <= count' + 1
    BY <1>1, <1>6
  <2>2. QED
    BY <1>4, <1>8, <2>1 DEF MxOwnPart, MxUnlocks, MxWaits, Mutex!UnderIdm
<1>13. MxReadPart(t)'
  BY <1>8, <1>11 DEF MxReadPart, MxInside
<1>14. MxWaitPart(t)'
  BY <1>8, <1>9, <1>11 DEF MxWaitPart, MxWaits
<1>15. QED
  BY <1>10, <1>12, <1>13, <1>14, MxPlainInv DEF MxPart

(***************************************************************************)
(* A thread queues itself, falls asleep, or leaves its call with           *)
(* cpu_flag::again: it keeps its locks.                                    *)
(***************************************************************************)
LEMMA MxWaiter ==
  ASSUME MxInv, NEW t \in Threads, pc[t] \in {"l_own", "l_sleep", "l_wait"},
         NEW l \in {"l_sleep", "l_wait", "a_lock"}, Mutex!Enter(t, l, Mutex!NoSnap, NoThread, FALSE),
         NEW x \in SchedStates, sched' = [sched EXCEPT ![t] = x], toSleep' \subseteq toSleep,
         UNCHANGED <<fifo, exists, stopped, saves, faults, recursive, count, guard, held>>,
         ctl' \in Mutex!Control, ctl'.owner = ctl.owner,
         \/ ctl'.sq = ctl.sq
         \/ ctl'.sq = <<t>> \o ctl.sq /\ ~Contains(ctl.sq, t) /\ ctl.owner # NoThread,
         l = "l_sleep" => exists /\ x = "on",
         l = "l_wait" => x = "asleep" /\ (Contains(ctl.sq, t) \/ MxAwaited = t),
         l = "a_lock" => MxAwaited # t,
         l # "l_wait" => Contains(ctl'.sq, t),
         MxAwaited = t => ctl'.sq = ctl.sq /\ pc[t] \in MxWaits
  PROVE  MxInv'
<1> USE ThreadsAssumption
<1>1. /\ MxTypes /\ MxPart(t) /\ held[t] \in Nat /\ count \in 0..MaxLocks
      /\ Mutex!NoSnap \in Mutex!Control /\ held \in [Threads -> 0..MaxLocks + 1]
  BY MxReads DEF MxTypes, MxLocals
<1>2. l \in MxLabels /\ l \notin MxInside /\ pc[t] \notin MxInside /\ pc[t] # "idle"
  BY DEF MxLabels, MxInside
<1>3. /\ pc' \in [Threads -> MxLabels] /\ timed' \in [Threads -> {FALSE}]
      /\ snap' \in [Threads -> Mutex!Control] /\ next' \in [Threads -> Threads \union {NoThread}]
      /\ pc'[t] = l /\ snap'[t] = Mutex!NoSnap /\ next'[t] = NoThread
      /\ \A v \in Threads \ {t} : pc'[v] = pc[v] /\ snap'[v] = snap[v] /\ next'[v] = next[v]
  BY <1>1, <1>2, MxEnters
<1>4. /\ sched' \in [Threads -> SchedStates] /\ sched'[t] = x
      /\ \A v \in Threads \ {t} : sched'[v] = sched[v]
  BY <1>1 DEF MxTypes, ObjTypeOK
<1>5. MxPlain(t)
  BY <1>1, <1>2, <1>3, <1>4 DEF MxPlain, MxLocals
<1>6. MxAwaited' = MxAwaited /\ MxElect' = MxElect /\ guard # t /\ guard' = guard
  BY <1>5, MxAwaitedKept DEF MxPlain
<1>7. Contains(ctl.sq, t) \/ MxAwaited = t => (Contains(ctl'.sq, t) \/ MxAwaited' = t)
  <2>1. ctl.sq \in Seq(Threads)
    BY MxReads
  <2>2. Contains(ctl.sq, t) => Contains(ctl'.sq, t)
    BY <2>1, PushIs
  <2>3. QED
    BY <1>6, <2>2
<1>8. MxOwnPart(t)'
  <2>1. held'[t] = 0
    BY <1>1, <1>2 DEF MxPart, MxOwnPart
  <2>2. MxElect # t /\ l = "l_wait" => (Contains(ctl'.sq, t) \/ ctl'.owner = t)
    BY <1>1, <1>6, <1>7 DEF MxPart, MxWaitPart
  <2>3. QED
    BY <1>3, <1>6, <2>1, <2>2 DEF MxOwnPart, MxUnlocks, MxWaits, Mutex!UnderIdm
<1>9. MxReadPart(t)'
  BY <1>2, <1>3, <1>6 DEF MxReadPart
<1>10. MxWaitPart(t)'
  <2>1. MxAwaited = t => l \in MxWaits /\ ~Contains(ctl'.sq, t)
    BY <1>1 DEF MxPart, MxWaitPart, MxWaits
  <2>2. MxAwaited = t /\ MxElect # t => ctl'.owner = t
    BY <1>1 DEF MxPart, MxWaitPart
  <2>3. l \in {"l_sleep", "l_wait", "a_lock"}
    OBVIOUS
  <2>4. QED
    BY <1>3, <1>4, <1>6, <1>7, <2>1, <2>2, <2>3 DEF MxWaitPart, MxWaits
<1>11. QED
  BY <1>5, <1>8, <1>9, <1>10, MxPlainInv DEF MxPart

(***************************************************************************)
(* try_own: the mutex is taken, or its thread is queued.                   *)
(***************************************************************************)
LEMMA MxTryOwn ==
  ASSUME MxInv, NEW t \in Threads, Mutex!TryOwn(t)
  PROVE  MxInv'
<1> USE ThreadsAssumption
<1>1. /\ MxTypes /\ MxPart(t) /\ timed[t] = FALSE /\ ctl \in Mutex!Control /\ ctl.sq \in Seq(Threads)
  BY MxReads
<1>2. pc[t] = "l_own" /\ UNCHANGED <<world, recursive, count, guard, sched>>
  BY DEF Mutex!TryOwn, Mutex!world, world
<1>a. CASE ctl.owner = NoThread
  <2>1. ctl' = [ctl EXCEPT !.owner = t] /\ Mutex!ReturnLocked(t) /\ pc[t] \in {"l_cas", "y_cas", "l_own"}
    BY <1>2, <1>a DEF Mutex!TryOwn
  <2>2. QED
    BY <1>2, <1>a, <2>1, MxTake
<1>b. CASE ctl.owner # NoThread
  <2>1. ctl' = [ctl EXCEPT !.sq = <<t>> \o ctl.sq] /\ Mutex!Goto(t, "l_sleep") /\ held' = held
    BY <1>b DEF Mutex!TryOwn
  <2>2. Mutex!Enter(t, "l_sleep", Mutex!NoSnap, NoThread, FALSE)
    BY <1>1, <2>1 DEF Mutex!Goto
  <2>3. /\ ~Contains(ctl.sq, t) /\ MxAwaited # t /\ exists /\ sched[t] = "on" /\ sched[t] \in SchedStates
    BY <1>1, <1>2 DEF MxPart, MxOwnPart, MxWaitPart, MxWaits, Mutex!UnderIdm, SchedStates
  <2>4. <<t>> \o ctl.sq \in Seq(Threads) /\ Contains(<<t>> \o ctl.sq, t)
    BY <1>1, PushIs
  <2>5. /\ ctl' \in Mutex!Control /\ ctl'.owner = ctl.owner /\ ctl'.sq = <<t>> \o ctl.sq
    BY <1>1, <2>1, <2>4 DEF Mutex!Control
  <2>6. sched' = [sched EXCEPT ![t] = sched[t]]
    BY <1>1, <1>2 DEF MxTypes, ObjTypeOK
  <2>7. /\ UNCHANGED <<fifo, exists, stopped, saves, faults, recursive, count, guard, held>>
        /\ toSleep' \subseteq toSleep
    BY <1>2, <2>1 DEF world
  <2>8. pc[t] \in {"l_own", "l_sleep", "l_wait"} /\ Contains(ctl'.sq, t)
    BY <1>2, <2>4, <2>5
  <2>9. QED
    BY <1>b, <2>2, <2>3, <2>5, <2>6, <2>7, <2>8, MxWaiter
<1>Q. QED
  BY <1>a, <1>b

(***************************************************************************)
(* sleep, the signal and the stop of a waiter.                             *)
(***************************************************************************)
LEMMA MxSleeps ==
  ASSUME MxInv, NEW t \in Threads, Mutex!Sleep(t) \/ Mutex!TakeSignal(t) \/ Mutex!WaitStopped(t)
  PROVE  MxInv'
<1> USE ThreadsAssumption
<1>1. /\ MxTypes /\ MxPart(t) /\ timed[t] = FALSE /\ ctl \in Mutex!Control /\ sched[t] \in SchedStates
      /\ sched \in [Threads -> SchedStates]
  BY MxReads DEF MxTypes, ObjTypeOK
<1>a. CASE Mutex!Sleep(t) /\ sched[t] = "cancelled"
  <2>1. /\ pc[t] = "l_sleep" /\ Mutex!ReturnLocked(t) /\ sched' = [sched EXCEPT ![t] = "on"]
        /\ UNCHANGED <<fifo, exists, stopped, toSleep, saves, faults, recursive, ctl, count, guard>>
    BY <1>a DEF Mutex!Sleep
  <2>2. /\ ~Contains(ctl.sq, t) /\ MxAwaited # t /\ pc[t] \in MxWaits /\ "on" \in SchedStates
    BY <1>1, <1>a, <2>1 DEF MxPart, MxWaitPart, MxWaits, SchedStates
  <2>3. QED
    BY <2>1, <2>2, MxGot
<1>b. CASE Mutex!Sleep(t) /\ sched[t] # "cancelled"
  <2>1. /\ pc[t] = "l_sleep" /\ Mutex!Goto(t, "l_wait") /\ Mutex!FallAsleep(t)
        /\ UNCHANGED <<fifo, exists, stopped, saves, faults, recursive, ctl, count, guard, held>>
    BY <1>b DEF Mutex!Sleep
  <2>2. /\ Mutex!Enter(t, "l_wait", Mutex!NoSnap, NoThread, FALSE) /\ sched' = [sched EXCEPT ![t] = "asleep"]
        /\ toSleep' \subseteq toSleep
    BY <1>1, <2>1 DEF Mutex!Goto, Mutex!FallAsleep
  <2>3. /\ Contains(ctl.sq, t) \/ MxAwaited = t
        /\ pc[t] \in MxWaits /\ "asleep" \in SchedStates /\ pc[t] \in {"l_own", "l_sleep", "l_wait"}
    BY <1>1, <1>b, <2>1 DEF MxPart, MxWaitPart, MxWaits, SchedStates
  <2>4. ctl' \in Mutex!Control /\ ctl'.owner = ctl.owner /\ ctl'.sq = ctl.sq
    BY <1>1, <2>1
  <2>5. QED
    BY <2>1, <2>2, <2>3, <2>4, MxWaiter
<1>c. CASE Mutex!TakeSignal(t)
  <2>1. /\ pc[t] = "l_wait" /\ sched[t] = "signal" /\ Mutex!ReturnLocked(t)
        /\ sched' = [sched EXCEPT ![t] = "on"]
        /\ UNCHANGED <<fifo, exists, stopped, toSleep, saves, faults, recursive, ctl, count, guard>>
    BY <1>c DEF Mutex!TakeSignal, Mutex!Signalled, Mutex!world
  <2>2. /\ ~Contains(ctl.sq, t) /\ MxAwaited # t /\ pc[t] \in MxWaits /\ "on" \in SchedStates
    BY <1>1, <2>1 DEF MxPart, MxWaitPart, MxWaits, SchedStates
  <2>3. QED
    BY <2>1, <2>2, MxGot
<1>d. CASE Mutex!WaitStopped(t)
  <2>1. /\ pc[t] = "l_wait" /\ t \in stopped /\ guard = NoThread /\ pc[t] \in MxWaits
        /\ UNCHANGED <<fifo, exists, stopped, toSleep, saves, faults, recursive, ctl, count, guard, sched>>
    BY <1>d DEF Mutex!WaitStopped, Mutex!Stopping, Mutex!world, MxWaits
  <2>2. MxAwaited # t /\ sched' = [sched EXCEPT ![t] = sched[t]]
    BY <1>1, <2>1 DEF MxAwaited
  <2>3. CASE ~Contains(ctl.sq, t)
    <3>1. Mutex!ReturnLocked(t)
      BY <1>d, <2>3, MxSeq DEF Mutex!WaitStopped
    <3>2. UNCHANGED <<fifo, exists, stopped, toSleep, saves, faults, recursive, ctl, count, guard>>
      BY <2>1
    <3>3. QED
      BY <1>1, <2>1, <2>2, <2>3, <3>1, <3>2, MxGot
  <2>4. CASE Contains(ctl.sq, t)
    <3>1. Mutex!Goto(t, "a_lock") /\ held' = held
      BY <1>d, <2>4, MxSeq DEF Mutex!WaitStopped
    <3>2. Mutex!Enter(t, "a_lock", Mutex!NoSnap, NoThread, FALSE)
      BY <1>1, <3>1 DEF Mutex!Goto
    <3>3. /\ ctl' \in Mutex!Control /\ ctl'.owner = ctl.owner /\ ctl'.sq = ctl.sq /\ Contains(ctl'.sq, t)
      BY <1>1, <2>1, <2>4
    <3>4. /\ UNCHANGED <<fifo, exists, stopped, saves, faults, recursive, count, guard, held>>
          /\ toSleep' \subseteq toSleep /\ pc[t] \in {"l_own", "l_sleep", "l_wait"}
      BY <2>1, <3>1
    <3>5. QED
      BY <1>1, <2>2, <3>2, <3>3, <3>4, MxWaiter
  <2>5. QED
    BY <2>3, <2>4
<1>Q. QED
  BY <1>a, <1>b, <1>c, <1>d

(***************************************************************************)
(* No call has a timeout.                                                  *)
(***************************************************************************)
LEMMA MxNoTimeOut ==
  ASSUME MxInv, NEW t \in Threads
  PROVE  /\ ~Mutex!TimeOut(t) /\ ~Mutex!TimeOutCheck(t) /\ ~Mutex!TimeOutTest(t) /\ ~Mutex!TimeOutOver(t)
         /\ ~Mutex!TimeOutLock(t) /\ ~Mutex!TimeOutLoad(t) /\ ~Mutex!TimeOutUnqueue(t)
<1>1. pc[t] \in MxLabels /\ timed[t] = FALSE
  BY MxReads
<1>2. pc[t] \notin {"t_check", "t_test", "t_over", "t_lock", "t_load", "t_unqueue"}
  BY <1>1 DEF MxLabels
<1>3. ~Mutex!TimeOut(t)
  BY <1>1, Zenon DEF Mutex!TimeOut, Mutex!TimedOut
<1>4. QED
  BY <1>2, <1>3 DEF Mutex!TimeOutCheck, Mutex!TimeOutTest, Mutex!TimeOutOver, Mutex!TimeOutLock,
     Mutex!TimeOutLoad, Mutex!TimeOutUnqueue, Mutex!TakeGuard, Mutex!LoadControl

-----------------------------------------------------------------------------
(* The scheduler, destroy and savestates *)

(***************************************************************************)
(* The scheduler signals a waiter that is no longer queued.                *)
(***************************************************************************)
LEMMA MxSchedule ==
  ASSUME MxInv, NEW t \in Threads, Mutex!Schedule(t)
  PROVE  MxInv'
<1> USE ThreadsAssumption
<1>1. MxTypes /\ MxPart(t) /\ ctl \in Mutex!Control /\ count \in 0..MaxLocks
  BY MxReads
<1>2. /\ sched[t] = "ready" /\ sched' = [sched EXCEPT ![t] = "signal"]
      /\ UNCHANGED <<fifo, exists, stopped, toSleep, saves, faults, guard, pc, timed, recursive, ctl, count,
                     snap, next, held>>
  BY DEF Mutex!Schedule, Mutex!ObjSchedule, Mutex!world
<1>3. pc[t] \in {"l_wait", "a_lock"} \/ (pc[t] = "idle" /\ t \in stopped)
  BY <1>1, <1>2 DEF MxPart, MxWaitPart, MxWaits
<1>4. /\ sched' \in [Threads -> SchedStates] /\ sched'[t] = "signal"
      /\ \A v \in Threads \ {t} : sched'[v] = sched[v]
  BY <1>1, <1>2 DEF MxTypes, ObjTypeOK, SchedStates
<1>5. MxPlain(t)
  <2>1. pc[t] \notin MxInside
    BY <1>3 DEF MxInside
  <2>2. MxLocals'
    BY <1>1, <1>2 DEF MxTypes, MxLocals
  <2>3. QED
    BY <1>1, <1>2, <1>4, <2>1, <2>2 DEF MxPlain
<1>6. MxAwaited' = MxAwaited /\ MxElect' = MxElect
  BY <1>5, MxAwaitedKept
<1>7. MxPart(t)'
  BY <1>1, <1>2, <1>3, <1>4, <1>6 DEF MxPart, MxOwnPart, MxReadPart, MxWaitPart, MxWaits
<1>8. QED
  BY <1>5, <1>7, MxPlainInv

(***************************************************************************)
(* Nothing changes for any thread: destroy, a thread is told to stop, or   *)
(* nothing happens.                                                        *)
(***************************************************************************)
LEMMA MxStays ==
  ASSUME MxInv, UNCHANGED <<fifo, guard, pc, timed, sched, toSleep, saves, faults, recursive, ctl, count,
                            snap, next, held>>,
         exists' = exists \/ (exists' = FALSE /\ ctl.owner = NoThread
                                /\ \A u \in Threads : pc[u] \notin Mutex!UnderIdm),
         stopped \subseteq stopped', stopped' \subseteq Threads, stopped' = stopped \/ saves < MaxSaves
  PROVE  MxInv'
<1>1. MxTypes /\ MxListInv
  BY DEF MxInv
<1>2. MxTypes'
  BY <1>1 DEF MxTypes, MxLocals, ObjTypeOK
<1>3. MxListInv'
  BY <1>1 DEF MxListInv
<1>4. MxAwaited' = MxAwaited /\ MxElect' = MxElect
  BY DEF MxAwaited, MxElect
<1>5. \A v \in Threads : MxSame(v)
  BY <1>4 DEF MxSame
<1>6. QED
  BY <1>2, <1>3, <1>5, MxFrame

(***************************************************************************)
(* destroy, and the beginning of a savestate.                              *)
(***************************************************************************)
LEMMA MxStops ==
  ASSUME MxInv, NEW t \in Threads, Mutex!Destroy(t) \/ Mutex!StopThread(t)
  PROVE  MxInv'
<1>1. MxTypes /\ stopped \subseteq Threads
  BY DEF MxInv, MxTypes, ObjTypeOK
<1>2. CASE Mutex!Destroy(t)
  <2>1. /\ UNCHANGED <<fifo, guard, pc, timed, sched, toSleep, saves, faults, recursive, ctl, count,
                       snap, next, held>>
        /\ exists' = FALSE /\ ctl.owner = NoThread /\ \A u \in Threads : pc[u] \notin Mutex!UnderIdm
        /\ stopped' = stopped
    BY <1>2 DEF Mutex!Destroy, Mutex!local
  <2>2. QED
    BY <1>1, <2>1, MxStays
<1>3. CASE Mutex!StopThread(t)
  <2>1. /\ UNCHANGED <<fifo, guard, pc, timed, sched, toSleep, saves, faults, recursive, ctl, count,
                       snap, next, held>>
        /\ exists' = exists /\ saves < MaxSaves /\ stopped' = stopped \union {t}
    BY <1>3 DEF Mutex!StopThread, Mutex!ObjStop
  <2>2. QED
    BY <1>1, <2>1, MxStays
<1>4. QED
  BY <1>2, <1>3

(***************************************************************************)
(* The state is saved and loaded: the list of waiters is gone, and they    *)
(* make their calls again; the owner stays.                                *)
(***************************************************************************)
LEMMA MxSaveAndLoad ==
  ASSUME MxInv, Mutex!SaveAndLoad
  PROVE  MxInv'
<1> USE ThreadsAssumption, MainThreadAssumption, SavesAssumption
<1>1. MxTypes /\ MxListInv /\ (\A t \in Threads : MxPart(t)) /\ ctl \in Mutex!Control
  BY DEF MxInv, MxTypes
<1>2. /\ stopped = Threads
      /\ \A t \in Threads : pc[t] = "idle" \/ pc[t] \in {"a_lock", "a_unlock"}
      /\ saves' = saves + 1 /\ stopped' = {} /\ toSleep' \subseteq Threads
      /\ pc' = [t \in Threads |-> IF pc[t] = "idle" THEN "idle" ELSE Mutex!Redo[pc[t]]]
      /\ sched' = [t \in Threads |-> "on"]
      /\ UNCHANGED <<fifo, exists, guard, timed, faults, recursive, count, snap, next, held>>
      /\ ctl' = [ctl EXCEPT !.sq = <<>>]
  BY DEF Mutex!SaveAndLoad, Mutex!ObjSaveAndLoad, Mutex!Redo
<1>3. \A t \in Threads : /\ pc'[t] = IF pc[t] = "idle" THEN "idle"
                                     ELSE IF pc[t] = "a_lock" THEN "l_redo" ELSE "u_redo"
                         /\ sched'[t] = "on"
  BY <1>2 DEF Mutex!Redo
<1>4. pc' \in [Threads -> MxLabels] /\ sched' \in [Threads -> SchedStates]
  BY <1>2, <1>3 DEF MxLabels, SchedStates
<1>5. ctl' \in Mutex!Control /\ ctl'.owner = ctl.owner /\ ctl'.sq = <<>>
  <2>1. <<>> \in Seq(Threads) /\ ctl' = [ctl EXCEPT !.sq = <<>>]
    BY <1>2
  <2>2. QED
    BY <1>1, <2>1 DEF Mutex!Control
<1>6. saves' \in 0..MaxSaves
  <2>1. saves \in 0..MaxSaves /\ saves < MaxSaves
    BY <1>1, <1>2 DEF MxTypes, ObjTypeOK
  <2>2. QED
    BY <1>2, <2>1
<1>7. MxTypes'
  BY <1>1, <1>2, <1>4, <1>5, <1>6 DEF MxTypes, MxLocals, ObjTypeOK
<1>8. \A t : ~Contains(<<>>, t)
  BY DEF Contains
<1>9. MxListInv'
  BY <1>1, <1>2, <1>5 DEF MxListInv, Distinct
<1>10. guard = NoThread
  <2>1. \A t \in Threads : guard # t
    BY <1>1, <1>2 DEF MxPart, MxReadPart, MxInside
  <2>2. QED
    BY <1>1, <2>1 DEF MxTypes, ObjTypeOK
<1>11. MxAwaited' = NoThread /\ MxElect' = NoThread
  BY <1>2, <1>10 DEF MxAwaited, MxElect
<1>12. ASSUME NEW t \in Threads PROVE MxPart(t)'
  <2>1. MxPart(t) /\ pc'[t] \in {"idle", "l_redo", "u_redo"} /\ (pc[t] = "idle" => pc'[t] = "idle")
    BY <1>1, <1>3
  <2>2. MxOwnPart(t)'
    BY <1>2, <1>5, <2>1 DEF MxPart, MxOwnPart, MxUnlocks, MxWaits, Mutex!UnderIdm
  <2>3. MxReadPart(t)'
    BY <1>2, <1>10, <2>1 DEF MxReadPart, MxInside
  <2>4. MxWaitPart(t)'
    BY <1>3, <1>5, <1>8, <1>11, <2>1 DEF MxWaitPart, MxWaits
  <2>5. QED
    BY <2>2, <2>3, <2>4 DEF MxPart
<1>13. QED
  BY <1>7, <1>9, <1>12 DEF MxInv

(***************************************************************************)
(* Initially nobody uses the mutex.                                        *)
(***************************************************************************)
LEMMA MxInitInv ==
  ASSUME Mutex!Init, "timeout" \notin faults
  PROVE  MxInv
<1> USE ThreadsAssumption, SavesAssumption, LocksAssumption
<1>1. /\ fifo \in BOOLEAN /\ exists = TRUE /\ guard = NoThread /\ pc = [t \in Threads |-> "idle"]
      /\ timed = [t \in Threads |-> FALSE] /\ sched = [t \in Threads |-> "on"] /\ stopped = {}
      /\ toSleep = {} /\ saves = 0 /\ faults \in Faults
      /\ recursive \in BOOLEAN /\ ctl = Mutex!NoSnap /\ count = 0
      /\ snap = [t \in Threads |-> Mutex!NoSnap] /\ next = [t \in Threads |-> NoThread]
      /\ held = [t \in Threads |-> 0]
  BY DEF Mutex!Init, Mutex!ObjInit
<1>2. Mutex!NoSnap \in Mutex!Control /\ ctl.sq = <<>> /\ ctl.owner = NoThread
  BY <1>1 DEF Mutex!NoSnap, Mutex!Control
<1>3. timed \in [Threads -> {FALSE}]
  BY <1>1, Zenon
<1>4. ObjTypeOK(MxLabels)
  <2>1. timed \in [Threads -> BOOLEAN]
    BY <1>3
  <2>2. QED
    BY <1>1, <2>1 DEF ObjTypeOK, MxLabels, SchedStates
<1>5. MxTypes
  BY <1>1, <1>2, <1>3, <1>4 DEF MxTypes, MxLocals, MxLabels
<1>6. MxListInv
  BY <1>2 DEF MxListInv, Distinct
<1>7. MxAwaited = NoThread /\ MxElect = NoThread /\ \A t : ~Contains(<<>>, t)
  BY <1>1 DEF MxAwaited, MxElect, Contains
<1>8. ASSUME NEW t \in Threads PROVE MxPart(t)
  BY <1>1, <1>2, <1>7 DEF MxPart, MxOwnPart, MxReadPart, MxWaitPart, MxUnlocks, MxWaits, MxInside,
     Mutex!UnderIdm
<1>9. QED
  BY <1>5, <1>6, <1>8 DEF MxInv

-----------------------------------------------------------------------------
(* Steps of unlock under the internal mutex *)

\* A thread t that has or takes the internal mutex hands the mutex to u, or
\* to nobody.
MxInner(t, u) ==
  /\ MxTypes' /\ MxListInv'
  /\ \A v \in Threads \ {t, u} :
       /\ pc'[v] = pc[v] /\ snap'[v] = snap[v] /\ next'[v] = next[v]
       /\ held'[v] = held[v] /\ sched'[v] = sched[v]
       /\ Contains(ctl'.sq, v) <=> Contains(ctl.sq, v)
  /\ guard \in {t, NoThread} /\ guard' \in {t, NoThread}
  /\ MxAwaited \in {u, NoThread} /\ MxAwaited' \in {u, NoThread}
  /\ MxElect \in {u, NoThread} /\ MxElect' \in {u, NoThread}
  /\ ctl.owner \in {t, u, NoThread} /\ ctl'.owner \in {t, u, NoThread}
  /\ UNCHANGED <<count, stopped, exists>>

(***************************************************************************)
(* Such a step has to be looked at for these two threads.                  *)
(***************************************************************************)
LEMMA MxInnerInv ==
  ASSUME MxInv, NEW t \in Threads, NEW u \in Threads \union {NoThread}, MxInner(t, u),
         MxPart(t)', u \in Threads => MxPart(u)'
  PROVE  MxInv'
<1> USE ThreadsAssumption
<1>1. \A v \in Threads \ {t, u} : MxSame(v)
  BY DEF MxInner, MxSame
<1>2. QED
  BY <1>1, MxFrame DEF MxInner

(***************************************************************************)
(* Nobody is served: the internal mutex is taken, the word is loaded, or   *)
(* the mutex becomes free.                                                 *)
(***************************************************************************)
LEMMA MxAlone ==
  ASSUME MxInv, NEW t \in Threads, pc[t] \in {"u_lock", "u_load", "u_schedule"}, guard \in {t, NoThread},
         NEW l \in {"u_load", "u_schedule", "idle"}, NEW s \in Mutex!Control,
         Mutex!Enter(t, l, s, NoThread, FALSE), guard' = IF l = "idle" THEN NoThread ELSE t,
         IF l = "idle" THEN ctl' = [ctl EXCEPT !.owner = NoThread] /\ ctl.sq = <<>> ELSE ctl' = ctl,
         l = "u_schedule" => s = ctl,
         UNCHANGED <<fifo, exists, stopped, toSleep, saves, faults, recursive, count, sched, held>>
  PROVE  MxInv'
<1> USE ThreadsAssumption
<1>1. /\ MxTypes /\ MxListInv /\ MxPart(t) /\ held[t] \in Nat /\ ctl \in Mutex!Control
      /\ ctl.sq \in Seq(Threads) /\ Distinct(ctl.sq)
  BY MxReads
<1>2. l \in MxLabels
  BY DEF MxLabels
<1>3. /\ pc' \in [Threads -> MxLabels] /\ timed' \in [Threads -> {FALSE}]
      /\ snap' \in [Threads -> Mutex!Control] /\ next' \in [Threads -> Threads \union {NoThread}]
      /\ pc'[t] = l /\ snap'[t] = s /\ next'[t] = NoThread
      /\ \A v \in Threads \ {t} : pc'[v] = pc[v] /\ snap'[v] = snap[v] /\ next'[v] = next[v]
  BY <1>1, <1>2, MxEnters
<1>4. /\ ctl.owner = t /\ exists /\ held[t] = 0 /\ ~Contains(ctl.sq, t) /\ sched[t] = "on"
  BY <1>1 DEF MxPart, MxOwnPart, MxWaitPart, MxUnlocks, MxWaits, Mutex!UnderIdm
<1>5. /\ MxAwaited = NoThread /\ MxElect = NoThread /\ MxAwaited' = NoThread /\ MxElect' = NoThread
  BY <1>3 DEF MxAwaited, MxElect
<1>6. /\ ctl' \in Mutex!Control /\ ctl'.sq = ctl.sq /\ ctl'.owner = IF l = "idle" THEN NoThread ELSE t
      /\ l = "idle" => ctl.sq = <<>>
  BY <1>1, <1>4 DEF Mutex!Control
<1>7. MxTypes'
  BY <1>1, <1>3, <1>6 DEF MxTypes, MxLocals, ObjTypeOK
<1>8. MxListInv'
  BY <1>1, <1>4, <1>6 DEF MxListInv
<1>9. MxInner(t, NoThread)
  BY <1>3, <1>4, <1>5, <1>6, <1>7, <1>8 DEF MxInner
<1>10. MxPart(t)'
  <2>1. held'[t] = 0
    BY <1>4
  <2>2. MxOwnPart(t)'
    BY <1>3, <1>4, <1>6, <2>1 DEF MxOwnPart, MxUnlocks, MxWaits
  <2>3. MxReadPart(t)'
    BY <1>3, <1>6 DEF MxReadPart, MxInside
  <2>4. MxWaitPart(t)'
    BY <1>3, <1>4, <1>5, <1>6 DEF MxWaitPart, MxWaits
  <2>5. QED
    BY <2>2, <2>3, <2>4 DEF MxPart
<1>11. NoThread \in Threads \union {NoThread} /\ NoThread \notin Threads
  OBVIOUS
<1>12. QED
  BY <1>9, <1>10, <1>11, MxInnerInv

(***************************************************************************)
(* unlock takes the internal mutex and loads the word.                     *)
(***************************************************************************)
LEMMA MxUnlockLoads ==
  ASSUME MxInv, NEW t \in Threads, Mutex!UnlockGuard(t) \/ Mutex!ReownLoad(t) \/ Mutex!ReownNobody(t)
  PROVE  MxInv'
<1> USE ThreadsAssumption
<1>1. /\ MxPart(t) /\ timed[t] = FALSE /\ ctl \in Mutex!Control /\ ctl.sq \in Seq(Threads)
      /\ Mutex!NoSnap \in Mutex!Control
  BY MxReads
<1>2. /\ pc[t] \in {"u_lock", "u_load", "u_schedule"}
      /\ UNCHANGED <<fifo, exists, stopped, toSleep, saves, faults, recursive, count, sched, held>>
  BY DEF Mutex!UnlockGuard, Mutex!ReownLoad, Mutex!ReownNobody, Mutex!TakeGuard, Mutex!LoadControl,
     Mutex!world
<1>a. CASE Mutex!UnlockGuard(t)
  <2>1. /\ guard = NoThread /\ guard' = t /\ ctl' = ctl
        /\ Mutex!Enter(t, "u_load", Mutex!NoSnap, NoThread, FALSE)
    BY <1>1, <1>a DEF Mutex!UnlockGuard, Mutex!TakeGuard, Mutex!Goto
  <2>2. QED
    BY <1>1, <1>2, <2>1, MxAlone
<1>b. CASE Mutex!ReownLoad(t)
  <2>1. /\ guard' = guard /\ ctl' = ctl /\ pc[t] = "u_load"
        /\ Mutex!Enter(t, "u_schedule", ctl, NoThread, FALSE)
    BY <1>1, <1>b DEF Mutex!ReownLoad, Mutex!LoadControl
  <2>2. guard = t
    BY <1>1, <2>1 DEF MxPart, MxReadPart, MxInside
  <2>3. QED
    BY <1>1, <1>2, <2>1, <2>2, MxAlone
<1>c. CASE Mutex!ReownNobody(t)
  <2>1. guard = t
    BY <1>1, <1>c DEF MxPart, MxReadPart, MxInside, Mutex!ReownNobody
  <2>2. CASE Mutex!Unchanged(t)
    <3>1. /\ ctl' = [ctl EXCEPT !.owner = NoThread] /\ guard' = NoThread /\ snap[t].sq = <<>>
          /\ Mutex!Enter(t, "idle", Mutex!NoSnap, NoThread, FALSE)
      BY <1>1, <1>c, <2>2 DEF Mutex!ReownNobody, Mutex!Goto
    <3>2. ctl.sq = <<>>
      BY <1>1, <2>2, <3>1 DEF Mutex!Unchanged, Mutex!First
    <3>3. QED
      BY <1>1, <1>2, <2>1, <3>1, <3>2, MxAlone
  <2>3. CASE ~Mutex!Unchanged(t)
    <3>1. /\ ctl' = ctl /\ guard' = guard /\ Mutex!Enter(t, "u_load", Mutex!NoSnap, NoThread, FALSE)
      BY <1>1, <1>c, <2>3 DEF Mutex!ReownNobody, Mutex!Goto
    <3>2. QED
      BY <1>1, <1>2, <2>1, <3>1, MxAlone
  <2>4. QED
    BY <2>2, <2>3
<1>Q. QED
  BY <1>a, <1>b, <1>c

(***************************************************************************)
(* reown chooses the queued thread u: as the head it becomes the owner at  *)
(* once, else it is unlinked, unless it has left with cpu_flag::again.     *)
(***************************************************************************)
LEMMA MxServes ==
  ASSUME MxInv, NEW t \in Threads, NEW u \in Threads, pc[t] = "u_schedule", Contains(ctl.sq, u),
         NEW l \in {"u_awake", "u_store"}, Mutex!Enter(t, l, Mutex!NoSnap, u, FALSE),
         ctl' \in Mutex!Control, Distinct(ctl'.sq),
         \A v \in Threads : Contains(ctl'.sq, v) <=> Contains(ctl.sq, v) /\ (v # u \/ pc[u] = "a_lock"),
         ctl'.owner = IF l = "u_awake" THEN u ELSE t, l = "u_awake" => pc[u] # "a_lock",
         UNCHANGED <<fifo, exists, stopped, toSleep, saves, faults, recursive, count, guard, sched, held>>
  PROVE  MxInv'
<1> USE ThreadsAssumption
<1>1. /\ MxTypes /\ MxListInv /\ MxPart(t) /\ MxPart(u) /\ held[t] \in Nat /\ held[u] \in Nat
      /\ Mutex!NoSnap \in Mutex!Control
  BY MxReads
<1>2. l \in MxLabels /\ u \in Threads \union {NoThread}
  BY DEF MxLabels
<1>3. /\ pc' \in [Threads -> MxLabels] /\ timed' \in [Threads -> {FALSE}]
      /\ snap' \in [Threads -> Mutex!Control] /\ next' \in [Threads -> Threads \union {NoThread}]
      /\ pc'[t] = l /\ snap'[t] = Mutex!NoSnap /\ next'[t] = u
      /\ \A v \in Threads \ {t} : pc'[v] = pc[v] /\ snap'[v] = snap[v] /\ next'[v] = next[v]
  BY <1>1, <1>2, MxEnters
<1>4. /\ ctl.owner = t /\ exists /\ guard = t /\ held[t] = 0 /\ ~Contains(ctl.sq, t) /\ sched[t] = "on"
  BY <1>1 DEF MxPart, MxOwnPart, MxReadPart, MxWaitPart, MxUnlocks, MxWaits, MxInside, Mutex!UnderIdm
<1>5. /\ u # t /\ pc[u] \in MxWaits \union {"a_lock"} /\ held[u] = 0
  BY <1>1, <1>4 DEF MxPart, MxOwnPart, MxWaitPart, MxWaits
<1>6. /\ MxAwaited = NoThread /\ MxElect = NoThread /\ MxAwaited' = u
      /\ MxElect' = IF l = "u_store" THEN u ELSE NoThread
  BY <1>3, <1>4 DEF MxAwaited, MxElect
<1>7. MxTypes'
  BY Zenon, <1>1, <1>3 DEF MxTypes, MxLocals, ObjTypeOK
<1>8. MxListInv'
  BY <1>4 DEF MxListInv
<1>9. MxInner(t, u)
  BY <1>3, <1>4, <1>6, <1>7, <1>8 DEF MxInner
<1>10. MxPart(t)'
  <2>1. MxOwnPart(t)'
    BY <1>3, <1>4 DEF MxOwnPart, MxUnlocks, MxWaits
  <2>2. MxReadPart(t)'
    BY <1>3, <1>4 DEF MxReadPart, MxInside
  <2>3. MxWaitPart(t)'
    BY <1>3, <1>4, <1>5, <1>6 DEF MxWaitPart, MxWaits
  <2>4. QED
    BY <2>1, <2>2, <2>3 DEF MxPart
<1>11. MxPart(u)'
  <2>1. /\ pc'[u] = pc[u] /\ held'[u] = 0 /\ sched'[u] = sched[u] /\ guard' = t
        /\ Contains(ctl'.sq, u) <=> pc[u] = "a_lock"
    BY <1>3, <1>4, <1>5
  <2>2. MxOwnPart(u)'
    BY <1>1, <1>5, <1>6, <2>1 DEF MxPart, MxOwnPart, MxUnlocks, MxWaits
  <2>3. MxReadPart(u)'
    BY <1>5, <2>1 DEF MxReadPart, MxWaits, MxInside
  <2>4. MxWaitPart(u)'
    BY <1>1, <1>5, <1>6, <2>1 DEF MxPart, MxWaitPart, MxWaits
  <2>5. QED
    BY <2>2, <2>3, <2>4 DEF MxPart
<1>12. QED
  BY <1>2, <1>9, <1>10, <1>11, MxInnerInv

(***************************************************************************)
(* Whom schedule chooses is in the list.                                   *)
(***************************************************************************)
LEMMA MxServedIn ==
  ASSUME NEW q \in Seq(Threads), q # <<>>, NEW u \in Mutex!ServedFirst(q)
  PROVE  Contains(q, u)
<1>1. Len(q) \in 1..Len(q)
  OBVIOUS
<1>2. CASE fifo
  BY <1>1, <1>2 DEF Mutex!ServedFirst, Mutex!Last, Contains
<1>3. CASE ~fifo
  BY <1>3 DEF Mutex!ServedFirst, Contains
<1>4. QED
  BY <1>2, <1>3

(***************************************************************************)
(* The two ways to hand the mutex over.                                    *)
(***************************************************************************)
LEMMA MxReown ==
  ASSUME MxInv, NEW t \in Threads, NEW u \in Threads, Mutex!ReownHead(t, u) \/ Mutex!ReownNode(t, u)
  PROVE  MxInv'
<1> USE ThreadsAssumption
<1>1. /\ MxPart(t) /\ timed[t] = FALSE /\ ctl \in Mutex!Control /\ ctl.sq \in Seq(Threads)
      /\ Distinct(ctl.sq) /\ snap[t].sq \in Seq(Threads) /\ Mutex!NoSnap \in Mutex!Control
  BY MxReads
<1>2. /\ pc[t] = "u_schedule" /\ snap[t].sq # <<>> /\ u \in Mutex!ServedFirst(snap[t].sq)
      /\ UNCHANGED <<fifo, exists, stopped, toSleep, saves, faults, recursive, count, guard, sched, held>>
  BY DEF Mutex!ReownHead, Mutex!ReownNode, Mutex!world
<1>3. Contains(snap[t].sq, u)
  BY <1>1, <1>2, MxServedIn
<1>4. Contains(ctl.sq, u) /\ ctl.owner = t /\ guard = t
  BY <1>1, <1>2, <1>3 DEF MxPart, MxOwnPart, MxReadPart, MxUnlocks, MxInside
<1>5. ctl = [owner |-> t, sq |-> ctl.sq]
  BY <1>1, <1>4 DEF Mutex!Control
<1>a. CASE Mutex!ReownHead(t, u) /\ Mutex!Unchanged(t)
  <2>1. /\ u = Head(snap[t].sq) /\ pc[u] # "a_lock" /\ ctl' = [owner |-> u, sq |-> Tail(ctl.sq)]
        /\ Mutex!Enter(t, "u_awake", Mutex!NoSnap, u, FALSE)
    BY <1>a DEF Mutex!ReownHead, Mutex!Again
  <2>2. ctl.sq # <<>>
    BY <1>4 DEF Contains
  <2>3. snap[t].sq[1] = u /\ ctl.sq[1] = snap[t].sq[1]
    BY <1>1, <1>2, <1>a, <2>1, <2>2 DEF Mutex!Unchanged, Mutex!First
  <2>4. Tail(ctl.sq) = RemoveAt(ctl.sq, 1) /\ 1 \in 1..Len(ctl.sq)
    <3>1. Len(ctl.sq) >= 1 /\ Tail(ctl.sq) = RemoveAt(ctl.sq, 1)
      BY <1>1, <2>2, TailIs
    <3>2. QED
      BY <1>1, <3>1
  <2>5. RemoveFirst(ctl.sq, u) = RemoveAt(ctl.sq, 1)
    BY <1>1, <2>3, <2>4, RemoveFirstIs
  <2>6. ctl'.sq = RemoveFirst(ctl.sq, u) /\ ctl'.owner = u /\ ctl' = [owner |-> u, sq |-> ctl'.sq]
    BY <2>1, <2>4, <2>5
  <2>7. /\ ctl'.sq \in Seq(Threads) /\ Distinct(ctl'.sq)
        /\ \A v \in Threads : Contains(ctl'.sq, v) <=> Contains(ctl.sq, v) /\ v # u
    BY <1>1, <2>6, RemoveFirstHas
  <2>8. ctl' \in Mutex!Control
    BY <2>6, <2>7 DEF Mutex!Control
  <2>9. QED
    BY <1>2, <1>4, <2>1, <2>6, <2>7, <2>8, MxServes
<1>b. CASE Mutex!ReownHead(t, u) /\ ~Mutex!Unchanged(t)
  <2>1. ctl' = ctl /\ Mutex!Enter(t, "u_load", Mutex!NoSnap, NoThread, FALSE) /\ guard' = guard
    BY <1>1, <1>b DEF Mutex!ReownHead, Mutex!Goto
  <2>2. /\ UNCHANGED <<fifo, exists, stopped, toSleep, saves, faults, recursive, count, sched, held>>
        /\ pc[t] \in {"u_lock", "u_load", "u_schedule"}
    BY <1>2
  <2>3. QED
    BY <1>1, <1>4, <2>1, <2>2, MxAlone
<1>c. CASE Mutex!ReownNode(t, u)
  <2>1. Mutex!Enter(t, "u_store", Mutex!NoSnap, u, FALSE)
    BY <1>c DEF Mutex!ReownNode
  <2>2. CASE pc[u] = "a_lock"
    <3>1. ctl' = [ctl EXCEPT !.sq = ctl.sq]
      BY <1>c, <2>2 DEF Mutex!ReownNode, Mutex!Again
    <3>2. ctl' = ctl
      BY <1>5, <3>1
    <3>3. QED
      BY <1>1, <1>2, <1>4, <2>1, <2>2, <3>2, MxServes
  <2>3. CASE pc[u] # "a_lock"
    <3>1. ctl' = [ctl EXCEPT !.sq = Mutex!Without(ctl.sq, u)]
      BY <1>c, <2>3 DEF Mutex!ReownNode, Mutex!Again
    <3>2. ctl'.sq = RemoveFirst(ctl.sq, u) /\ ctl'.owner = t /\ ctl' = [owner |-> t, sq |-> ctl'.sq]
      BY <1>5, <3>1, MxSeq
    <3>3. /\ ctl'.sq \in Seq(Threads) /\ Distinct(ctl'.sq)
          /\ \A v \in Threads : Contains(ctl'.sq, v) <=> Contains(ctl.sq, v) /\ v # u
      BY <1>1, <3>2, RemoveFirstHas
    <3>4. ctl' \in Mutex!Control
      BY <3>2, <3>3 DEF Mutex!Control
    <3>5. \A v \in Threads : Contains(ctl'.sq, v) <=> Contains(ctl.sq, v) /\ (v # u \/ pc[u] = "a_lock")
      BY <2>3, <3>3
    <3>6. ctl'.owner = t /\ Distinct(ctl'.sq) /\ pc[t] = "u_schedule" /\ Contains(ctl.sq, u)
      BY <1>2, <1>4, <3>2, <3>3
    <3>7. QED
      BY <1>2, <2>1, <3>4, <3>5, <3>6, MxServes
  <2>4. QED
    BY <2>2, <2>3
<1>Q. QED
  BY <1>a, <1>b, <1>c

(***************************************************************************)
(* The owner is stored; a thread with cpu_flag::again is not awakened, and *)
(* unlock is deferred.                                                     *)
(***************************************************************************)
LEMMA MxReownStore ==
  ASSUME MxInv, NEW t \in Threads, Mutex!ReownStore(t)
  PROVE  MxInv'
<1> USE ThreadsAssumption
<1>1. /\ MxTypes /\ MxListInv /\ MxPart(t) /\ timed[t] = FALSE /\ ctl \in Mutex!Control
      /\ Mutex!NoSnap \in Mutex!Control
  BY MxReads
<1>2. /\ pc[t] = "u_store" /\ ctl' = [ctl EXCEPT !.owner = next[t]]
      /\ UNCHANGED <<fifo, exists, stopped, toSleep, saves, faults, recursive, count, sched, held>>
  BY DEF Mutex!ReownStore, Mutex!world
<1>3. PICK u \in Threads : u = next[t]
  BY <1>1, <1>2 DEF MxPart, MxReadPart
<1>4. /\ ctl.owner = t /\ exists /\ guard = t /\ held[t] \in Nat /\ held[t] = 0 /\ sched[t] = "on"
      /\ ~Contains(ctl.sq, t)
  <2>1. held[t] \in Nat
    BY MxReads
  <2>2. QED
    BY <1>1, <1>2, <2>1 DEF MxPart, MxOwnPart, MxReadPart, MxWaitPart, MxUnlocks, MxWaits, MxInside,
       Mutex!UnderIdm
<1>5. MxAwaited = u /\ MxElect = u
  BY <1>2, <1>3, <1>4 DEF MxAwaited, MxElect
<1>6. /\ MxPart(u) /\ held[u] \in Nat
      /\ \/ pc[u] \in MxWaits /\ ~Contains(ctl.sq, u)
         \/ pc[u] = "a_lock"
  BY <1>5, MxReads DEF MxPart, MxWaitPart
<1>7. u # t /\ held[u] = 0
  BY <1>2, <1>6 DEF MxPart, MxOwnPart, MxWaits
<1>8. ctl' \in Mutex!Control /\ ctl'.owner = u /\ ctl'.sq = ctl.sq
  BY <1>1, <1>2, <1>3 DEF Mutex!Control
<1>9. PICK l \in {"a_unlock", "u_awake"}, n \in {u, NoThread} :
        /\ Mutex!Enter(t, l, Mutex!NoSnap, n, FALSE)
        /\ l = "a_unlock" <=> pc[u] = "a_lock"
        /\ l = "u_awake" => n = u /\ guard' = t
        /\ l = "a_unlock" => guard' = NoThread
  <2>1. CASE pc[u] = "a_lock"
    <3>1. guard' = NoThread /\ Mutex!Enter(t, "a_unlock", Mutex!NoSnap, NoThread, FALSE)
      BY <1>1, <1>3, <2>1 DEF Mutex!ReownStore, Mutex!Again, Mutex!Goto
    <3>2. QED
      BY <2>1, <3>1
  <2>2. CASE pc[u] # "a_lock"
    <3>1. guard' = guard /\ Mutex!Enter(t, "u_awake", Mutex!NoSnap, u, FALSE)
      BY <1>3, <2>2 DEF Mutex!ReownStore, Mutex!Again
    <3>2. QED
      BY <1>4, <2>2, <3>1
  <2>3. QED
    BY <2>1, <2>2
<1>10. l \in MxLabels /\ n \in Threads \union {NoThread} /\ u \in Threads \union {NoThread}
  BY DEF MxLabels
<1>11. /\ pc' \in [Threads -> MxLabels] /\ timed' \in [Threads -> {FALSE}]
      /\ snap' \in [Threads -> Mutex!Control] /\ next' \in [Threads -> Threads \union {NoThread}]
      /\ pc'[t] = l /\ snap'[t] = Mutex!NoSnap /\ next'[t] = n
      /\ \A v \in Threads \ {t} : pc'[v] = pc[v] /\ snap'[v] = snap[v] /\ next'[v] = next[v]
  <2>1. Mutex!Enter(t, l, Mutex!NoSnap, n, FALSE)
    BY <1>9
  <2>2. MxTypes /\ t \in Threads /\ l \in MxLabels /\ n \in Threads \union {NoThread}
        /\ Mutex!NoSnap \in Mutex!Control
    BY <1>1, <1>10
  <2>3. timed' \in [Threads -> {FALSE}]
    <3>1. timed \in [Threads -> {FALSE}] /\ timed' = [timed EXCEPT ![t] = FALSE]
      BY <2>1, <2>2 DEF MxTypes, MxLocals, Mutex!Enter
    <3>2. QED
      BY <3>1, Zenon
  <2>4. QED
    BY <2>1, <2>2, <2>3 DEF MxTypes, MxLocals, Mutex!Enter
<1>12. MxAwaited' = (IF l = "u_awake" THEN u ELSE NoThread) /\ MxElect' = NoThread
  BY <1>9, <1>11 DEF MxAwaited, MxElect
<1>13. MxTypes'
  BY Zenon, <1>1, <1>2, <1>8, <1>9, <1>11 DEF MxTypes, MxLocals, ObjTypeOK
<1>14. MxListInv'
  BY <1>1, <1>2, <1>4, <1>8 DEF MxListInv
<1>15. MxInner(t, u)
  BY <1>2, <1>4, <1>5, <1>8, <1>9, <1>11, <1>12, <1>13, <1>14 DEF MxInner
<1>16. MxPart(t)'
  <2>1. MxOwnPart(t)'
    BY <1>2, <1>4, <1>11 DEF MxOwnPart, MxUnlocks, MxWaits
  <2>2. MxReadPart(t)'
    BY <1>9, <1>11 DEF MxReadPart, MxInside
  <2>3. MxWaitPart(t)'
    BY <1>2, <1>4, <1>7, <1>8, <1>11, <1>12 DEF MxWaitPart, MxWaits
  <2>4. QED
    BY <2>1, <2>2, <2>3 DEF MxPart
<1>17. MxPart(u)'
  <2>1. /\ pc'[u] = pc[u] /\ held'[u] = 0 /\ sched'[u] = sched[u] /\ guard' # u
        /\ Contains(ctl'.sq, u) <=> Contains(ctl.sq, u)
    BY <1>2, <1>7, <1>8, <1>9, <1>11
  <2>2. MxOwnPart(u)'
    BY <1>2, <1>6, <1>8, <2>1 DEF MxPart, MxOwnPart, MxUnlocks, MxWaits
  <2>3. MxReadPart(u)'
    BY <1>6, <2>1 DEF MxReadPart, MxWaits, MxInside
  <2>4. MxWaitPart(u)'
    BY <1>2, <1>5, <1>6, <1>8, <1>9, <1>12, <2>1 DEF MxPart, MxWaitPart, MxWaits
  <2>5. QED
    BY <2>2, <2>3, <2>4 DEF MxPart
<1>18. QED
  BY <1>10, <1>15, <1>16, <1>17, MxInnerInv

(***************************************************************************)
(* The new owner is awakened, or its sleep is cancelled.                   *)
(***************************************************************************)
LEMMA MxUnlockAwake ==
  ASSUME MxInv, NEW t \in Threads, Mutex!UnlockAwake(t)
  PROVE  MxInv'
<1> USE ThreadsAssumption
<1>1. /\ MxTypes /\ MxListInv /\ MxPart(t) /\ timed[t] = FALSE /\ ctl \in Mutex!Control
      /\ Mutex!NoSnap \in Mutex!Control /\ held[t] \in Nat
  BY MxReads
<1>2. /\ pc[t] = "u_awake" /\ guard' = NoThread
      /\ Mutex!Enter(t, "idle", Mutex!NoSnap, NoThread, FALSE)
      /\ UNCHANGED <<fifo, exists, stopped, toSleep, saves, faults, recursive, ctl, count, held>>
  BY <1>1 DEF Mutex!UnlockAwake, Mutex!Goto, Mutex!world
<1>3. PICK u \in Threads : u = next[t]
  BY <1>1, <1>2 DEF MxPart, MxReadPart
<1>4. /\ exists /\ guard = t /\ held[t] = 0 /\ sched[t] = "on" /\ ~Contains(ctl.sq, t)
  BY <1>1, <1>2 DEF MxPart, MxOwnPart, MxReadPart, MxWaitPart, MxWaits, MxInside, Mutex!UnderIdm
<1>5. MxAwaited = u /\ MxElect = NoThread
  BY <1>2, <1>3, <1>4 DEF MxAwaited, MxElect
<1>6. MxPart(u) /\ pc[u] \in MxWaits /\ ~Contains(ctl.sq, u) /\ ctl.owner = u /\ held[u] \in Nat
  BY <1>5, MxReads DEF MxPart, MxWaitPart
<1>7. u # t /\ held[u] = 0 /\ pc[u] # "idle"
  BY <1>2, <1>6 DEF MxPart, MxOwnPart, MxWaits
<1>8. /\ sched' \in [Threads -> SchedStates]
      /\ pc[u] = "l_wait" => sched'[u] # "asleep"
      /\ pc[u] = "l_sleep" => sched'[u] = "cancelled"
      /\ \A v \in Threads \ {u} : sched'[v] = sched[v]
  <2>1. sched \in [Threads -> SchedStates] /\ sched[u] \in SchedStates
    BY <1>1 DEF MxTypes, ObjTypeOK
  <2>2. PICK x \in SchedStates : /\ sched' = [sched EXCEPT ![u] = x]
                                 /\ x = IF sched[u] = "asleep" THEN "ready"
                                        ELSE IF sched[u] = "on" /\ pc[u] = "l_sleep" THEN "cancelled"
                                        ELSE sched[u]
    BY <1>3, <2>1 DEF Mutex!UnlockAwake, SchedStates
  <2>3. pc[u] = "l_sleep" => sched[u] \in {"on", "cancelled"}
    BY <1>6 DEF MxPart, MxWaitPart
  <2>4. QED
    BY <2>1, <2>2, <2>3
<1>9. "idle" \in MxLabels /\ u \in Threads \union {NoThread}
  BY DEF MxLabels
<1>10. /\ pc' \in [Threads -> MxLabels] /\ timed' \in [Threads -> {FALSE}]
      /\ snap' \in [Threads -> Mutex!Control] /\ next' \in [Threads -> Threads \union {NoThread}]
      /\ pc'[t] = "idle" /\ snap'[t] = Mutex!NoSnap /\ next'[t] = NoThread
      /\ \A v \in Threads \ {t} : pc'[v] = pc[v] /\ snap'[v] = snap[v] /\ next'[v] = next[v]
  BY <1>1, <1>2, <1>9, MxEnters
<1>11. MxAwaited' = NoThread /\ MxElect' = NoThread
  BY <1>2 DEF MxAwaited, MxElect
<1>12. MxTypes'
  BY <1>1, <1>2, <1>8, <1>10 DEF MxTypes, MxLocals, ObjTypeOK
<1>13. MxListInv'
  BY <1>1, <1>2 DEF MxListInv
<1>14. MxInner(t, u)
  BY <1>2, <1>4, <1>5, <1>6, <1>8, <1>10, <1>11, <1>12, <1>13 DEF MxInner
<1>15. MxPart(t)'
  <2>1. sched'[t] = "on" /\ held'[t] = 0
    BY <1>2, <1>4, <1>7, <1>8
  <2>2. MxOwnPart(t)'
    BY <1>10, <2>1 DEF MxOwnPart, MxUnlocks, MxWaits, Mutex!UnderIdm
  <2>3. MxReadPart(t)'
    BY <1>2, <1>10 DEF MxReadPart, MxInside
  <2>4. MxWaitPart(t)'
    BY <1>2, <1>4, <1>10, <1>11, <2>1 DEF MxWaitPart, MxWaits
  <2>5. QED
    BY <2>2, <2>3, <2>4 DEF MxPart
<1>16. MxPart(u)'
  <2>1. pc'[u] = pc[u] /\ held'[u] = 0 /\ pc[u] \in {"l_sleep", "l_wait"}
    BY <1>2, <1>6, <1>7, <1>10 DEF MxWaits
  <2>2. MxOwnPart(u)'
    BY <1>2, <1>4, <1>6, <2>1 DEF MxOwnPart, MxUnlocks
  <2>3. MxReadPart(u)'
    BY <1>2, <2>1 DEF MxReadPart, MxInside
  <2>4. MxWaitPart(u)'
    BY <1>2, <1>6, <1>8, <1>11, <2>1 DEF MxWaitPart, MxWaits
  <2>5. QED
    BY <2>2, <2>3, <2>4 DEF MxPart
<1>17. QED
  BY <1>9, <1>14, <1>15, <1>16, MxInnerInv

(***************************************************************************)
(* Every step keeps the invariant.                                         *)
(***************************************************************************)
LEMMA MxNextInv ==
  ASSUME MxInv, Mutex!Next
  PROVE  MxInv'
<1>1. ASSUME NEW t \in Threads, Mutex!Call(t) PROVE MxInv'
  <2>1. Mutex!Timeouts = {FALSE}
    BY DEF MxInv, MxTypes, Mutex!Timeouts
  <2>2. ASSUME NEW to \in Mutex!Timeouts, Mutex!Lock(t, to) PROVE MxInv'
    <3>1. to = FALSE
      BY <2>1, <2>2
    <3>2. Mutex!Lock(t, FALSE)
      BY <2>2, <3>1
    <3>3. QED
      BY <3>2, MxLocks
  <2>3. QED
    BY <1>1, <2>2, MxLocks, MxUnlock, MxStops DEF Mutex!Call
<1>2. ASSUME NEW t \in Threads, Mutex!Step(t) PROVE MxInv'
  <2>1. CASE \/ Mutex!LockCas(t) \/ Mutex!TryLockCas(t) \/ Mutex!TryOwn(t) \/ Mutex!Sleep(t)
             \/ Mutex!TakeSignal(t)
    BY <2>1, MxLocks, MxTryOwn, MxSleeps
  <2>2. CASE \/ Mutex!UnlockCas(t) \/ Mutex!UnlockGuard(t) \/ Mutex!ReownLoad(t) \/ Mutex!ReownNobody(t)
             \/ Mutex!ReownStore(t) \/ Mutex!UnlockAwake(t)
             \/ \E u \in Threads : Mutex!ReownHead(t, u) \/ Mutex!ReownNode(t, u)
    BY <2>2, MxUnlockCas, MxUnlockLoads, MxReownStore, MxUnlockAwake, MxReown
  <2>3. QED
    BY <1>2, <2>1, <2>2, MxNoTimeOut DEF Mutex!Step
<1>3. ASSUME NEW t \in Threads, Mutex!SaveStep(t) PROVE MxInv'
  BY <1>3, MxStops, MxSleeps, MxLocks, MxUnlock DEF Mutex!SaveStep
<1>4. QED
  BY <1>1, <1>2, <1>3, MxLocks, MxNoTimeOut, MxSchedule, MxSaveAndLoad
  DEF Mutex!Next, Mutex!NextWithoutSave

-----------------------------------------------------------------------------
(* The mutex with savestates: what its invariant says *)

(***************************************************************************)
(* In a behaviour with a mutex its invariant always holds.                 *)
(***************************************************************************)
THEOREM MutexAmongLocks == LocksSpec => [](kind = "mutex" => MxInv)
<1>1. LocksInit => (kind = "mutex" => MxInv)
  BY MxInitInv DEF LocksInit
<1>2. ASSUME kind = "mutex" => MxInv, [LocksNext]_locksVars
      PROVE  (kind = "mutex" => MxInv)'
  <2>1. CASE UNCHANGED locksVars
    <3>1. /\ kind' = kind /\ exists' = exists /\ stopped' = stopped
          /\ UNCHANGED <<fifo, guard, pc, timed, sched, toSleep, saves, faults, recursive, ctl, count,
                         snap, next, held>>
      BY <2>1 DEF locksVars, vars, objVars, own, mutexVars
    <3>2. ASSUME MxInv PROVE MxInv'
      <4>1. stopped \subseteq Threads
        BY <3>2 DEF MxInv, MxTypes, ObjTypeOK
      <4>2. QED
        BY <3>1, <3>2, <4>1, MxStays
    <3>3. QED
      BY <1>2, <3>1, <3>2
  <2>2. CASE LocksNext
    BY <1>2, <2>2, MxNextInv DEF LocksNext
  <2>3. QED
    BY <1>2, <2>1, <2>2
<1>3. QED
  BY <1>1, <1>2, PTL DEF LocksSpec, locksVars

(***************************************************************************)
(* Mutex: exclusion and the hand-over to waiters survive a savestate at    *)
(* any moment: nobody is queued in a free or destroyed mutex after the     *)
(* waiters have queued again, and nobody is awakened who has left because  *)
(* of the stop.                                                            *)
(***************************************************************************)
THEOREM MutexSaved == LocksSpec => []MutexSurvivesSave
<1>1. ASSUME kind = "mutex" => MxInv PROVE MutexSurvivesSave
  <2>1. SUFFICES ASSUME MxInv
                 PROVE  /\ Mutex!TypeOK /\ Mutex!HeldIsOwned
                        /\ Mutex!QueueHasOwner /\ Mutex!AwakeIsOnTime
    BY <1>1 DEF MutexSurvivesSave
  <2>2. MxTypes /\ MxListInv /\ \A t \in Threads : MxPart(t)
    BY <2>1 DEF MxInv
  <2>3. Mutex!TypeOK
    <3>1. pc \in [Threads -> Mutex!PCs]
      BY <2>2 DEF MxTypes, MxLocals, MxLabels, Mutex!PCs
    <3>2. QED
      BY <2>2, <3>1 DEF Mutex!TypeOK, Mutex!ObjTypeOK, Mutex!SchedStates, MxTypes, MxLocals, ObjTypeOK,
         SchedStates
  <2>4. Mutex!HeldIsOwned
    BY <2>2 DEF Mutex!HeldIsOwned, MxPart, MxOwnPart
  <2>5. Mutex!QueueHasOwner
    BY <2>2 DEF Mutex!QueueHasOwner, MxListInv, Distinct
  <2>6. ASSUME NEW t \in Threads, NEW u \in Threads, pc[t] \in {"u_store", "u_awake"}, next[t] = u
        PROVE  pc[u] \in {"l_sleep", "l_wait"} \/ Mutex!Again(u)
    <3>1. guard = t
      BY <2>2, <2>6 DEF MxPart, MxReadPart, MxInside
    <3>2. MxAwaited = u
      BY <2>6, <3>1 DEF MxAwaited
    <3>3. QED
      BY <2>2, <3>2 DEF MxPart, MxWaitPart, MxWaits, Mutex!Again
  <2>7. Mutex!AwakeIsOnTime
    BY <2>6 DEF Mutex!AwakeIsOnTime
  <2>8. QED
    BY <2>3, <2>4, <2>5, <2>7
<1>2. QED
  BY <1>1, MutexAmongLocks, PTL
=============================================================================
