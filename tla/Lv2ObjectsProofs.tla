-------------------------- MODULE Lv2ObjectsProofs --------------------------
(***************************************************************************)
(* What is proved of the objects that MCLv2Objects puts side by side: of   *)
(* the semaphore, first by itself and then among the objects, that it      *)
(* counts its permits and its waiters exactly; of the reader-writer lock,  *)
(* that the writer is alone, the readers are counted, and nobody that is   *)
(* queued or was let in is forgotten; of the timers, that every timer that *)
(* runs is looked at when it is due and sends one event for each time.     *)
(* Lv2EventProofs goes on with the event queue and the event flag.         *)
(*                                                                         *)
(* All of it is for any finite set of threads and any number of savestates *)
(* in behaviours that have timeouts or savestates but not both (when a     *)
(* thread that has timed out is stopped, it goes back to its wait loop     *)
(* with a signal that nobody sent it).                                     *)
(***************************************************************************)
EXTENDS MCLv2Objects, QueueLemmas, FiniteSetTheorems

-----------------------------------------------------------------------------
(* The semaphore.  Its invariant relates val to the waiter list in each    *)
(* phase of the critical sections, and says of every thread in a wait call *)
(* whether it is queued, about to be awakened, or awakened.                *)

\* No behaviour has both timeouts and savestates.
OneFault == \A f \in Faults : ~({"timeout", "save"} \subseteq f)

\* The labels under the internal mutex.
Inside == {"w_dec", "w_sleep", "w_queue", "t_unqueue", "t_undo", "p_op", "p_wake"}

\* The labels of a timeout and of a call that a savestate interrupts.
TimeoutLabels == {"t_check", "t_lock", "t_unqueue", "t_undo"}
SaveLabels == {"a_wait", "w_redo", "a_post", "p_redo"}

\* A thread that has not been awakened is queued or about to be awakened.
InCall == {"w_wait", "t_check", "t_lock", "t_unqueue", "a_wait"}

\* A waiter that val counts, see Waiters.
Counted == {"w_sleep", "w_queue", "w_wait", "t_check", "t_lock", "t_unqueue", "t_undo",
            "a_wait"}

\* The types, without the bounds that follow from how val counts the waiters.
TypeInv ==
  /\ ObjTypeOK(PCs)
  /\ val \in Int /\ val <= MaxVal
  /\ sq \in Seq(Threads)
  /\ seen \in [Threads -> 0..MaxVal]
  /\ amount \in [Threads -> 0..MaxPost]
  /\ left \in Nat
  /\ toAwake \subseteq Threads
  /\ credit \in Int

FaultInv ==
  /\ stopped # {} \/ toSleep # {} => "save" \in faults
  /\ stopped # {} => saves < MaxSaves
  /\ \A t \in Threads :
       /\ pc[t] \in SaveLabels => "save" \in faults
       /\ timed[t] \/ pc[t] \in TimeoutLabels => "timeout" \in faults

GuardInv ==
  /\ \A t \in Threads : guard = t <=> pc[t] \in Inside
  /\ (\A t \in Threads : pc[t] # "p_wake") => left = 0 /\ toAwake = {}

ListInv ==
  /\ Distinct(sq)
  /\ \A t \in Threads : Contains(sq, t) => pc[t] \in InCall /\ t \notin toAwake

ValueInv ==
  /\ guard = NoThread => Len(sq) = Max2(-val, 0)
  /\ \A t \in Threads :
       /\ pc[t] \in {"w_dec", "t_unqueue", "p_op"} => Len(sq) = Max2(-val, 0)
       /\ pc[t] \in {"w_sleep", "w_queue", "t_undo"} => val < 0 /\ Len(sq) = -val - 1
       /\ pc[t] = "p_wake" => Len(sq) - left = Max2(-val, 0)

ExistsInv ==
  /\ ~exists => val >= 0
  /\ \A t \in Threads : pc[t] \in UnderIdm => exists

\* What a thread may rely on, given where it is.
ThreadInv(t) ==
  /\ pc[t] = "w_cas" => seen[t] > 0
  /\ pc[t] = "p_cas" => seen[t] + amount[t] <= MaxVal
  /\ pc[t] = "a_wait" => Contains(sq, t)
  /\ pc[t] \in {"p_op", "p_wake"} => \A u \in Threads : pc[u] # "a_wait"
  /\ t \in toAwake => pc[t] \in {"w_wait", "t_check", "t_lock"}

SchedInv(t) ==
  /\ sched[t] = "asleep" => pc[t] \in {"w_queue", "w_wait", "t_check", "a_wait"}
  /\ pc[t] = "w_queue" => sched[t] = "asleep"
  /\ pc[t] = "w_wait" =>
       IF Contains(sq, t) \/ t \in toAwake THEN sched[t] = "asleep"
       ELSE sched[t] \in {"ready", "signal"}

\* While loaded sleepers have not slept again only they make steps.
LoadInv ==
  toSleep # {} =>
    /\ val <= 0 /\ exists
    /\ \A t \in Threads :
         /\ pc[t] \in {"idle", "p_redo", "w_redo", "w_lock", "w_dec", "w_sleep", "w_queue",
                       "w_wait", "a_wait"}
         /\ t \in toSleep => pc[t] \in {"w_redo", "w_lock", "w_dec", "w_sleep"}

Inv ==
  /\ TypeInv /\ FaultInv /\ GuardInv /\ ListInv /\ ValueInv /\ ExistsInv
  /\ PermitsConserved
  /\ \A t \in Threads : ThreadInv(t) /\ SchedInv(t)
  /\ LoadInv

-----------------------------------------------------------------------------
(* What a thread and the number of waiters do in a step *)

\* The other threads keep their local variables.
Others(t) ==
  \A u \in Threads \ {t} :
    pc'[u] = pc[u] /\ timed'[u] = timed[u] /\ seen'[u] = seen[u] /\ amount'[u] = amount[u]

LocalTypes ==
  /\ pc \in [Threads -> PCs] /\ timed \in [Threads -> BOOLEAN]
  /\ seen \in [Threads -> 0..MaxVal] /\ amount \in [Threads -> 0..MaxPost]

(***************************************************************************)
(* What a thread changes when it goes on: its own local variables.         *)
(***************************************************************************)
LEMMA EnterIs ==
  ASSUME TypeInv, NEW t \in Threads, NEW l \in PCs, NEW v \in 0..MaxVal,
         NEW n \in 0..MaxPost, NEW to \in BOOLEAN, Enter(t, l, v, n, to)
  PROVE  /\ pc'[t] = l /\ seen'[t] = v /\ amount'[t] = n /\ timed'[t] = to
         /\ Others(t) /\ LocalTypes'
BY DEF Enter, TypeInv, ObjTypeOK, Others, LocalTypes

(***************************************************************************)
(* A thread goes to a label, or returns.                                   *)
(***************************************************************************)
LEMMA GotoIs ==
  ASSUME TypeInv, NEW t \in Threads, NEW l \in PCs, Goto(t, l)
  PROVE  /\ pc'[t] = l /\ seen'[t] = 0 /\ amount'[t] = amount[t] /\ timed'[t] = timed[t]
         /\ Others(t) /\ LocalTypes'
<1>1. 0 \in 0..MaxVal /\ amount[t] \in 0..MaxPost /\ timed[t] \in BOOLEAN
  BY SemaAssumption DEF TypeInv, ObjTypeOK
<1>2. QED
  BY <1>1, EnterIs DEF Goto

(***************************************************************************)
(* A thread returns to the guest.                                          *)
(***************************************************************************)
LEMMA ReturnIs ==
  ASSUME TypeInv, NEW t \in Threads, Return(t)
  PROVE  pc'[t] = "idle" /\ timed'[t] = FALSE /\ Others(t) /\ LocalTypes'
<1>1. 0 \in 0..MaxVal /\ 0 \in 0..MaxPost /\ "idle" \in PCs
  BY SemaAssumption DEF PCs
<1>2. QED
  BY <1>1, EnterIs DEF Return

(***************************************************************************)
(* The waiters are finitely many.                                          *)
(***************************************************************************)
LEMMA WaitersFinite ==
  ASSUME TRUE
  PROVE  /\ IsFiniteSet(Waiters) /\ Cardinality(Waiters) \in Nat
         /\ Cardinality(Waiters) <= Cardinality(Threads) /\ Cardinality(Threads) \in Nat
<1>1. Waiters \in SUBSET Threads
  BY DEF Waiters
<1>2. QED
  BY <1>1, ThreadsAssumption, FS_Subset, FS_CardinalityType

(***************************************************************************)
(* A step that neither adds nor removes a waiter keeps their number.       *)
(***************************************************************************)
LEMMA WaitersKept ==
  ASSUME \A u \in Threads : pc'[u] \in Counted <=> pc[u] \in Counted
  PROVE  Cardinality(Waiters)' = Cardinality(Waiters)
<1>1. Waiters' = Waiters
  BY DEF Waiters, Counted
<1>2. QED
  BY <1>1

(***************************************************************************)
(* A thread becomes a waiter.                                              *)
(***************************************************************************)
LEMMA WaiterAdded ==
  ASSUME NEW t \in Threads, pc[t] \notin Counted, pc'[t] \in Counted, Others(t)
  PROVE  Cardinality(Waiters)' = Cardinality(Waiters) + 1
<1>1. Waiters' = Waiters \union {t} /\ t \notin Waiters
  BY DEF Waiters, Counted, Others
<1>2. QED
  BY <1>1, WaitersFinite, FS_AddElement

(***************************************************************************)
(* A waiter leaves.                                                        *)
(***************************************************************************)
LEMMA WaiterRemoved ==
  ASSUME NEW t \in Threads, pc[t] \in Counted, pc'[t] \notin Counted, Others(t)
  PROVE  Cardinality(Waiters)' = Cardinality(Waiters) - 1
<1>1. Waiters' = Waiters \ {t} /\ t \in Waiters
  BY DEF Waiters, Counted, Others
<1>2. QED
  BY <1>1, WaitersFinite, FS_RemoveElement

(***************************************************************************)
(* A value that is not negative counts no waiters.                         *)
(***************************************************************************)
LEMMA NoneCounted ==
  ASSUME NEW v \in Int, v >= 0
  PROVE  Max2(-v, 0) = 0
BY DEF Max2

(***************************************************************************)
(* If k waiters are queued and n permits are posted, the smaller of the    *)
(* two is how many are taken out.                                          *)
(***************************************************************************)
LEMMA PostCounts ==
  ASSUME NEW v \in Int, NEW n \in Nat, NEW k \in Int, k = Max2(-v, 0)
  PROVE  /\ Min2(-Min2(v, 0), n) \in Nat
         /\ k - Min2(-Min2(v, 0), n) = Max2(-(v + n), 0)
<1>1. CASE v >= 0
  BY <1>1 DEF Min2, Max2
<1>2. CASE v < 0
  BY <1>2 DEF Min2, Max2
<1>3. QED
  BY <1>1, <1>2

-----------------------------------------------------------------------------
(* The steps outside the internal mutex *)

(***************************************************************************)
(* A thread outside the internal mutex goes on, and changes only its own   *)
(* variables.                                                              *)
(***************************************************************************)
LEMMA MoveInv ==
  ASSUME Inv, NEW t \in Threads, NEW l \in PCs, pc'[t] = l, Others(t), LocalTypes',
         UNCHANGED <<world, val, sq, guard, left, toAwake, sched, credit>>,
         pc[t] \notin Inside, l \notin Inside \union {"w_wait"},
         pc[t] \in Counted <=> l \in Counted,
         Contains(sq, t) => l \in InCall,
         t \in toAwake => l \in {"t_check", "t_lock"},
         sched[t] = "asleep" => l \in {"t_check", "a_wait"},
         l = "w_cas" => seen'[t] > 0,
         l = "p_cas" => seen'[t] + amount'[t] <= MaxVal,
         l = "a_wait" => Contains(sq, t) /\ guard = NoThread,
         l \in UnderIdm => exists,
         l \in SaveLabels => "save" \in faults,
         timed'[t] \/ l \in TimeoutLabels => "timeout" \in faults,
         toSleep # {} => \/ l = "w_lock"
                         \/ t \notin toSleep /\ l = "a_wait"
  PROVE  Inv'
<1> USE ThreadsAssumption
<1>1. TypeInv
  BY DEF Inv
<1>T. TypeInv'
  BY <1>1, SemaAssumption DEF TypeInv, LocalTypes, ObjTypeOK, world,
     SchedStates
<1>F. FaultInv'
  BY <1>1 DEF Inv, FaultInv, SaveLabels, TimeoutLabels, Others, world
<1>G. GuardInv'
  BY <1>1 DEF Inv, GuardInv, Inside, Others, TypeInv, ObjTypeOK
<1>L. ListInv'
  BY <1>1 DEF Inv, ListInv, InCall, Others, Distinct
<1>V. ValueInv'
  BY <1>1 DEF Inv, ValueInv, GuardInv, Inside, Others, Max2
<1>E. ExistsInv'
  BY <1>1 DEF Inv, ExistsInv, UnderIdm, Others, world
<1>H. ASSUME NEW u \in Threads PROVE ThreadInv(u)'
  BY <1>1, <1>H DEF Inv, ThreadInv, GuardInv, Inside, Others
<1>S. ASSUME NEW u \in Threads PROVE SchedInv(u)'
  BY <1>1, <1>S DEF Inv, SchedInv, Others, Inside
<1>D. LoadInv'
  BY <1>1 DEF Inv, LoadInv, Others, world
<1>P. PermitsConserved'
  <2>1. Cardinality(Waiters)' = Cardinality(Waiters)
    BY WaitersKept DEF Others
  <2> QED
    BY <2>1 DEF Inv, PermitsConserved
<1> QED
  BY <1>T, <1>F, <1>G, <1>L, <1>V, <1>E, <1>H, <1>S, <1>D, <1>P DEF Inv

(***************************************************************************)
(* val changes without the internal mutex, from a value that is not        *)
(* negative to another.                                                    *)
(***************************************************************************)
LEMMA FastInv ==
  ASSUME Inv, NEW t \in Threads, pc[t] \in {"idle", "w_cas", "p_cas"}, toSleep = {},
         pc'[t] = "idle", Others(t), LocalTypes',
         timed'[t] => "timeout" \in faults,
         val >= 0, val' \in Nat, val' <= MaxVal, credit' = credit + (val' - val),
         UNCHANGED <<world, sq, guard, left, toAwake, sched>>
  PROVE  Inv'
<1> USE ThreadsAssumption
<1>1. TypeInv
  BY DEF Inv
<1>2. /\ val \in Int /\ val' \in Int /\ val' >= 0 /\ val' <= MaxVal
      /\ credit \in Int /\ Len(sq) \in Nat
  BY <1>1 DEF TypeInv
<1>3. credit' \in Int /\ Max2(-val, 0) = 0 /\ Max2(-val, 0)' = 0
  BY <1>2, NoneCounted
<1>4. /\ guard = NoThread => Len(sq) = 0
      /\ \A u \in Threads :
           /\ pc[u] \in {"w_dec", "t_unqueue", "p_op"} => Len(sq) = 0
           /\ pc[u] \notin {"w_sleep", "w_queue", "t_undo"}
           /\ pc[u] = "p_wake" => Len(sq) - left = 0
  BY <1>2, <1>3 DEF Inv, ValueInv
<1>T. TypeInv'
  BY <1>1, <1>2, <1>3, SemaAssumption DEF TypeInv, LocalTypes, ObjTypeOK,
     world, SchedStates
<1>F. FaultInv'
  BY <1>1, <1>2, <1>3 DEF Inv, FaultInv, SaveLabels, TimeoutLabels, Others,
     world
<1>G. GuardInv'
  BY <1>1 DEF Inv, GuardInv, Inside, Others, TypeInv, ObjTypeOK
<1>L. ListInv'
  BY <1>1, <1>2, <1>3 DEF Inv, ListInv, InCall, Others, Distinct
<1>V. ValueInv'
  BY <1>3, <1>4 DEF ValueInv, Others
<1>E. ExistsInv'
  BY <1>1, <1>2, <1>3 DEF Inv, ExistsInv, UnderIdm, Others, world
<1>H. ASSUME NEW u \in Threads PROVE ThreadInv(u)'
  BY <1>1, <1>H DEF Inv, ThreadInv, GuardInv, Inside, Others
<1>S. ASSUME NEW u \in Threads PROVE SchedInv(u)'
  BY <1>1, <1>2, <1>3, <1>S DEF Inv, SchedInv, Others, Inside
<1>D. LoadInv'
  BY <1>1, <1>2, <1>3 DEF Inv, LoadInv, Others, world
<1>P. PermitsConserved'
  <2>1. Cardinality(Waiters)' = Cardinality(Waiters) /\ Cardinality(Waiters) \in Nat
    BY WaitersKept, WaitersFinite DEF Others, Counted
  <2> QED
    BY <1>2, <2>1 DEF Inv, PermitsConserved
<1> QED
  BY <1>T, <1>F, <1>G, <1>L, <1>V, <1>E, <1>H, <1>S, <1>D, <1>P DEF Inv

(***************************************************************************)
(* A thread takes the internal mutex.                                      *)
(***************************************************************************)
LEMMA TakeGuardInv ==
  ASSUME Inv, NEW t \in Threads, NEW from, NEW to, pc[t] = from, guard = NoThread,
         guard' = t, Goto(t, to),
         UNCHANGED <<world, val, sq, left, toAwake, sched, credit>>,
         \/ from = "w_lock" /\ to = "w_dec"
         \/ from = "t_lock" /\ to = "t_unqueue"
         \/ from = "p_lock" /\ to = "p_op" /\ \A u \in Threads : pc[u] # "a_wait"
  PROVE  Inv'
<1> USE ThreadsAssumption
<1>1. /\ TypeInv /\ to \in PCs /\ t \notin toAwake /\ left = 0 /\ toAwake = {}
      /\ \A u \in Threads : pc[u] \notin Inside
  BY DEF Inv, PCs, GuardInv, Inside
<1>2. (from = "w_lock" => exists) /\ (from # "w_lock" => ~Contains(sq, t) \/ from = "t_lock")
  BY DEF Inv, ExistsInv, UnderIdm, ListInv, InCall
<1>3. pc'[t] = to /\ timed'[t] = timed[t] /\ Others(t) /\ LocalTypes'
  BY <1>1, GotoIs
<1>T. TypeInv'
  BY <1>1, <1>2, <1>3, SemaAssumption DEF TypeInv, LocalTypes, ObjTypeOK,
     world, SchedStates
<1>F. FaultInv'
  BY <1>1, <1>2, <1>3 DEF Inv, FaultInv, SaveLabels, TimeoutLabels, Others,
     world
<1>G. GuardInv'
  BY <1>1, <1>2, <1>3 DEF Inv, GuardInv, Inside, Others, TypeInv, ObjTypeOK
<1>L. ListInv'
  BY <1>1, <1>2, <1>3 DEF Inv, ListInv, InCall, Others, Distinct
<1>V. ValueInv'
  BY <1>1, <1>2, <1>3 DEF Inv, ValueInv, GuardInv, Inside, Others, Max2
<1>E. ExistsInv'
  BY <1>1, <1>2, <1>3 DEF Inv, ExistsInv, UnderIdm, Others, world
<1>H. ASSUME NEW u \in Threads PROVE ThreadInv(u)'
  BY <1>1, <1>2, <1>3, <1>H DEF Inv, ThreadInv, GuardInv, Inside, Others
<1>S. ASSUME NEW u \in Threads PROVE SchedInv(u)'
  BY <1>1, <1>2, <1>3, <1>S DEF Inv, SchedInv, Others, Inside
<1>D. LoadInv'
  BY <1>1, <1>2, <1>3 DEF Inv, LoadInv, Others, world
<1>P. PermitsConserved'
  <2>1. Cardinality(Waiters) \in Nat
    BY WaitersFinite
  <2>2. Cardinality(Waiters)' = Cardinality(Waiters)
    BY <1>1, <1>3, WaitersKept DEF Counted, Others
  <2> QED
    BY <1>1, <2>1, <2>2 DEF Inv, PermitsConserved
<1> QED
  BY <1>T, <1>F, <1>G, <1>L, <1>V, <1>E, <1>H, <1>S, <1>D, <1>P DEF Inv

-----------------------------------------------------------------------------
(* The steps of wait under the internal mutex *)

(***************************************************************************)
(* A permit came before the internal mutex was taken.                      *)
(***************************************************************************)
LEMMA WaitDecTakes ==
  ASSUME Inv, NEW t \in Threads, pc[t] = "w_dec", val > 0, val' = val - 1,
         ReturnTaken(t), guard' = NoThread,
         UNCHANGED <<world, sq, left, toAwake, sched>>
  PROVE  Inv'
<1> USE ThreadsAssumption
<1>1. /\ TypeInv /\ val \in Int /\ credit \in Int /\ guard = t /\ Len(sq) \in Nat
      /\ credit' = credit - 1 /\ left = 0 /\ toAwake = {} /\ Len(sq) = 0 /\ toSleep = {}
      /\ \A u \in Threads \ {t} : pc[u] \notin Inside
  BY DEF Inv, GuardInv, Inside, ReturnTaken, TypeInv, ValueInv, Max2, LoadInv
<1>3. pc'[t] = "idle" /\ ~timed'[t] /\ Others(t) /\ LocalTypes'
  BY <1>1, ReturnIs DEF Inv, ReturnTaken
<1>T. TypeInv'
  BY <1>1, <1>3, SemaAssumption DEF TypeInv, LocalTypes, ObjTypeOK, world,
     SchedStates
<1>F. FaultInv'
  BY <1>1, <1>3 DEF Inv, FaultInv, SaveLabels, TimeoutLabels, Others, world
<1>G. GuardInv'
  BY <1>1, <1>3 DEF Inv, GuardInv, Inside, Others, TypeInv, ObjTypeOK
<1>L. ListInv'
  BY <1>1, <1>3 DEF Inv, ListInv, InCall, Others, Distinct
<1>V. ValueInv'
  BY <1>1, <1>3 DEF Inv, ValueInv, GuardInv, Inside, Others, Max2
<1>E. ExistsInv'
  BY <1>1, <1>3 DEF Inv, ExistsInv, UnderIdm, Others, world
<1>H. ASSUME NEW u \in Threads PROVE ThreadInv(u)'
  BY <1>1, <1>3, <1>H DEF Inv, ThreadInv, GuardInv, Inside, Others
<1>S. ASSUME NEW u \in Threads PROVE SchedInv(u)'
  BY <1>1, <1>3, <1>S DEF Inv, SchedInv, Others, Inside
<1>D. LoadInv'
  BY <1>1, <1>3 DEF Inv, LoadInv, Others, world
<1>P. PermitsConserved'
  <2>1. Cardinality(Waiters) \in Nat
    BY WaitersFinite
  <2>2. Cardinality(Waiters)' = Cardinality(Waiters)
    BY <1>1, <1>3, WaitersKept DEF Counted, Others
  <2> QED
    BY <1>1, <2>1, <2>2 DEF Inv, PermitsConserved
<1> QED
  BY <1>T, <1>F, <1>G, <1>L, <1>V, <1>E, <1>H, <1>S, <1>D, <1>P DEF Inv

(***************************************************************************)
(* The thread is one more waiter.                                          *)
(***************************************************************************)
LEMMA WaitDecWaits ==
  ASSUME Inv, NEW t \in Threads, pc[t] = "w_dec", val <= 0, val' = val - 1,
         Goto(t, "w_sleep"),
         UNCHANGED <<world, sq, guard, left, toAwake, sched, credit>>
  PROVE  Inv'
<1> USE ThreadsAssumption
<1>1. /\ TypeInv /\ val \in Int /\ credit \in Int /\ guard = t /\ Len(sq) \in Nat
      /\ left = 0 /\ toAwake = {} /\ Len(sq) = -val /\ exists
      /\ \A u \in Threads \ {t} : pc[u] \notin Inside
  <2>1. /\ guard = t /\ left = 0 /\ toAwake = {}
        /\ \A u \in Threads \ {t} : pc[u] \notin Inside
    BY DEF Inv, GuardInv, Inside
  <2>2. TypeInv /\ val \in Int /\ credit \in Int /\ Len(sq) \in Nat
    BY DEF Inv, TypeInv
  <2>3. Len(sq) = Max2(-val, 0) /\ exists
    BY DEF Inv, ValueInv, ExistsInv, UnderIdm
  <2>4. Len(sq) = -val
    BY <2>2, <2>3 DEF Max2
  <2>5. QED
    BY <2>1, <2>2, <2>3, <2>4
<1>3. pc'[t] = "w_sleep" /\ timed'[t] = timed[t] /\ Others(t) /\ LocalTypes'
  BY <1>1, GotoIs DEF Inv, PCs
<1>T. TypeInv'
  BY <1>1, <1>3, SemaAssumption DEF TypeInv, LocalTypes, ObjTypeOK, world,
     SchedStates
<1>F. FaultInv'
  BY <1>1, <1>3 DEF Inv, FaultInv, SaveLabels, TimeoutLabels, Others, world
<1>G. GuardInv'
  BY <1>1, <1>3 DEF Inv, GuardInv, Inside, Others, TypeInv, ObjTypeOK
<1>L. ListInv'
  BY <1>1, <1>3 DEF Inv, ListInv, InCall, Others, Distinct
<1>V. ValueInv'
  BY <1>1, <1>3 DEF Inv, ValueInv, GuardInv, Inside, Others, Max2
<1>E. ExistsInv'
  BY <1>1, <1>3 DEF Inv, ExistsInv, UnderIdm, Others, world
<1>H. ASSUME NEW u \in Threads PROVE ThreadInv(u)'
  BY <1>1, <1>3, <1>H DEF Inv, ThreadInv, GuardInv, Inside, Others
<1>S. ASSUME NEW u \in Threads PROVE SchedInv(u)'
  BY <1>1, <1>3, <1>S DEF Inv, SchedInv, Others, Inside
<1>D. LoadInv'
  BY <1>1, <1>3 DEF Inv, LoadInv, Others, world
<1>P. PermitsConserved'
  <2>1. Cardinality(Waiters) \in Nat
    BY WaitersFinite
  <2>2. Cardinality(Waiters)' = Cardinality(Waiters) + 1
    BY <1>1, <1>3, WaiterAdded DEF Counted, Others
  <2> QED
    BY <1>1, <2>1, <2>2 DEF Inv, PermitsConserved
<1> QED
  BY <1>T, <1>F, <1>G, <1>L, <1>V, <1>E, <1>H, <1>S, <1>D, <1>P DEF Inv

(***************************************************************************)
(* The thread sleeps.                                                      *)
(***************************************************************************)
LEMMA WaitSleepInv ==
  ASSUME Inv, NEW t \in Threads, WaitSleep(t)
  PROVE  Inv'
<1> USE ThreadsAssumption
<1>1. /\ TypeInv /\ pc[t] = "w_sleep" /\ guard = t /\ exists /\ ~Contains(sq, t) /\ t \notin toAwake
      /\ sched' = [sched EXCEPT ![t] = "asleep"] /\ toSleep' = toSleep \ {t}
      /\ UNCHANGED <<fifo, exists, stopped, saves, faults, val, sq, guard, left, toAwake, credit>>
      /\ \A u \in Threads \ {t} : pc[u] \notin Inside
  BY DEF Inv, GuardInv, Inside, WaitSleep, FallAsleep, ExistsInv, UnderIdm, ListInv, InCall,
         ThreadInv
<1>2. /\ sched'[t] = "asleep" /\ \A u \in Threads \ {t} : sched'[u] = sched[u]
      /\ sched' \in [Threads -> SchedStates]
  BY <1>1 DEF TypeInv, ObjTypeOK, SchedStates
<1>3. pc'[t] = "w_queue" /\ timed'[t] = timed[t] /\ Others(t) /\ LocalTypes'
  BY <1>1, GotoIs DEF Inv, PCs, WaitSleep
<1>T. TypeInv'
  BY <1>1, <1>2, <1>3, SemaAssumption DEF TypeInv, LocalTypes, ObjTypeOK,
     world, SchedStates
<1>F. FaultInv'
  BY <1>1, <1>2, <1>3 DEF Inv, FaultInv, SaveLabels, TimeoutLabels, Others,
     world
<1>G. GuardInv'
  BY <1>1, <1>2, <1>3 DEF Inv, GuardInv, Inside, Others, TypeInv, ObjTypeOK
<1>L. ListInv'
  BY <1>1, <1>2, <1>3 DEF Inv, ListInv, InCall, Others, Distinct
<1>V. ValueInv'
  BY <1>1, <1>2, <1>3 DEF Inv, ValueInv, GuardInv, Inside, Others, Max2
<1>E. ExistsInv'
  BY <1>1, <1>2, <1>3 DEF Inv, ExistsInv, UnderIdm, Others, world
<1>H. ASSUME NEW u \in Threads PROVE ThreadInv(u)'
  BY <1>1, <1>2, <1>3, <1>H DEF Inv, ThreadInv, GuardInv, Inside, Others
<1>S. ASSUME NEW u \in Threads PROVE SchedInv(u)'
  BY <1>1, <1>2, <1>3, <1>S DEF Inv, SchedInv, Others
<1>D. LoadInv'
  BY <1>1, <1>2, <1>3 DEF Inv, LoadInv, Others, world
<1>P. PermitsConserved'
  <2>1. Cardinality(Waiters) \in Nat
    BY WaitersFinite
  <2>2. Cardinality(Waiters)' = Cardinality(Waiters)
    BY <1>1, <1>3, WaitersKept DEF Counted, Others
  <2> QED
    BY <1>1, <2>1, <2>2 DEF Inv, PermitsConserved
<1> QED
  BY <1>T, <1>F, <1>G, <1>L, <1>V, <1>E, <1>H, <1>S, <1>D, <1>P DEF Inv

(***************************************************************************)
(* The thread is queued.                                                   *)
(***************************************************************************)
LEMMA WaitQueueInv ==
  ASSUME Inv, NEW t \in Threads, WaitQueue(t)
  PROVE  Inv'
<1> USE ThreadsAssumption
<1>1. /\ TypeInv /\ pc[t] = "w_queue" /\ guard = t /\ guard' = NoThread /\ sched[t] = "asleep"
      /\ ~Contains(sq, t) /\ val \in Int /\ val < 0 /\ Len(sq) = -val - 1 /\ sq \in Seq(Threads)
      /\ UNCHANGED <<world, val, left, toAwake, sched, credit>>
      /\ \A u \in Threads \ {t} : pc[u] \notin Inside
      /\ toAwake = {} /\ left = 0
  BY DEF Inv, GuardInv, Inside, WaitQueue, ListInv, InCall, SchedInv, ValueInv, TypeInv
<1>2. /\ sq' \in Seq(Threads) /\ Len(sq') = Len(sq) + 1
      /\ \A u \in Threads : Contains(sq', u) <=> Contains(sq, u) \/ u = t
      /\ Distinct(sq')
  BY <1>1, PushIs DEF WaitQueue, Inv, ListInv
<1>4. TypeInv /\ guard' = NoThread /\ UNCHANGED <<world, val, left, toAwake, sched, credit>>
  BY <1>1
<1>3. pc'[t] = "w_wait" /\ timed'[t] = timed[t] /\ Others(t) /\ LocalTypes'
  BY <1>1, GotoIs DEF Inv, PCs, WaitQueue
<1>T. TypeInv'
  BY <1>2, <1>3, <1>4 DEF TypeInv, LocalTypes, ObjTypeOK,
     world, SchedStates
<1>F. FaultInv'
  BY <1>1, <1>2, <1>3 DEF Inv, FaultInv, SaveLabels, TimeoutLabels, Others,
     world
<1>G. GuardInv'
  BY <1>1, <1>2, <1>3 DEF Inv, GuardInv, Inside, Others, TypeInv, ObjTypeOK
<1>L. ListInv'
  BY <1>1, <1>2, <1>3 DEF Inv, ListInv, InCall, Others
<1>V. ValueInv'
  BY <1>1, <1>2, <1>3 DEF Inv, ValueInv, GuardInv, Inside, Others, Max2
<1>E. ExistsInv'
  BY <1>1, <1>2, <1>3 DEF Inv, ExistsInv, UnderIdm, Others, world
<1>H. ASSUME NEW u \in Threads PROVE ThreadInv(u)'
  BY <1>1, <1>2, <1>3, <1>H DEF Inv, ThreadInv, GuardInv, Inside, Others
<1>S. ASSUME NEW u \in Threads PROVE SchedInv(u)'
  BY <1>1, <1>2, <1>3, <1>S DEF Inv, SchedInv, Others
<1>D. LoadInv'
  BY <1>1, <1>2, <1>3 DEF Inv, LoadInv, Others, world
<1>P. PermitsConserved'
  <2>1. Cardinality(Waiters) \in Nat
    BY WaitersFinite
  <2>2. Cardinality(Waiters)' = Cardinality(Waiters)
    BY <1>1, <1>3, WaitersKept DEF Counted, Others
  <2> QED
    BY <1>1, <2>1, <2>2 DEF Inv, PermitsConserved
<1> QED
  BY <1>T, <1>F, <1>G, <1>L, <1>V, <1>E, <1>H, <1>S, <1>D, <1>P DEF Inv

-----------------------------------------------------------------------------
(* The wait loop and timeouts *)

(***************************************************************************)
(* A signalled thread returns with its permit.                             *)
(***************************************************************************)
LEMMA TakeSignalInv ==
  ASSUME Inv, NEW t \in Threads, TakeSignal(t)
  PROVE  Inv'
<1> USE ThreadsAssumption
<1>1. /\ TypeInv /\ pc[t] = "w_wait" /\ sched[t] = "signal" /\ sched' = [sched EXCEPT ![t] = "on"]
      /\ guard # t /\ ~Contains(sq, t) /\ t \notin toAwake
      /\ credit \in Int /\ credit' = credit - 1 /\ val \in Int /\ t \notin toSleep
      /\ UNCHANGED <<world, val, sq, guard, left, toAwake>>
  BY DEF Inv, GuardInv, Inside, TakeSignal, Signalled, ReturnTaken, TypeInv, SchedInv, LoadInv
<1>2. /\ sched'[t] = "on" /\ \A u \in Threads \ {t} : sched'[u] = sched[u]
      /\ sched' \in [Threads -> SchedStates]
  BY <1>1 DEF TypeInv, ObjTypeOK, SchedStates
<1>3. pc'[t] = "idle" /\ ~timed'[t] /\ Others(t) /\ LocalTypes'
  BY <1>1, ReturnIs DEF Inv, ReturnTaken, TakeSignal
<1>4. TypeInv /\ credit' \in Int /\ UNCHANGED <<world, val, sq, guard, left, toAwake>>
  BY <1>1
<1>T. TypeInv'
  BY <1>2, <1>3, <1>4 DEF TypeInv, LocalTypes, ObjTypeOK,
     world, SchedStates
<1>F. FaultInv'
  BY <1>1, <1>2, <1>3 DEF Inv, FaultInv, SaveLabels, TimeoutLabels, Others,
     world
<1>G. GuardInv'
  BY <1>1, <1>2, <1>3 DEF Inv, GuardInv, Inside, Others, TypeInv, ObjTypeOK
<1>L. ListInv'
  BY <1>1, <1>2, <1>3 DEF Inv, ListInv, InCall, Others, Distinct
<1>V. ValueInv'
  BY <1>1, <1>2, <1>3 DEF Inv, ValueInv, GuardInv, Inside, Others, Max2
<1>E. ExistsInv'
  BY <1>1, <1>2, <1>3 DEF Inv, ExistsInv, UnderIdm, Others, world
<1>H. ASSUME NEW u \in Threads PROVE ThreadInv(u)'
  BY <1>1, <1>2, <1>3, <1>H DEF Inv, ThreadInv, GuardInv, Inside, Others
<1>S. ASSUME NEW u \in Threads PROVE SchedInv(u)'
  BY <1>1, <1>2, <1>3, <1>S DEF Inv, SchedInv, Others, Inside
<1>D. LoadInv'
  BY <1>1, <1>2, <1>3 DEF Inv, LoadInv, Others, world
<1>P. PermitsConserved'
  <2>1. Cardinality(Waiters) \in Nat
    BY WaitersFinite
  <2>2. Cardinality(Waiters)' = Cardinality(Waiters) - 1
    BY <1>1, <1>3, WaiterRemoved DEF Counted, Others
  <2> QED
    BY <1>1, <2>1, <2>2 DEF Inv, PermitsConserved
<1> QED
  BY <1>T, <1>F, <1>G, <1>L, <1>V, <1>E, <1>H, <1>S, <1>D, <1>P DEF Inv

(***************************************************************************)
(* A stopped thread finds that it was served.                              *)
(***************************************************************************)
LEMMA StoppedServedInv ==
  ASSUME Inv, NEW t \in Threads, Stopping(t, "w_wait"), ~Contains(sq, t), ReturnTaken(t),
         UNCHANGED <<world, val, sq, guard, left, toAwake, sched>>
  PROVE  Inv'
<1> USE ThreadsAssumption
<1>1. /\ TypeInv /\ pc[t] = "w_wait" /\ guard = NoThread /\ toAwake = {}
      /\ credit \in Int /\ credit' = credit - 1 /\ val \in Int /\ t \notin toSleep
      /\ sched[t] # "asleep"
  BY DEF Inv, GuardInv, Inside, Stopping, ReturnTaken, TypeInv, SchedInv, LoadInv
<1>3. pc'[t] = "idle" /\ ~timed'[t] /\ Others(t) /\ LocalTypes'
  BY <1>1, ReturnIs DEF Inv, ReturnTaken
<1>T. TypeInv'
  BY <1>1, <1>3, SemaAssumption DEF TypeInv, LocalTypes, ObjTypeOK, world,
     SchedStates
<1>F. FaultInv'
  BY <1>1, <1>3 DEF Inv, FaultInv, SaveLabels, TimeoutLabels, Others, world
<1>G. GuardInv'
  BY <1>1, <1>3 DEF Inv, GuardInv, Inside, Others, TypeInv, ObjTypeOK
<1>L. ListInv'
  BY <1>1, <1>3 DEF Inv, ListInv, InCall, Others, Distinct
<1>V. ValueInv'
  BY <1>1, <1>3 DEF Inv, ValueInv, GuardInv, Inside, Others, Max2
<1>E. ExistsInv'
  BY <1>1, <1>3 DEF Inv, ExistsInv, UnderIdm, Others, world
<1>H. ASSUME NEW u \in Threads PROVE ThreadInv(u)'
  BY <1>1, <1>3, <1>H DEF Inv, ThreadInv, GuardInv, Inside, Others
<1>S. ASSUME NEW u \in Threads PROVE SchedInv(u)'
  BY <1>1, <1>3, <1>S DEF Inv, SchedInv, Others, Inside
<1>D. LoadInv'
  BY <1>1, <1>3 DEF Inv, LoadInv, Others, world
<1>P. PermitsConserved'
  <2>1. Cardinality(Waiters) \in Nat
    BY WaitersFinite
  <2>2. Cardinality(Waiters)' = Cardinality(Waiters) - 1
    BY <1>1, <1>3, WaiterRemoved DEF Counted, Others
  <2> QED
    BY <1>1, <2>1, <2>2 DEF Inv, PermitsConserved
<1> QED
  BY <1>T, <1>F, <1>G, <1>L, <1>V, <1>E, <1>H, <1>S, <1>D, <1>P DEF Inv

(***************************************************************************)
(* After a timeout the thread waits until it runs again.                   *)
(***************************************************************************)
LEMMA TimeOutCheckInv ==
  ASSUME Inv, OneFault, NEW t \in Threads, TimeOutCheck(t)
  PROVE  Inv'
<1> USE ThreadsAssumption
<1>1. /\ TypeInv /\ pc[t] = "t_check" /\ guard # t /\ stopped = {} /\ toSleep = {}
      /\ UNCHANGED <<world, timed, seen, amount, val, sq, guard, left, toAwake, credit>>
      /\ timed[t] => "timeout" \in faults
      /\ "timeout" \in faults
  BY DEF Inv, GuardInv, Inside, TimeOutCheck, FaultInv, TimeoutLabels, OneFault, TypeInv,
         ObjTypeOK
<1>2. PICK x \in {"ready", "on"}, l \in {"t_check", "t_lock"} :
        sched' = [sched EXCEPT ![t] = x] /\ pc' = [pc EXCEPT ![t] = l]
  <2>1. pc \in [Threads -> PCs] /\ [pc EXCEPT ![t] = "t_check"] = pc
    BY <1>1 DEF TypeInv, ObjTypeOK
  <2>2. \/ sched' = [sched EXCEPT ![t] = "ready"] /\ pc' = pc
        \/ sched' = [sched EXCEPT ![t] = "on"] /\ pc' = [pc EXCEPT ![t] = "t_lock"]
    BY <1>1 DEF TimeOutCheck, CheckState
  <2>3. QED
    BY <2>1, <2>2
<1>3. /\ sched'[t] = x /\ \A u \in Threads \ {t} : sched'[u] = sched[u]
      /\ sched' \in [Threads -> SchedStates]
      /\ pc'[t] = l /\ Others(t) /\ LocalTypes'
  BY <1>1, <1>2 DEF TypeInv, ObjTypeOK, SchedStates, Others, LocalTypes, PCs
<1>T. TypeInv'
  BY <1>1, <1>3, SemaAssumption DEF TypeInv, LocalTypes, ObjTypeOK, world,
     SchedStates
<1>F. FaultInv'
  BY <1>1, <1>3 DEF Inv, FaultInv, SaveLabels, TimeoutLabels, Others, world
<1>G. GuardInv'
  BY <1>1, <1>3 DEF Inv, GuardInv, Inside, Others, TypeInv, ObjTypeOK
<1>L. ListInv'
  BY <1>1, <1>3 DEF Inv, ListInv, InCall, Others, Distinct
<1>V. ValueInv'
  BY <1>1, <1>3 DEF Inv, ValueInv, GuardInv, Inside, Others, Max2
<1>E. ExistsInv'
  BY <1>1, <1>3 DEF Inv, ExistsInv, UnderIdm, Others, world
<1>H. ASSUME NEW u \in Threads PROVE ThreadInv(u)'
  BY <1>1, <1>3, <1>H DEF Inv, ThreadInv, GuardInv, Inside, Others
<1>S. ASSUME NEW u \in Threads PROVE SchedInv(u)'
  BY <1>1, <1>3, <1>S DEF Inv, SchedInv, Others, Inside
<1>D. LoadInv'
  BY <1>1, <1>3 DEF Inv, LoadInv, Others, world
<1>P. PermitsConserved'
  <2>1. Cardinality(Waiters) \in Nat
    BY WaitersFinite
  <2>2. Cardinality(Waiters)' = Cardinality(Waiters)
    BY <1>1, <1>3, WaitersKept DEF Counted, Others
  <2> QED
    BY <1>1, <2>1, <2>2 DEF Inv, PermitsConserved
<1> QED
  BY <1>T, <1>F, <1>G, <1>L, <1>V, <1>E, <1>H, <1>S, <1>D, <1>P DEF Inv

(***************************************************************************)
(* A thread that has timed out gives up its place in the queue.            *)
(***************************************************************************)
LEMMA UnqueueInv ==
  ASSUME Inv, NEW t \in Threads, pc[t] = "t_unqueue", Contains(sq, t),
         sq' = Without(sq, t), Goto(t, "t_undo"),
         UNCHANGED <<world, val, guard, left, toAwake, sched, credit>>
  PROVE  Inv'
<1> USE ThreadsAssumption
<1>0. /\ TypeInv /\ val \in Int /\ sq \in Seq(Threads) /\ Len(sq) \in Nat
      /\ Len(sq) = Max2(-val, 0)
  BY DEF Inv, TypeInv, ValueInv
<1>5. /\ guard = t /\ toAwake = {} /\ left = 0
      /\ \A u \in Threads \ {t} : pc[u] \notin Inside
  BY DEF Inv, GuardInv, Inside
<1>6. /\ toSleep = {} /\ sched[t] # "asleep" /\ "timeout" \in faults
  BY DEF Inv, LoadInv, FaultInv, TimeoutLabels, SchedInv
<1>1. /\ TypeInv /\ val \in Int /\ sq \in Seq(Threads) /\ Len(sq) \in Nat
      /\ Len(sq) = Max2(-val, 0)
      /\ guard = t /\ toAwake = {} /\ left = 0
      /\ \A u \in Threads \ {t} : pc[u] \notin Inside
      /\ toSleep = {} /\ sched[t] # "asleep" /\ "timeout" \in faults
  BY <1>0, <1>5, <1>6
<1>2. /\ sq' \in Seq(Threads) /\ Len(sq') = Len(sq) - 1 /\ Distinct(sq')
      /\ \A u \in Threads : Contains(sq', u) <=> Contains(sq, u) /\ u # t
  BY <1>1, RemoveFirstHas, RemoveFirstLen DEF Without, Inv, ListInv
<1>4. val < 0 /\ Len(sq') = -val - 1
  <2>1. Len(sq') \in Nat
    BY <1>2
  <2>2. QED
    BY <1>1, <1>2, <2>1 DEF Max2
<1>3. pc'[t] = "t_undo" /\ timed'[t] = timed[t] /\ Others(t) /\ LocalTypes'
  BY <1>1, GotoIs DEF Inv, PCs
<1>T. TypeInv'
  BY <1>1, <1>2, <1>3, SemaAssumption DEF TypeInv, LocalTypes, ObjTypeOK,
     world, SchedStates
<1>F. FaultInv'
  BY <1>1, <1>2, <1>3 DEF Inv, FaultInv, SaveLabels, TimeoutLabels, Others,
     world
<1>G. GuardInv'
  BY <1>1, <1>2, <1>3 DEF Inv, GuardInv, Inside, Others, TypeInv, ObjTypeOK
<1>L. ListInv'
  BY <1>1, <1>2, <1>3 DEF Inv, ListInv, InCall, Others, Distinct
<1>V. ValueInv'
  BY <1>1, <1>3, <1>4 DEF Inv, ValueInv, GuardInv, Inside, Others, Max2
<1>E. ExistsInv'
  BY <1>1, <1>2, <1>3 DEF Inv, ExistsInv, UnderIdm, Others, world
<1>H. ASSUME NEW u \in Threads PROVE ThreadInv(u)'
  BY <1>1, <1>2, <1>3, <1>H DEF Inv, ThreadInv, GuardInv, Inside, Others
<1>S. ASSUME NEW u \in Threads PROVE SchedInv(u)'
  BY <1>1, <1>2, <1>3, <1>S DEF Inv, SchedInv, Others, Inside
<1>D. LoadInv'
  BY <1>1, <1>2, <1>3 DEF Inv, LoadInv, Others, world
<1>P. PermitsConserved'
  <2>1. Cardinality(Waiters) \in Nat
    BY WaitersFinite
  <2>2. Cardinality(Waiters)' = Cardinality(Waiters)
    BY <1>1, <1>3, WaitersKept DEF Counted, Others
  <2> QED
    BY <1>1, <2>1, <2>2 DEF Inv, PermitsConserved
<1> QED
  BY <1>T, <1>F, <1>G, <1>L, <1>V, <1>E, <1>H, <1>S, <1>D, <1>P DEF Inv

(***************************************************************************)
(* A thread that has timed out finds that it was served.                   *)
(***************************************************************************)
LEMMA TimedOutServedInv ==
  ASSUME Inv, NEW t \in Threads, pc[t] = "t_unqueue", ~Contains(sq, t), ReturnTaken(t),
         guard' = NoThread, UNCHANGED <<world, val, sq, left, toAwake, sched>>
  PROVE  Inv'
<1> USE ThreadsAssumption
<1>1. /\ TypeInv /\ guard = t /\ toSleep = {} /\ toAwake = {} /\ left = 0
      /\ Len(sq) = Max2(-val, 0) /\ sched[t] # "asleep"
      /\ \A u \in Threads \ {t} : pc[u] \notin Inside
      /\ credit \in Int /\ credit' = credit - 1 /\ val \in Int
  BY DEF Inv, GuardInv, Inside, ReturnTaken, TypeInv, LoadInv, ValueInv, SchedInv
<1>3. pc'[t] = "idle" /\ ~timed'[t] /\ Others(t) /\ LocalTypes'
  BY <1>1, ReturnIs DEF Inv, ReturnTaken
<1>T. TypeInv'
  BY <1>1, <1>3, SemaAssumption DEF TypeInv, LocalTypes, ObjTypeOK, world,
     SchedStates
<1>F. FaultInv'
  BY <1>1, <1>3 DEF Inv, FaultInv, SaveLabels, TimeoutLabels, Others, world
<1>G. GuardInv'
  BY <1>1, <1>3 DEF Inv, GuardInv, Inside, Others, TypeInv, ObjTypeOK
<1>L. ListInv'
  BY <1>1, <1>3 DEF Inv, ListInv, InCall, Others, Distinct
<1>V. ValueInv'
  BY <1>1, <1>3 DEF Inv, ValueInv, GuardInv, Inside, Others, Max2
<1>E. ExistsInv'
  BY <1>1, <1>3 DEF Inv, ExistsInv, UnderIdm, Others, world
<1>H. ASSUME NEW u \in Threads PROVE ThreadInv(u)'
  BY <1>1, <1>3, <1>H DEF Inv, ThreadInv, GuardInv, Inside, Others
<1>S. ASSUME NEW u \in Threads PROVE SchedInv(u)'
  BY <1>1, <1>3, <1>S DEF Inv, SchedInv, Others, Inside
<1>D. LoadInv'
  BY <1>1, <1>3 DEF Inv, LoadInv, Others, world
<1>P. PermitsConserved'
  <2>1. Cardinality(Waiters) \in Nat
    BY WaitersFinite
  <2>2. Cardinality(Waiters)' = Cardinality(Waiters) - 1
    BY <1>1, <1>3, WaiterRemoved DEF Counted, Others
  <2> QED
    BY <1>1, <2>1, <2>2 DEF Inv, PermitsConserved
<1> QED
  BY <1>T, <1>F, <1>G, <1>L, <1>V, <1>E, <1>H, <1>S, <1>D, <1>P DEF Inv

(***************************************************************************)
(* A thread that has left the queue takes itself out of val.               *)
(***************************************************************************)
LEMMA TimeOutUndoInv ==
  ASSUME Inv, NEW t \in Threads, TimeOutUndo(t)
  PROVE  Inv'
<1> USE ThreadsAssumption
<1>0. /\ TypeInv /\ val \in Int /\ credit \in Int /\ pc[t] = "t_undo"
      /\ val < 0 /\ Len(sq) = -val - 1 /\ exists
  BY DEF Inv, TypeInv, ValueInv, TimeOutUndo, ExistsInv
<1>5. /\ guard = t /\ toAwake = {} /\ left = 0
      /\ \A u \in Threads \ {t} : pc[u] \notin Inside
  BY <1>0 DEF Inv, GuardInv, Inside
<1>6. /\ toSleep = {} /\ sched[t] # "asleep" /\ ~Contains(sq, t)
  BY <1>0 DEF Inv, LoadInv, SchedInv, ListInv, InCall
<1>7. /\ guard' = NoThread /\ val' = val + 1
      /\ UNCHANGED <<world, sq, left, toAwake, sched, credit>>
  BY <1>0 DEF TimeOutUndo
<1>1. /\ TypeInv /\ val \in Int /\ credit \in Int /\ pc[t] = "t_undo"
      /\ val < 0 /\ Len(sq) = -val - 1 /\ exists
      /\ guard = t /\ toAwake = {} /\ left = 0
      /\ \A u \in Threads \ {t} : pc[u] \notin Inside
      /\ toSleep = {} /\ sched[t] # "asleep" /\ ~Contains(sq, t)
      /\ guard' = NoThread /\ val' = val + 1
      /\ UNCHANGED <<world, sq, left, toAwake, sched, credit>>
  BY <1>0, <1>5, <1>6, <1>7
<1>3. pc'[t] = "idle" /\ ~timed'[t] /\ Others(t) /\ LocalTypes'
  BY <1>1, ReturnIs DEF Inv, TimeOutUndo
<1>T. TypeInv'
  BY <1>1, <1>3, SemaAssumption DEF TypeInv, LocalTypes, ObjTypeOK, world,
     SchedStates
<1>F. FaultInv'
  BY <1>1, <1>3 DEF Inv, FaultInv, SaveLabels, TimeoutLabels, Others, world
<1>G. GuardInv'
  BY <1>1, <1>3 DEF Inv, GuardInv, Inside, Others, TypeInv, ObjTypeOK
<1>L. ListInv'
  BY <1>1, <1>3 DEF Inv, ListInv, InCall, Others, Distinct
<1>V. ValueInv'
  BY <1>1, <1>3 DEF Inv, ValueInv, GuardInv, Inside, Others, Max2
<1>E. ExistsInv'
  BY <1>1, <1>3 DEF Inv, ExistsInv, UnderIdm, Others, world
<1>H. ASSUME NEW u \in Threads PROVE ThreadInv(u)'
  BY <1>1, <1>3, <1>H DEF Inv, ThreadInv, GuardInv, Inside, Others
<1>S. ASSUME NEW u \in Threads PROVE SchedInv(u)'
  BY <1>1, <1>3, <1>S DEF Inv, SchedInv, Others, Inside
<1>D. LoadInv'
  BY <1>1, <1>3 DEF Inv, LoadInv, Others, world
<1>P. PermitsConserved'
  <2>1. Cardinality(Waiters) \in Nat
    BY WaitersFinite
  <2>2. Cardinality(Waiters)' = Cardinality(Waiters) - 1
    BY <1>1, <1>3, WaiterRemoved DEF Counted, Others
  <2> QED
    BY <1>1, <2>1, <2>2 DEF Inv, PermitsConserved
<1> QED
  BY <1>T, <1>F, <1>G, <1>L, <1>V, <1>E, <1>H, <1>S, <1>D, <1>P DEF Inv

-----------------------------------------------------------------------------
(* The steps of post under the internal mutex *)

(***************************************************************************)
(* The permits are added to val, and the waiters that get one are counted. *)
(***************************************************************************)
LEMMA PostOpAddsInv ==
  ASSUME Inv, NEW t \in Threads, pc[t] = "p_op", amount[t] <= MaxVal - val,
         val' = val + amount[t], credit' = credit + amount[t],
         left' = Min2(-Min2(val, 0), amount[t]), Goto(t, "p_wake"),
         UNCHANGED <<guard, world, sq, toAwake, sched>>
  PROVE  Inv'
<1> USE ThreadsAssumption
<1>0. /\ TypeInv /\ val \in Int /\ credit \in Int /\ amount[t] \in Nat
      /\ Len(sq) = Max2(-val, 0) /\ Len(sq) \in Int
  BY DEF Inv, TypeInv, ValueInv
<1>5. /\ guard = t /\ toAwake = {}
      /\ \A u \in Threads \ {t} : pc[u] \notin Inside
  BY DEF Inv, GuardInv, Inside
<1>6. /\ toSleep = {} /\ sched[t] # "asleep" /\ ~Contains(sq, t)
      /\ \A u \in Threads : pc[u] # "a_wait"
  BY DEF Inv, LoadInv, SchedInv, ListInv, InCall, ThreadInv
<1>2. /\ left' \in Nat /\ Len(sq) - left' = Max2(-(val + amount[t]), 0)
  BY <1>0, PostCounts
<1>4. /\ val' \in Int /\ val' <= MaxVal /\ val' >= val /\ credit' \in Int
  BY <1>0, SemaAssumption
<1>7. /\ left' \in Nat /\ Len(sq) - left' = Max2(-val, 0)'
      /\ val' \in Int /\ val' <= MaxVal /\ val' >= val /\ credit' \in Int
  BY <1>2, <1>4
<1>1. /\ TypeInv /\ val \in Int /\ credit \in Int /\ amount[t] \in Nat
      /\ guard = t /\ toAwake = {} /\ toSleep = {} /\ sched[t] # "asleep" /\ ~Contains(sq, t)
      /\ \A u \in Threads \ {t} : pc[u] \notin Inside
      /\ \A u \in Threads : pc[u] # "a_wait"
  BY <1>0, <1>5, <1>6
<1>3. pc'[t] = "p_wake" /\ timed'[t] = timed[t] /\ Others(t) /\ LocalTypes'
  BY <1>1, GotoIs DEF Inv, PCs
<1>T. TypeInv'
  BY <1>1, <1>3, <1>7, SemaAssumption DEF TypeInv, LocalTypes, ObjTypeOK, world,
     SchedStates
<1>F. FaultInv'
  BY <1>1, <1>3 DEF Inv, FaultInv, SaveLabels, TimeoutLabels, Others, world
<1>G. GuardInv'
  BY <1>1, <1>3 DEF Inv, GuardInv, Inside, Others, TypeInv, ObjTypeOK
<1>L. ListInv'
  BY <1>1, <1>3 DEF Inv, ListInv, InCall, Others
<1>V. ValueInv'
  <2>1. guard' # NoThread /\ sq' = sq
    BY <1>1
  <2>2. \A u \in Threads \ {t} : pc'[u] \notin Inside
    BY <1>1, <1>3 DEF Others
  <2>3. Len(sq') - left' = Max2(-val, 0)'
    BY <1>7, <2>1
  <2>4. QED
    BY <1>3, <2>1, <2>2, <2>3 DEF ValueInv, Inside
<1>E. ExistsInv'
  <2>1. exists' = exists /\ (~exists => val' >= 0)
    BY <1>1, <1>7 DEF Inv, ExistsInv, world
  <2>2. \A u \in Threads : pc'[u] \in UnderIdm => pc[u] \in UnderIdm
    BY <1>3 DEF UnderIdm, Others
  <2>3. QED
    BY <2>1, <2>2 DEF Inv, ExistsInv
<1>H. ASSUME NEW u \in Threads PROVE ThreadInv(u)'
  BY <1>1, <1>3, <1>H DEF Inv, ThreadInv, GuardInv, Inside, Others
<1>S. ASSUME NEW u \in Threads PROVE SchedInv(u)'
  BY <1>1, <1>3, <1>S DEF Inv, SchedInv, Others, Inside
<1>D. LoadInv'
  BY <1>1, <1>3 DEF Inv, LoadInv, Others, world
<1>P. PermitsConserved'
  <2>1. Cardinality(Waiters) \in Nat
    BY WaitersFinite
  <2>2. Cardinality(Waiters)' = Cardinality(Waiters)
    BY <1>1, <1>3, WaitersKept DEF Counted, Others
  <2> QED
    BY <1>1, <2>1, <2>2 DEF Inv, PermitsConserved
<1> QED
  BY <1>T, <1>F, <1>G, <1>L, <1>V, <1>E, <1>H, <1>S, <1>D, <1>P DEF Inv

(***************************************************************************)
(* A post that would exceed the limit returns EBUSY.                       *)
(***************************************************************************)
LEMMA PostOpBusyInv ==
  ASSUME Inv, NEW t \in Threads, pc[t] = "p_op", Return(t), guard' = NoThread,
         UNCHANGED <<val, credit, left, world, sq, toAwake, sched>>
  PROVE  Inv'
<1> USE ThreadsAssumption
<1>1. /\ TypeInv /\ guard = t /\ toSleep = {} /\ toAwake = {} /\ left = 0
      /\ Len(sq) = Max2(-val, 0) /\ sched[t] # "asleep" /\ ~Contains(sq, t)
      /\ \A u \in Threads \ {t} : pc[u] \notin Inside
  BY DEF Inv, GuardInv, Inside, LoadInv, ValueInv, SchedInv, ListInv, InCall
<1>3. pc'[t] = "idle" /\ ~timed'[t] /\ Others(t) /\ LocalTypes'
  BY <1>1, ReturnIs DEF Inv
<1>T. TypeInv'
  BY <1>1, <1>3, SemaAssumption DEF TypeInv, LocalTypes, ObjTypeOK, world,
     SchedStates
<1>F. FaultInv'
  BY <1>1, <1>3 DEF Inv, FaultInv, SaveLabels, TimeoutLabels, Others, world
<1>G. GuardInv'
  BY <1>1, <1>3 DEF Inv, GuardInv, Inside, Others, TypeInv, ObjTypeOK
<1>L. ListInv'
  BY <1>1, <1>3 DEF Inv, ListInv, InCall, Others, Distinct
<1>V. ValueInv'
  BY <1>1, <1>3 DEF Inv, ValueInv, GuardInv, Inside, Others, Max2
<1>E. ExistsInv'
  BY <1>1, <1>3 DEF Inv, ExistsInv, UnderIdm, Others, world
<1>H. ASSUME NEW u \in Threads PROVE ThreadInv(u)'
  BY <1>1, <1>3, <1>H DEF Inv, ThreadInv, GuardInv, Inside, Others
<1>S. ASSUME NEW u \in Threads PROVE SchedInv(u)'
  BY <1>1, <1>3, <1>S DEF Inv, SchedInv, Others, Inside
<1>D. LoadInv'
  BY <1>1, <1>3 DEF Inv, LoadInv, Others, world
<1>P. PermitsConserved'
  <2>1. Cardinality(Waiters) \in Nat
    BY WaitersFinite
  <2>2. Cardinality(Waiters)' = Cardinality(Waiters)
    BY <1>1, <1>3, WaitersKept DEF Counted, Others
  <2> QED
    BY <1>1, <2>1, <2>2 DEF Inv, PermitsConserved
<1> QED
  BY <1>T, <1>F, <1>G, <1>L, <1>V, <1>E, <1>H, <1>S, <1>D, <1>P DEF Inv

(***************************************************************************)
(* Whom schedule chooses is queued.                                        *)
(***************************************************************************)
LEMMA ServedIsQueued ==
  ASSUME sq \in Seq(Threads), sq # <<>>, NEW u \in ServedFirst(sq)
  PROVE  u \in Threads /\ Contains(sq, u)
<1>1. Len(sq) \in Nat /\ Len(sq) \in 1..Len(sq) /\ Last(sq) = sq[Len(sq)]
  BY DEF Last
<1>2. \E i \in 1..Len(sq) : u = sq[i]
  BY <1>1 DEF ServedFirst
<1>3. QED
  BY <1>2 DEF Contains

(***************************************************************************)
(* post takes a waiter out of the queue.                                   *)
(***************************************************************************)
LEMMA PostScheduleInv ==
  ASSUME Inv, NEW t \in Threads, PostSchedule(t)
  PROVE  Inv'
<1> USE ThreadsAssumption
<1>0. /\ TypeInv /\ val \in Int /\ sq \in Seq(Threads) /\ Len(sq) \in Nat /\ left \in Nat
      /\ pc[t] = "p_wake" /\ Distinct(sq)
  BY DEF Inv, TypeInv, PostSchedule, ListInv
<1>2. PICK w \in ServedFirst(sq) : sq' = Without(sq, w) /\ toAwake' = toAwake \union {w}
  BY DEF PostSchedule
<1>4. w \in Threads /\ Contains(sq, w)
  BY <1>0, <1>2, ServedIsQueued DEF PostSchedule
<1>5. /\ guard = t /\ \A u \in Threads \ {t} : pc[u] \notin Inside
  BY <1>0 DEF Inv, GuardInv, Inside
<1>6. /\ toSleep = {} /\ \A u \in Threads : pc[u] # "a_wait"
  BY <1>0 DEF Inv, LoadInv, ThreadInv
<1>7. pc[w] \in {"w_wait", "t_check", "t_lock"} /\ w # t
  BY <1>0, <1>4, <1>5, <1>6 DEF Inv, ListInv, InCall, Inside
<1>8. /\ sq' \in Seq(Threads) /\ Len(sq') = Len(sq) - 1 /\ Distinct(sq')
      /\ \A u \in Threads : Contains(sq', u) <=> Contains(sq, u) /\ u # w
  BY <1>0, <1>2, <1>4, RemoveFirstHas, RemoveFirstLen DEF Without
<1>9. /\ left' = left - 1 /\ left > 0
      /\ UNCHANGED <<pc, timed, seen, amount, world, val, guard, sched, credit>>
  BY DEF PostSchedule, local
<1>1. /\ TypeInv /\ pc[t] = "p_wake" /\ guard = t /\ toSleep = {}
      /\ toAwake' = toAwake \union {w} /\ w \in Threads /\ w # t
      /\ pc[w] \in {"w_wait", "t_check", "t_lock"} /\ Contains(sq, w)
      /\ \A u \in Threads \ {t} : pc[u] \notin Inside
      /\ \A u \in Threads : pc[u] # "a_wait"
      /\ UNCHANGED <<pc, timed, seen, amount, world, val, guard, sched, credit>>
      /\ left' = left - 1 /\ left > 0 /\ left \in Nat
  BY <1>0, <1>2, <1>4, <1>5, <1>6, <1>7, <1>9
<1>3. pc' = pc /\ Others(t) /\ LocalTypes'
  BY <1>1 DEF Others, LocalTypes, TypeInv, ObjTypeOK
<1>T. TypeInv'
  BY <1>1, <1>3, <1>8 DEF TypeInv, LocalTypes, ObjTypeOK,
     world, SchedStates
<1>F. FaultInv'
  BY <1>1, <1>3, <1>8 DEF Inv, FaultInv, SaveLabels, TimeoutLabels, Others,
     world
<1>G. GuardInv'
  BY <1>1, <1>3, <1>8 DEF Inv, GuardInv, Inside, Others, TypeInv, ObjTypeOK
<1>L. ListInv'
  BY <1>1, <1>3, <1>8 DEF Inv, ListInv, InCall, Others
<1>V. ValueInv'
  BY <1>1, <1>3, <1>8, <1>0 DEF Inv, ValueInv, GuardInv, Inside, Others, Max2
<1>E. ExistsInv'
  BY <1>1, <1>3, <1>8 DEF Inv, ExistsInv, UnderIdm, Others, world
<1>H. ASSUME NEW u \in Threads PROVE ThreadInv(u)'
  BY <1>1, <1>3, <1>8, <1>H DEF Inv, ThreadInv, GuardInv, Inside, Others
<1>S. ASSUME NEW u \in Threads PROVE SchedInv(u)'
  BY <1>1, <1>3, <1>8, <1>S DEF Inv, SchedInv, Others, Inside
<1>D. LoadInv'
  BY <1>1, <1>3, <1>8 DEF Inv, LoadInv, Others, world
<1>P. PermitsConserved'
  <2>1. Cardinality(Waiters) \in Nat
    BY WaitersFinite
  <2>2. Cardinality(Waiters)' = Cardinality(Waiters)
    BY <1>1, <1>3, WaitersKept DEF Counted, Others
  <2> QED
    BY <1>1, <2>1, <2>2 DEF Inv, PermitsConserved
<1> QED
  BY <1>T, <1>F, <1>G, <1>L, <1>V, <1>E, <1>H, <1>S, <1>D, <1>P DEF Inv

(***************************************************************************)
(* post awakens those it has taken out, and returns.                       *)
(***************************************************************************)
LEMMA PostAwakeInv ==
  ASSUME Inv, NEW t \in Threads, PostAwake(t)
  PROVE  Inv'
<1> USE ThreadsAssumption
<1>0. /\ TypeInv /\ pc[t] = "p_wake" /\ left = 0 /\ toAwake' = {} /\ guard' = NoThread
      /\ Len(sq) \in Nat /\ Len(sq) = Max2(-val, 0)
      /\ UNCHANGED <<world, val, sq, left, credit>>
  BY DEF Inv, TypeInv, PostAwake, ValueInv
<1>5. /\ guard = t /\ \A u \in Threads \ {t} : pc[u] \notin Inside
  BY <1>0 DEF Inv, GuardInv, Inside
<1>6. toSleep = {} /\ ~Contains(sq, t) /\ sched[t] # "asleep" /\ t \notin toAwake
  BY <1>0 DEF Inv, LoadInv, ListInv, InCall, SchedInv, ThreadInv
<1>2. /\ sched' \in [Threads -> SchedStates]
      /\ \A u \in Threads :
           sched'[u] = IF u \in toAwake /\ sched[u] = "asleep" THEN "ready" ELSE sched[u]
  BY <1>0 DEF PostAwake, Awaken, TypeInv, ObjTypeOK, SchedStates
<1>1. /\ TypeInv /\ pc[t] = "p_wake" /\ left = 0 /\ toAwake' = {} /\ guard = t
      /\ guard' = NoThread /\ toSleep = {} /\ ~Contains(sq, t) /\ t \notin toAwake
      /\ sched[t] # "asleep" /\ Len(sq) = Max2(-val, 0)
      /\ \A u \in Threads \ {t} : pc[u] \notin Inside
      /\ UNCHANGED <<world, val, sq, left, credit>>
  BY <1>0, <1>5, <1>6
<1>3. pc'[t] = "idle" /\ ~timed'[t] /\ Others(t) /\ LocalTypes'
  BY <1>1, ReturnIs DEF Inv, PostAwake
<1>T. TypeInv'
  BY <1>1, <1>2, <1>3, SemaAssumption DEF TypeInv, LocalTypes, ObjTypeOK, world,
     SchedStates
<1>F. FaultInv'
  BY <1>1, <1>3 DEF Inv, FaultInv, SaveLabels, TimeoutLabels, Others, world
<1>G. GuardInv'
  BY <1>1, <1>3 DEF Inv, GuardInv, Inside, Others, TypeInv, ObjTypeOK
<1>L. ListInv'
  BY <1>1, <1>3 DEF Inv, ListInv, InCall, Others, Distinct
<1>V. ValueInv'
  BY <1>1, <1>3 DEF Inv, ValueInv, GuardInv, Inside, Others, Max2
<1>E. ExistsInv'
  BY <1>1, <1>3 DEF Inv, ExistsInv, UnderIdm, Others, world
<1>H. ASSUME NEW u \in Threads PROVE ThreadInv(u)'
  BY <1>1, <1>3, <1>H DEF Inv, ThreadInv, GuardInv, Inside, Others
<1>S. ASSUME NEW u \in Threads PROVE SchedInv(u)'
  BY <1>1, <1>2, <1>3, <1>S DEF Inv, SchedInv, Others, Inside, ListInv
<1>D. LoadInv'
  BY <1>1, <1>3 DEF Inv, LoadInv, Others, world
<1>P. PermitsConserved'
  <2>1. Cardinality(Waiters) \in Nat
    BY WaitersFinite
  <2>2. Cardinality(Waiters)' = Cardinality(Waiters)
    BY <1>1, <1>3, WaitersKept DEF Counted, Others
  <2> QED
    BY <1>1, <2>1, <2>2 DEF Inv, PermitsConserved
<1> QED
  BY <1>T, <1>F, <1>G, <1>L, <1>V, <1>E, <1>H, <1>S, <1>D, <1>P DEF Inv

-----------------------------------------------------------------------------
(* destroy, the scheduler and savestates *)

(***************************************************************************)
(* The semaphore is destroyed.                                             *)
(***************************************************************************)
LEMMA DestroyInv ==
  ASSUME Inv, NEW t \in Threads, Destroy(t)
  PROVE  Inv'
<1> USE ThreadsAssumption
<1>1. /\ TypeInv /\ pc[t] = "idle" /\ toSleep = {} /\ val >= 0 /\ exists' = FALSE
      /\ \A u \in Threads : pc[u] \notin UnderIdm
      /\ UNCHANGED <<pc, timed, seen, amount, fifo, stopped, toSleep, saves, faults, val, sq,
                     guard, left, toAwake, sched, credit>>
  BY DEF Inv, Destroy, Running, MayStep, local
<1>3. pc' = pc /\ Others(t) /\ LocalTypes'
  BY <1>1 DEF Others, LocalTypes, TypeInv, ObjTypeOK
<1>T. TypeInv'
  BY <1>1, <1>3, SemaAssumption DEF TypeInv, LocalTypes, ObjTypeOK, world,
     SchedStates
<1>F. FaultInv'
  BY <1>1, <1>3 DEF Inv, FaultInv, SaveLabels, TimeoutLabels, Others, world
<1>G. GuardInv'
  BY <1>1, <1>3 DEF Inv, GuardInv, Inside, Others, TypeInv, ObjTypeOK
<1>L. ListInv'
  BY <1>1, <1>3 DEF Inv, ListInv, InCall, Others, Distinct
<1>V. ValueInv'
  BY <1>1, <1>3 DEF Inv, ValueInv, GuardInv, Inside, Others, Max2
<1>E. ExistsInv'
  BY <1>1, <1>3 DEF Inv, ExistsInv, UnderIdm, Others, world
<1>H. ASSUME NEW u \in Threads PROVE ThreadInv(u)'
  BY <1>1, <1>3, <1>H DEF Inv, ThreadInv, GuardInv, Inside, Others
<1>S. ASSUME NEW u \in Threads PROVE SchedInv(u)'
  BY <1>1, <1>3, <1>S DEF Inv, SchedInv, Others, Inside
<1>D. LoadInv'
  BY <1>1, <1>3 DEF Inv, LoadInv, Others, world
<1>P. PermitsConserved'
  <2>1. Cardinality(Waiters) \in Nat
    BY WaitersFinite
  <2>2. Cardinality(Waiters)' = Cardinality(Waiters)
    BY <1>1, <1>3, WaitersKept DEF Counted, Others
  <2> QED
    BY <1>1, <2>1, <2>2 DEF Inv, PermitsConserved
<1> QED
  BY <1>T, <1>F, <1>G, <1>L, <1>V, <1>E, <1>H, <1>S, <1>D, <1>P DEF Inv

(***************************************************************************)
(* An awakened thread is signalled.                                        *)
(***************************************************************************)
LEMMA ScheduleInv ==
  ASSUME Inv, NEW t \in Threads, Schedule(t)
  PROVE  Inv'
<1> USE ThreadsAssumption
<1>1. /\ TypeInv /\ sched[t] = "ready" /\ sched' = [sched EXCEPT ![t] = "signal"]
      /\ UNCHANGED <<pc, timed, seen, amount, world, val, sq, guard, left, toAwake, credit>>
  BY DEF Inv, Schedule, ObjSchedule
<1>2. /\ sched'[t] = "signal" /\ \A u \in Threads \ {t} : sched'[u] = sched[u]
      /\ sched' \in [Threads -> SchedStates]
  BY <1>1 DEF TypeInv, ObjTypeOK, SchedStates
<1>3. pc' = pc /\ Others(t) /\ LocalTypes'
  BY <1>1 DEF Others, LocalTypes, TypeInv, ObjTypeOK
<1>T. TypeInv'
  BY <1>1, <1>2, <1>3, SemaAssumption DEF TypeInv, LocalTypes, ObjTypeOK,
     world, SchedStates
<1>F. FaultInv'
  BY <1>1, <1>2, <1>3 DEF Inv, FaultInv, SaveLabels, TimeoutLabels, Others,
     world
<1>G. GuardInv'
  BY <1>1, <1>2, <1>3 DEF Inv, GuardInv, Inside, Others, TypeInv, ObjTypeOK
<1>L. ListInv'
  BY <1>1, <1>2, <1>3 DEF Inv, ListInv, InCall, Others, Distinct
<1>V. ValueInv'
  BY <1>1, <1>2, <1>3 DEF Inv, ValueInv, GuardInv, Inside, Others, Max2
<1>E. ExistsInv'
  BY <1>1, <1>2, <1>3 DEF Inv, ExistsInv, UnderIdm, Others, world
<1>H. ASSUME NEW u \in Threads PROVE ThreadInv(u)'
  BY <1>1, <1>2, <1>3, <1>H DEF Inv, ThreadInv, GuardInv, Inside, Others
<1>S. ASSUME NEW u \in Threads PROVE SchedInv(u)'
  BY <1>1, <1>2, <1>3, <1>S DEF Inv, SchedInv, Others, Inside
<1>D. LoadInv'
  BY <1>1, <1>2, <1>3 DEF Inv, LoadInv, Others, world
<1>P. PermitsConserved'
  <2>1. Cardinality(Waiters) \in Nat
    BY WaitersFinite
  <2>2. Cardinality(Waiters)' = Cardinality(Waiters)
    BY <1>1, <1>3, WaitersKept DEF Counted, Others
  <2> QED
    BY <1>1, <2>1, <2>2 DEF Inv, PermitsConserved
<1> QED
  BY <1>T, <1>F, <1>G, <1>L, <1>V, <1>E, <1>H, <1>S, <1>D, <1>P DEF Inv

(***************************************************************************)
(* A thread is told to stop.                                               *)
(***************************************************************************)
LEMMA StopThreadInv ==
  ASSUME Inv, NEW t \in Threads, StopThread(t)
  PROVE  Inv'
<1> USE ThreadsAssumption
<1>1. /\ TypeInv /\ stopped' = stopped \union {t} /\ "save" \in faults /\ saves < MaxSaves
      /\ UNCHANGED <<pc, timed, seen, amount, fifo, exists, toSleep, saves, faults, val, sq,
                     guard, left, toAwake, sched, credit>>
  BY DEF Inv, StopThread, ObjStop
<1>3. pc' = pc /\ Others(t) /\ LocalTypes'
  BY <1>1 DEF Others, LocalTypes, TypeInv, ObjTypeOK
<1>T. TypeInv'
  BY <1>1, <1>3, SemaAssumption DEF TypeInv, LocalTypes, ObjTypeOK, world,
     SchedStates
<1>F. FaultInv'
  BY <1>1, <1>3 DEF Inv, FaultInv, SaveLabels, TimeoutLabels, Others, world
<1>G. GuardInv'
  BY <1>1, <1>3 DEF Inv, GuardInv, Inside, Others, TypeInv, ObjTypeOK
<1>L. ListInv'
  BY <1>1, <1>3 DEF Inv, ListInv, InCall, Others, Distinct
<1>V. ValueInv'
  BY <1>1, <1>3 DEF Inv, ValueInv, GuardInv, Inside, Others, Max2
<1>E. ExistsInv'
  BY <1>1, <1>3 DEF Inv, ExistsInv, UnderIdm, Others, world
<1>H. ASSUME NEW u \in Threads PROVE ThreadInv(u)'
  BY <1>1, <1>3, <1>H DEF Inv, ThreadInv, GuardInv, Inside, Others
<1>S. ASSUME NEW u \in Threads PROVE SchedInv(u)'
  BY <1>1, <1>3, <1>S DEF Inv, SchedInv, Others, Inside
<1>D. LoadInv'
  BY <1>1, <1>3 DEF Inv, LoadInv, Others, world
<1>P. PermitsConserved'
  <2>1. Cardinality(Waiters) \in Nat
    BY WaitersFinite
  <2>2. Cardinality(Waiters)' = Cardinality(Waiters)
    BY <1>1, <1>3, WaitersKept DEF Counted, Others
  <2> QED
    BY <1>1, <2>1, <2>2 DEF Inv, PermitsConserved
<1> QED
  BY <1>T, <1>F, <1>G, <1>L, <1>V, <1>E, <1>H, <1>S, <1>D, <1>P DEF Inv

(***************************************************************************)
(* The state is saved and loaded: the waiters are those in the queue, and  *)
(* they will wait again.                                                   *)
(***************************************************************************)
LEMMA SaveAndLoadInv ==
  ASSUME Inv, SaveAndLoad
  PROVE  Inv'
<1> USE ThreadsAssumption
<1>0. /\ stopped = Threads /\ saves' = saves + 1 /\ stopped' = {} /\ sq' = <<>>
      /\ toSleep' = {u \in Threads : pc[u] # "idle" /\ sched[u] = "asleep"}
      /\ sched' = [u \in Threads |-> "on"] /\ val' = Max2(val, 0)
      /\ UNCHANGED <<fifo, exists, guard, timed, faults, seen, amount, left, toAwake, credit>>
  BY DEF SaveAndLoad, ObjSaveAndLoad
<1>1. /\ TypeInv /\ val \in Int /\ sq \in Seq(Threads) /\ credit \in Int /\ saves \in Nat
      /\ saves < MaxSaves /\ "save" \in faults
  BY <1>0, MainThreadAssumption DEF Inv, TypeInv, ObjTypeOK, FaultInv
<1>2. \A u \in Threads : pc[u] \in {"idle", "a_wait", "a_post"}
  BY DEF SaveAndLoad, ObjSaveAndLoad, Redo
<1>3. /\ pc' \in [Threads -> PCs]
      /\ \A u \in Threads : pc'[u] = IF pc[u] = "idle" THEN "idle"
                                     ELSE IF pc[u] = "a_wait" THEN "w_redo" ELSE "p_redo"
  BY <1>2 DEF SaveAndLoad, ObjSaveAndLoad, Redo, PCs
<1>4. guard = NoThread /\ left = 0 /\ toAwake = {} /\ Len(sq) = Max2(-val, 0)
  BY <1>1, <1>2 DEF Inv, GuardInv, Inside, ValueInv, TypeInv, ObjTypeOK
<1>5. \A u \in Threads : pc[u] = "a_wait" <=> Contains(sq, u)
  BY <1>2 DEF Inv, ThreadInv, ListInv, InCall
<1>6. Cardinality(Waiters) = Len(sq)
  <2>1. Waiters = {u \in Threads : Contains(sq, u)}
    BY <1>2, <1>5 DEF Waiters
  <2>2. QED
    BY <1>1, <2>1, DistinctLen DEF Inv, ListInv
<1>7. credit = Max2(val, 0)
  BY <1>1, <1>4, <1>6 DEF Inv, PermitsConserved, Max2
<1>8. Cardinality(Waiters)' = 0
  <2>1. Waiters' = {}
    BY <1>2, <1>3 DEF Waiters
  <2>2. QED
    BY <2>1, FS_EmptySet
<1>9. val' \in Int /\ val' >= 0 /\ val' <= MaxVal
  BY <1>0, <1>1, SemaAssumption DEF Inv, TypeInv, Max2
<1>10. Len(sq') = 0 /\ Distinct(sq') /\ \A u \in Threads : ~Contains(sq', u)
  BY <1>0 DEF Distinct, Contains
<1>T. TypeInv'
  BY <1>0, <1>1, <1>3, <1>9, SavesAssumption DEF TypeInv, ObjTypeOK, SchedStates
<1>F. FaultInv'
  BY <1>0, <1>1, <1>3 DEF Inv, FaultInv, SaveLabels, TimeoutLabels
<1>G. GuardInv'
  BY <1>0, <1>3, <1>4 DEF GuardInv, Inside
<1>L. ListInv'
  BY <1>10 DEF ListInv
<1>V. ValueInv'
  <2>1. Max2(-val, 0)' = 0
    BY <1>9, NoneCounted
  <2>2. \A u \in Threads : pc'[u] \in {"idle", "w_redo", "p_redo"}
    BY <1>3
  <2>3. QED
    BY <1>10, <2>1, <2>2 DEF ValueInv
<1>E. ExistsInv'
  BY <1>0, <1>3, <1>9 DEF ExistsInv, UnderIdm
<1>P. PermitsConserved'
  BY <1>0, <1>1, <1>7, <1>8 DEF PermitsConserved, Max2
<1>H. ASSUME NEW u \in Threads PROVE ThreadInv(u)'
  BY <1>0, <1>3, <1>4, <1>H DEF ThreadInv
<1>S. ASSUME NEW u \in Threads PROVE SchedInv(u)'
  BY <1>0, <1>3, <1>S DEF SchedInv
<1>D. LoadInv'
  <2>1. \A u \in toSleep' : pc[u] = "a_wait"
    BY <1>0, <1>2 DEF Inv, SchedInv
  <2>2. toSleep' # {} => val < 0
    <3>1. \A u \in toSleep' : Contains(sq, u)
      BY <1>0, <1>5, <2>1
    <3>2. toSleep' # {} => Len(sq) # 0
      BY <1>1, <3>1 DEF Contains
    <3>3. QED
      BY <1>1, <1>4, <3>2 DEF Max2
  <2>3. toSleep' # {} => val' = 0 /\ exists
    BY <1>0, <1>1, <2>2 DEF Max2, Inv, ExistsInv
  <2>4. QED
    BY <1>0, <1>3, <2>1, <2>3 DEF LoadInv
<1> QED
  BY <1>T, <1>F, <1>G, <1>L, <1>V, <1>E, <1>H, <1>S, <1>D, <1>P DEF Inv

-----------------------------------------------------------------------------
(* Every step keeps the invariant *)

(***************************************************************************)
(* With timeouts, no thread is stopped and no sleeper is being loaded.     *)
(***************************************************************************)
LEMMA NoSaveWithTimeouts ==
  ASSUME Inv, OneFault, "timeout" \in faults
  PROVE  stopped = {} /\ toSleep = {}
BY DEF Inv, TypeInv, ObjTypeOK, FaultInv, OneFault

(***************************************************************************)
(* A wait call, new or made again, begins.                                 *)
(***************************************************************************)
LEMMA WaitInv ==
  ASSUME Inv, NEW t \in Threads, NEW from, NEW to \in BOOLEAN, Wait(t, from, to),
         from = "idle" \/ from = "w_redo", to => "timeout" \in faults
  PROVE  Inv'
<1>1. /\ TypeInv /\ pc[t] = from /\ exists /\ (from = "idle" => toSleep = {})
      /\ (toSleep = {} \/ t \in toSleep)
      /\ UNCHANGED <<world, val, sq, guard, left, toAwake, sched, credit>>
      /\ val \in Int /\ val <= MaxVal
  BY DEF Inv, Wait, Running, MayStep, TypeInv
<1>2. /\ ~Contains(sq, t) /\ t \notin toAwake /\ sched[t] # "asleep"
      /\ (toSleep # {} => ~(val > 0))
  BY <1>1 DEF Inv, ListInv, InCall, ThreadInv, SchedInv, LoadInv
<1>0. 0 \in 0..MaxVal /\ 0 \in 0..MaxPost
  BY SemaAssumption
<1>3. CASE val > 0
  <2>1. val \in 0..MaxVal /\ "w_cas" \in PCs /\ Enter(t, "w_cas", val, 0, to)
    BY <1>1, <1>3, SemaAssumption DEF Wait, PCs
  <2>2. /\ pc'[t] = "w_cas" /\ seen'[t] = val /\ timed'[t] = to /\ Others(t) /\ LocalTypes'
    BY <1>0, <1>1, <2>1, EnterIs
  <2>3. PICK l \in PCs : l = "w_cas"
    BY DEF PCs
  <2>4. QED
    BY <1>1, <1>2, <1>3, <2>2, <2>3, MoveInv DEF Inside, Counted, SaveLabels, TimeoutLabels
<1>4. CASE ~(val > 0)
  <2>1. "w_lock" \in PCs /\ Enter(t, "w_lock", 0, 0, to)
    BY <1>1, <1>4 DEF Wait, PCs
  <2>2. /\ pc'[t] = "w_lock" /\ timed'[t] = to /\ Others(t) /\ LocalTypes'
    BY <1>0, <1>1, <2>1, EnterIs
  <2>3. PICK l \in PCs : l = "w_lock"
    BY DEF PCs
  <2>4. QED
    BY <1>1, <1>2, <2>2, <2>3, MoveInv DEF Inside, Counted, SaveLabels, TimeoutLabels
<1>5. QED
  BY <1>3, <1>4

(***************************************************************************)
(* The compare-and-swap of wait.                                           *)
(***************************************************************************)
LEMMA WaitCasInv ==
  ASSUME Inv, NEW t \in Threads, WaitCas(t)
  PROVE  Inv'
<1>1. /\ TypeInv /\ pc[t] = "w_cas" /\ exists /\ toSleep = {} /\ seen[t] > 0
      /\ UNCHANGED <<world, sq, guard, left, toAwake, sched>>
      /\ val \in Int /\ val <= MaxVal
  BY DEF Inv, WaitCas, TypeInv, ExistsInv, UnderIdm, LoadInv, ThreadInv
<1>2. ~Contains(sq, t) /\ t \notin toAwake /\ sched[t] # "asleep"
  BY <1>1 DEF Inv, ListInv, InCall, ThreadInv, SchedInv
<1>3. CASE val = seen[t]
  <2>1. /\ val' = val - 1 /\ ReturnTaken(t)
    BY <1>1, <1>3 DEF WaitCas
  <2>2. pc'[t] = "idle" /\ timed'[t] = FALSE /\ Others(t) /\ LocalTypes'
    BY <1>1, <2>1, ReturnIs DEF ReturnTaken
  <2>3. val >= 0 /\ val' \in Nat /\ val' <= MaxVal /\ credit' = credit + (val' - val)
    BY <1>1, <1>3, <2>1, SemaAssumption DEF ReturnTaken, Inv, TypeInv
  <2>4. QED
    BY <1>1, <2>2, <2>3, FastInv
<1>4. CASE val # seen[t]
  <2>1. Goto(t, "w_lock") /\ "w_lock" \in PCs /\ UNCHANGED <<val, credit>>
    BY <1>1, <1>4 DEF WaitCas, PCs
  <2>2. pc'[t] = "w_lock" /\ timed'[t] = timed[t] /\ Others(t) /\ LocalTypes'
    BY <1>1, <2>1, GotoIs
  <2>3. PICK l \in PCs : l = "w_lock"
    BY DEF PCs
  <2>4. timed[t] => "timeout" \in faults
    BY DEF Inv, FaultInv
  <2>5. QED
    BY <1>1, <1>2, <2>1, <2>2, <2>3, <2>4, MoveInv
    DEF Inside, Counted, SaveLabels, TimeoutLabels
<1>5. QED
  BY <1>3, <1>4

(***************************************************************************)
(* A wait of a stopped thread.                                             *)
(***************************************************************************)
LEMMA WaitStoppedInv ==
  ASSUME Inv, NEW t \in Threads, WaitStopped(t)
  PROVE  Inv'
<1>1. /\ TypeInv /\ pc[t] = "w_wait" /\ guard = NoThread /\ t \in stopped /\ Stopping(t, "w_wait")
      /\ UNCHANGED <<world, val, sq, guard, left, toAwake, sched>>
  BY DEF Inv, WaitStopped, Stopping
<1>0. /\ t \notin toSleep /\ "save" \in faults /\ toAwake = {}
      /\ timed[t] => "timeout" \in faults
  <2>1. t \notin toSleep /\ "save" \in faults /\ (timed[t] => "timeout" \in faults)
    BY <1>1 DEF Inv, LoadInv, FaultInv
  <2>2. toAwake = {}
    BY <1>1, ThreadsAssumption DEF Inv, GuardInv, Inside
  <2>3. QED
    BY <2>1, <2>2
<1>2. CASE ~Contains(sq, t)
  BY <1>1, <1>2, StoppedServedInv DEF WaitStopped
<1>3. CASE Contains(sq, t)
  <2>1. Goto(t, "a_wait") /\ "a_wait" \in PCs /\ UNCHANGED credit
    BY <1>1, <1>3 DEF WaitStopped, PCs
  <2>2. pc'[t] = "a_wait" /\ timed'[t] = timed[t] /\ Others(t) /\ LocalTypes'
    BY <1>1, <2>1, GotoIs
  <2>3. PICK l \in PCs : l = "a_wait"
    BY DEF PCs
  <2>4. QED
    BY <1>0, <1>1, <1>3, <2>1, <2>2, <2>3, MoveInv
    DEF Inside, Counted, SaveLabels, TimeoutLabels, InCall, UnderIdm
<1>4. QED
  BY <1>2, <1>3

(***************************************************************************)
(* The timeout of a wait call expires.                                     *)
(***************************************************************************)
LEMMA TimeOutInv ==
  ASSUME Inv, OneFault, NEW t \in Threads, TimeOut(t)
  PROVE  Inv'
<1>1. /\ TypeInv /\ pc[t] = "w_wait" /\ timed[t]
      /\ UNCHANGED <<world, val, sq, guard, left, toAwake, sched, credit>>
      /\ Goto(t, "t_check") /\ "t_check" \in PCs
  BY DEF Inv, TimeOut, TimedOut, PCs
<1>2. toSleep = {} /\ "timeout" \in faults
  BY <1>1, NoSaveWithTimeouts DEF Inv, FaultInv
<1>3. pc'[t] = "t_check" /\ Others(t) /\ LocalTypes'
  BY <1>1, GotoIs
<1>4. PICK l \in PCs : l = "t_check"
  BY DEF PCs
<1>5. QED
  BY <1>1, <1>2, <1>3, <1>4, MoveInv
  DEF Inside, Counted, SaveLabels, TimeoutLabels, InCall, UnderIdm

(***************************************************************************)
(* A post call, new or made again, begins.                                 *)
(***************************************************************************)
LEMMA PostInv ==
  ASSUME Inv, NEW t \in Threads, NEW from, NEW n \in 0..MaxPost, Post(t, from, n),
         from = "idle" \/ from = "p_redo" 
  PROVE  Inv'
<1>1. /\ TypeInv /\ pc[t] = from /\ exists /\ (from = "idle" => toSleep = {})
      /\ (toSleep = {} \/ t \in toSleep)
      /\ UNCHANGED <<world, val, sq, guard, left, toAwake, sched, credit>>
      /\ val \in Int /\ val <= MaxVal
  BY DEF Inv, Post, Running, MayStep, TypeInv
<1>2. /\ ~Contains(sq, t) /\ t \notin toAwake /\ sched[t] # "asleep" /\ toSleep = {}
  BY <1>1 DEF Inv, ListInv, InCall, ThreadInv, SchedInv, LoadInv
<1>0. 0 \in 0..MaxVal /\ FALSE \in BOOLEAN
  BY SemaAssumption
<1>3. CASE val >= 0 /\ n <= MaxVal - val
  <2>0. val \in 0..MaxVal
    BY <1>1, <1>3, SemaAssumption
  <2>1. "p_cas" \in PCs /\ Enter(t, "p_cas", val, n, FALSE)
    BY <1>3 DEF Post, PCs
  <2>2. /\ pc'[t] = "p_cas" /\ seen'[t] = val /\ amount'[t] = n /\ timed'[t] = FALSE
        /\ Others(t) /\ LocalTypes'
    BY <1>0, <1>1, <2>0, <2>1, EnterIs
  <2>3. seen'[t] + amount'[t] <= MaxVal
    BY <1>1, <1>3, <2>2, SemaAssumption
  <2>4. PICK l \in PCs : l = "p_cas"
    BY DEF PCs
  <2>5. QED
    BY <1>1, <1>2, <2>2, <2>3, <2>4, MoveInv DEF Inside, Counted, SaveLabels, TimeoutLabels
<1>4. CASE ~(val >= 0 /\ n <= MaxVal - val)
  <2>1. "p_lock" \in PCs /\ Enter(t, "p_lock", 0, n, FALSE)
    BY <1>1, <1>4 DEF Post, PCs
  <2>2. /\ pc'[t] = "p_lock" /\ timed'[t] = FALSE /\ Others(t) /\ LocalTypes'
    BY <1>0, <1>1, <2>1, EnterIs
  <2>3. PICK l \in PCs : l = "p_lock"
    BY DEF PCs
  <2>4. QED
    BY <1>1, <1>2, <2>2, <2>3, MoveInv DEF Inside, Counted, SaveLabels, TimeoutLabels, UnderIdm
<1>5. QED
  BY <1>3, <1>4

(***************************************************************************)
(* The compare-and-swap of post.                                           *)
(***************************************************************************)
LEMMA PostCasInv ==
  ASSUME Inv, NEW t \in Threads, PostCas(t)
  PROVE  Inv'
<1>0. /\ TypeInv /\ val \in Int /\ credit \in Int /\ seen[t] \in Nat /\ amount[t] \in Nat
  BY SemaAssumption DEF Inv, TypeInv
<1>5. pc[t] = "p_cas" /\ UNCHANGED <<world, sq, guard, left, toAwake, sched>>
  BY DEF PostCas
<1>6. toSleep = {}
  BY <1>5 DEF Inv, LoadInv
<1>1. /\ TypeInv /\ pc[t] = "p_cas" /\ toSleep = {}
      /\ UNCHANGED <<world, sq, guard, left, toAwake, sched>>
      /\ val \in Int /\ credit \in Int /\ seen[t] \in Nat /\ amount[t] \in Nat
  BY <1>0, <1>5, <1>6
<1>2. /\ ~Contains(sq, t) /\ t \notin toAwake /\ sched[t] # "asleep"
      /\ seen[t] + amount[t] <= MaxVal
  BY <1>1 DEF Inv, ListInv, InCall, ThreadInv, SchedInv
<1>3. CASE val = seen[t]
  <2>1. /\ val' = val + amount[t] /\ credit' = credit + amount[t] /\ Return(t)
    BY <1>1, <1>3 DEF PostCas
  <2>2. pc'[t] = "idle" /\ timed'[t] = FALSE /\ Others(t) /\ LocalTypes'
    BY <1>1, <2>1, ReturnIs
  <2>3. val >= 0 /\ val' \in Nat /\ val' <= MaxVal /\ credit' = credit + (val' - val)
    BY <1>1, <1>2, <1>3, <2>1
  <2>4. QED
    BY <1>1, <2>2, <2>3, FastInv
<1>4. CASE val # seen[t]
  <2>1. Goto(t, "p_lock") /\ "p_lock" \in PCs /\ UNCHANGED <<val, credit>>
    BY <1>1, <1>4 DEF PostCas, PCs
  <2>2. pc'[t] = "p_lock" /\ timed'[t] = timed[t] /\ Others(t) /\ LocalTypes'
    BY <1>1, <2>1, GotoIs
  <2>3. PICK l \in PCs : l = "p_lock"
    BY DEF PCs
  <2>4. timed[t] => "timeout" \in faults
    BY DEF Inv, FaultInv
  <2>5. QED
    BY <1>1, <1>2, <2>1, <2>2, <2>3, <2>4, MoveInv
    DEF Inside, Counted, SaveLabels, TimeoutLabels, UnderIdm
<1>7. QED
  BY <1>3, <1>4

(***************************************************************************)
(* post takes the internal mutex, or is put off because of a stopped       *)
(* waiter.                                                                 *)
(***************************************************************************)
LEMMA PostLockInv ==
  ASSUME Inv, NEW t \in Threads, PostLock(t)
  PROVE  Inv'
<1>1. /\ TypeInv /\ pc[t] = "p_lock" /\ guard = NoThread
      /\ UNCHANGED <<world, val, sq, left, toAwake, sched, credit>>
      /\ sq \in Seq(Threads)
  BY DEF Inv, PostLock, TypeInv
<1>2. /\ ~Contains(sq, t) /\ t \notin toAwake /\ sched[t] # "asleep" /\ toSleep = {}
      /\ timed[t] => "timeout" \in faults
  BY <1>1 DEF Inv, ListInv, InCall, ThreadInv, SchedInv, LoadInv, FaultInv
<1>3. CASE \E i \in 1..Len(sq) : Again(sq[i])
  <2>1. Goto(t, "a_post") /\ "a_post" \in PCs /\ UNCHANGED guard
    BY <1>1, <1>3 DEF PostLock, PCs
  <2>2. pc'[t] = "a_post" /\ timed'[t] = timed[t] /\ Others(t) /\ LocalTypes'
    BY <1>1, <2>1, GotoIs
  <2>3. PICK l \in PCs : l = "a_post"
    BY DEF PCs
  <2>4. "save" \in faults
    BY <1>1, <1>3 DEF Again, Inv, FaultInv, SaveLabels
  <2>5. QED
    BY <1>1, <1>2, <2>1, <2>2, <2>3, <2>4, MoveInv
    DEF Inside, Counted, SaveLabels, TimeoutLabels, UnderIdm
<1>4. CASE ~\E i \in 1..Len(sq) : Again(sq[i])
  <2>1. Goto(t, "p_op") /\ guard' = t
    BY <1>1, <1>4 DEF PostLock
  <2>2. \A u \in Threads : pc[u] # "a_wait"
    BY <1>1, <1>4 DEF Again, Inv, ThreadInv, Contains
  <2>3. PICK from : from = "p_lock"
    OBVIOUS
  <2>4. PICK to : to = "p_op"
    OBVIOUS
  <2>5. QED
    BY <1>1, <2>1, <2>2, <2>3, <2>4, TakeGuardInv
<1>5. QED
  BY <1>3, <1>4

(***************************************************************************)
(* A call that finds the semaphore destroyed returns.                      *)
(***************************************************************************)
LEMMA RedoEsrchInv ==
  ASSUME Inv, NEW t \in Threads, RedoEsrch(t)
  PROVE  Inv'
<1>1. /\ TypeInv /\ pc[t] \in {"w_redo", "p_redo"} /\ ~exists /\ Return(t)
      /\ UNCHANGED <<world, val, sq, guard, left, toAwake, sched, credit>>
  BY DEF Inv, RedoEsrch
<1>2. /\ ~Contains(sq, t) /\ t \notin toAwake /\ sched[t] # "asleep" /\ toSleep = {}
  BY <1>1 DEF Inv, ListInv, InCall, ThreadInv, SchedInv, LoadInv
<1>3. pc'[t] = "idle" /\ timed'[t] = FALSE /\ Others(t) /\ LocalTypes'
  BY <1>1, ReturnIs
<1>4. PICK l \in PCs : l = "idle"
  BY DEF PCs
<1>5. QED
  BY <1>1, <1>2, <1>3, <1>4, MoveInv DEF Inside, Counted, SaveLabels, TimeoutLabels, UnderIdm

(***************************************************************************)
(* wait with the internal mutex, and a timeout that looks at the queue.    *)
(***************************************************************************)
LEMMA GuardedWaitInv ==
  ASSUME Inv, NEW t \in Threads, WaitLock(t) \/ WaitDec(t) \/ TimeOutLock(t) \/ TimeOutUnqueue(t)
  PROVE  Inv'
<1>1. ASSUME WaitLock(t) PROVE Inv'
  <2>1. PICK from : from = "w_lock"
    OBVIOUS
  <2>2. PICK to : to = "w_dec"
    OBVIOUS
  <2>3. QED
    BY <1>1, <2>1, <2>2, TakeGuardInv DEF WaitLock, TakeGuard
<1>2. ASSUME TimeOutLock(t) PROVE Inv'
  <2>1. PICK from : from = "t_lock"
    OBVIOUS
  <2>2. PICK to : to = "t_unqueue"
    OBVIOUS
  <2>3. QED
    BY <1>2, <2>1, <2>2, TakeGuardInv DEF TimeOutLock, TakeGuard
<1>3. ASSUME WaitDec(t) PROVE Inv'
  <2>1. val \in Int
    BY DEF Inv, TypeInv
  <2>2. CASE val <= 0
    BY <1>3, <2>2, WaitDecWaits DEF WaitDec
  <2>3. CASE ~(val <= 0)
    <3>1. /\ pc[t] = "w_dec" /\ val' = val - 1 /\ ReturnTaken(t) /\ guard' = NoThread
          /\ UNCHANGED <<world, sq, left, toAwake, sched>>
      BY <1>3, <2>3 DEF WaitDec
    <3>2. val > 0
      BY <2>1, <2>3
    <3>3. QED
      BY <3>1, <3>2, WaitDecTakes
  <2>4. QED
    BY <2>2, <2>3
<1>4. ASSUME TimeOutUnqueue(t) PROVE Inv'
  <2>1. CASE Contains(sq, t)
    BY <1>4, <2>1, UnqueueInv DEF TimeOutUnqueue
  <2>2. CASE ~Contains(sq, t)
    BY <1>4, <2>2, TimedOutServedInv DEF TimeOutUnqueue
  <2>3. QED
    BY <2>1, <2>2
<1>5. QED
  BY <1>1, <1>2, <1>3, <1>4

(***************************************************************************)
(* post under the internal mutex.                                          *)
(***************************************************************************)
LEMMA PostOpInv ==
  ASSUME Inv, NEW t \in Threads, PostOp(t)
  PROVE  Inv'
<1>1. CASE amount[t] <= MaxVal - val
  BY <1>1, PostOpAddsInv DEF PostOp
<1>2. CASE ~(amount[t] <= MaxVal - val)
  BY <1>2, PostOpBusyInv DEF PostOp
<1>3. QED
  BY <1>1, <1>2

(***************************************************************************)
(* trywait takes a permit.                                                 *)
(***************************************************************************)
LEMMA TryWaitInv ==
  ASSUME Inv, NEW t \in Threads, TryWait(t)
  PROVE  Inv'
<1>1. /\ TypeInv /\ val \in Int /\ credit \in Int /\ val <= MaxVal
  BY DEF Inv, TypeInv
<1>2. /\ pc[t] = "idle" /\ toSleep = {} /\ val > 0 /\ val' = val - 1 /\ credit' = credit - 1
      /\ UNCHANGED <<pc, timed, seen, amount, world, sq, guard, left, toAwake, sched>>
  BY DEF TryWait, Running, MayStep, local
<1>3. /\ pc'[t] = "idle" /\ Others(t) /\ LocalTypes'
  BY <1>1, <1>2 DEF Others, LocalTypes, TypeInv, ObjTypeOK
<1>4. timed'[t] => "timeout" \in faults
  BY <1>2 DEF Inv, FaultInv
<1>5. val >= 0 /\ val' \in Nat /\ val' <= MaxVal /\ credit' = credit + (val' - val)
  BY <1>1, <1>2, SemaAssumption
<1>6. QED
  BY <1>2, <1>3, <1>4, <1>5, FastInv

(***************************************************************************)
(* Every step of a thread in a call keeps the invariant.                   *)
(***************************************************************************)
LEMMA StepInv ==
  ASSUME Inv, OneFault, NEW t \in Threads, Step(t)
  PROVE  Inv'
<1>1. timed[t] \in BOOLEAN /\ (timed[t] => "timeout" \in faults) /\ amount[t] \in 0..MaxPost
  BY DEF Inv, TypeInv, ObjTypeOK, FaultInv
<1>2. ASSUME Wait(t, "w_redo", timed[t]) PROVE Inv'
  <2>1. PICK from : from = "w_redo"
    OBVIOUS
  <2>2. QED
    BY <1>1, <1>2, <2>1, WaitInv
<1>3. ASSUME Post(t, "p_redo", amount[t]) PROVE Inv'
  <2>1. PICK from : from = "p_redo"
    OBVIOUS
  <2>2. QED
    BY <1>1, <1>3, <2>1, PostInv
<1>4. QED
  BY <1>2, <1>3, WaitCasInv, GuardedWaitInv, WaitSleepInv, WaitQueueInv, TakeSignalInv,
     WaitStoppedInv, TimeOutCheckInv, TimeOutUndoInv, PostCasInv, PostLockInv, PostOpInv,
     PostScheduleInv, PostAwakeInv, RedoEsrchInv DEF Step

(***************************************************************************)
(* Every new call keeps the invariant.                                     *)
(***************************************************************************)
LEMMA CallInv ==
  ASSUME Inv, NEW t \in Threads, Call(t)
  PROVE  Inv'
<1>1. ASSUME NEW to \in Timeouts, Wait(t, "idle", to) PROVE Inv'
  <2>1. PICK from : from = "idle"
    OBVIOUS
  <2>2. to \in BOOLEAN /\ (to => "timeout" \in faults)
    BY DEF Timeouts
  <2>3. QED
    BY <1>1, <2>1, <2>2, WaitInv
<1>2. ASSUME NEW n \in 1..MaxPost, Post(t, "idle", n) PROVE Inv'
  <2>1. PICK from : from = "idle"
    OBVIOUS
  <2>2. n \in 0..MaxPost
    BY SemaAssumption
  <2>3. QED
    BY <1>2, <2>1, <2>2, PostInv
<1>3. QED
  BY <1>1, <1>2, TryWaitInv, DestroyInv DEF Call

(***************************************************************************)
(* Every step keeps the invariant.                                         *)
(***************************************************************************)
LEMMA NextInv ==
  ASSUME Inv, OneFault, [Next]_vars
  PROVE  Inv'
<1>1. CASE Next
  BY <1>1, CallInv, StepInv, TimeOutInv, ScheduleInv, StopThreadInv, SaveAndLoadInv DEF Next
<1>2. CASE UNCHANGED vars
  <2>1. Waiters' = Waiters
    BY <1>2 DEF vars, objVars, Waiters
  <2>2. PermitsConserved'
    BY <1>2, <2>1 DEF vars, Inv, PermitsConserved
  <2>3. TypeInv' /\ FaultInv' /\ GuardInv' /\ ListInv' /\ ValueInv' /\ ExistsInv' /\ LoadInv'
    BY <1>2 DEF vars, objVars, Inv, TypeInv, ObjTypeOK, FaultInv, GuardInv, ListInv, ValueInv,
       ExistsInv, LoadInv
  <2>4. \A t \in Threads : ThreadInv(t)' /\ SchedInv(t)'
    BY <1>2 DEF vars, objVars, Inv, ThreadInv, SchedInv
  <2>5. QED
    BY <2>2, <2>3, <2>4 DEF Inv
<1>3. QED
  BY <1>1, <1>2

(***************************************************************************)
(* The initial states satisfy the invariant.                               *)
(***************************************************************************)
LEMMA InitInv ==
  ASSUME Init
  PROVE  Inv
<1>1. /\ \A t \in Threads : pc[t] = "idle" /\ ~timed[t] /\ sched[t] = "on"
      /\ guard = NoThread /\ sq = <<>> /\ left = 0 /\ toAwake = {} /\ exists
      /\ stopped = {} /\ toSleep = {} /\ val \in 0..MaxVal /\ credit = val
  BY DEF Init, ObjInit
<1>2. TypeInv
  <2>1. val \in Int /\ val <= MaxVal /\ credit \in Int /\ left \in Nat /\ sq \in Seq(Threads)
    BY <1>1, SemaAssumption
  <2>2. ObjTypeOK(PCs)
    BY SavesAssumption DEF Init, ObjInit, ObjTypeOK, PCs, SchedStates
  <2>3. seen \in [Threads -> 0..MaxVal] /\ amount \in [Threads -> 0..MaxPost]
    BY SemaAssumption DEF Init
  <2>4. QED
    BY <1>1, <2>1, <2>2, <2>3 DEF TypeInv
<1>3. Len(sq) = 0 /\ Distinct(sq) /\ (\A t \in Threads : ~Contains(sq, t)) /\ Max2(-val, 0) = 0
  BY <1>1, NoneCounted, SemaAssumption DEF Distinct, Contains
<1>4. PermitsConserved
  <2>1. Waiters = {}
    BY <1>1 DEF Waiters
  <2>2. QED
    BY <1>1, <1>2, <2>1, FS_EmptySet DEF PermitsConserved, TypeInv
<1>5. FaultInv /\ GuardInv /\ ExistsInv /\ LoadInv
  BY <1>1, ThreadsAssumption DEF FaultInv, GuardInv, ExistsInv, LoadInv, SaveLabels, TimeoutLabels,
     Inside, UnderIdm
<1>6. ListInv /\ ValueInv
  BY <1>1, <1>3 DEF ListInv, ValueInv
<1>7. \A t \in Threads : ThreadInv(t) /\ SchedInv(t)
  BY <1>1 DEF ThreadInv, SchedInv
<1>8. QED
  BY <1>2, <1>4, <1>5, <1>6, <1>7 DEF Inv

-----------------------------------------------------------------------------
(* What the invariant implies *)

(***************************************************************************)
(* val counts no more waiters than there are: those in the queue, and one  *)
(* that is about to enter it or has just left it.                          *)
(***************************************************************************)
LEMMA EnoughWaiters ==
  ASSUME Inv
  PROVE  -val <= Cardinality(Waiters)
<1> DEFINE Q == {u \in Threads : Contains(sq, u)}
<1>1. val \in Int /\ sq \in Seq(Threads) /\ Distinct(sq) /\ left \in Nat /\ Len(sq) \in Nat
  BY DEF Inv, TypeInv, ListInv
<1>2. IsFiniteSet(Q) /\ Cardinality(Q) = Len(sq)
  BY <1>1, DistinctLen
<1>3. Q \in SUBSET Waiters
  BY DEF Inv, ListInv, InCall, Waiters
<1> HIDE DEF Q
<1>4. Cardinality(Waiters) \in Nat /\ IsFiniteSet(Waiters) /\ Len(sq) <= Cardinality(Waiters)
  BY <1>2, <1>3, WaitersFinite, FS_Subset
<1>5. ASSUME NEW t \in Threads, pc[t] \in {"w_sleep", "w_queue", "t_undo"}
      PROVE  -val <= Cardinality(Waiters)
  <2>1. t \notin Q /\ t \in Waiters
    BY <1>5 DEF Q, Inv, ListInv, InCall, Waiters
  <2>2. Cardinality(Q \union {t}) = Len(sq) + 1
    BY <1>2, <2>1, FS_AddElement
  <2>3. Q \union {t} \in SUBSET Waiters
    BY <1>3, <2>1
  <2>4. Len(sq) + 1 <= Cardinality(Waiters)
    BY <1>4, <2>2, <2>3, FS_Subset
  <2>5. Len(sq) = -val - 1
    BY <1>5 DEF Inv, ValueInv
  <2>6. QED
    BY <1>1, <1>4, <2>4, <2>5
<1>6. ASSUME \A t \in Threads : pc[t] \notin {"w_sleep", "w_queue", "t_undo"}
      PROVE  -val <= Cardinality(Waiters)
  <2>1. \/ guard = NoThread
        \/ \E t \in Threads : pc[t] \in {"w_dec", "t_unqueue", "p_op", "p_wake"}
    BY <1>6 DEF Inv, GuardInv, Inside, TypeInv, ObjTypeOK
  <2>2. Len(sq) = Max2(-val, 0) \/ Len(sq) - left = Max2(-val, 0)
    BY <2>1 DEF Inv, ValueInv
  <2>3. -val <= Len(sq)
    BY <1>1, <2>2 DEF Max2
  <2>4. QED
    BY <1>1, <1>4, <2>3
<1>7. QED
  BY <1>5, <1>6

(***************************************************************************)
(* The bounds on val, on the waiters that post takes out, and on credit.   *)
(***************************************************************************)
LEMMA InvType ==
  ASSUME Inv
  PROVE  TypeOK
<1>1. /\ TypeInv /\ val \in Int /\ credit \in Int /\ left \in Nat /\ Len(sq) \in Nat
      /\ val <= MaxVal /\ credit = val + Cardinality(Waiters) /\ sq \in Seq(Threads) /\ Distinct(sq)
  BY DEF Inv, TypeInv, PermitsConserved, ListInv
<1>2. /\ Cardinality(Waiters) \in Nat /\ Cardinality(Threads) \in Nat
      /\ Cardinality(Waiters) <= Cardinality(Threads) /\ -val <= Cardinality(Waiters)
  BY WaitersFinite, EnoughWaiters
<1>3. /\ val \in -Cardinality(Threads)..MaxVal
      /\ credit \in 0..MaxVal + Cardinality(Threads)
  BY <1>1, <1>2, SemaAssumption
<1>4. Len(sq) <= Cardinality(Threads)
  <2>1. {u \in Threads : Contains(sq, u)} \in SUBSET Threads
    OBVIOUS
  <2>2. Cardinality({u \in Threads : Contains(sq, u)}) <= Cardinality(Threads)
    BY <2>1, ThreadsAssumption, FS_Subset
  <2>3. QED
    BY <1>1, <2>2, DistinctLen
<1>5. left \in 0..Cardinality(Threads)
  <2>1. CASE \E t \in Threads : pc[t] = "p_wake"
    <3>1. Len(sq) - left = Max2(-val, 0)
      BY <2>1 DEF Inv, ValueInv
    <3>2. left <= Len(sq)
      BY <1>1, <3>1 DEF Max2
    <3>3. QED
      BY <1>1, <1>2, <1>4, <3>2
  <2>2. CASE \A t \in Threads : pc[t] # "p_wake"
    <3>1. left = 0
      BY <2>2 DEF Inv, GuardInv
    <3>2. QED
      BY <1>2, <3>1
  <2>3. QED
    BY <2>1, <2>2
<1>6. QED
  BY <1>1, <1>3, <1>5 DEF TypeInv, TypeOK

(***************************************************************************)
(* The two ensures of the code.                                            *)
(***************************************************************************)
LEMMA InvEnsures ==
  ASSUME Inv
  PROVE  QueueIsCounted /\ EnsuresHold
<1>1. val \in Int /\ left \in Nat /\ sq \in Seq(Threads) /\ Len(sq) \in Nat
  BY DEF Inv, TypeInv
<1>2. QueueIsCounted
  BY DEF Inv, ValueInv, QueueIsCounted
<1>3. ASSUME NEW t \in Threads, pc[t] = "p_wake", left > 0 PROVE sq # <<>>
  <2>1. Len(sq) - left = Max2(-val, 0)
    BY <1>3 DEF Inv, ValueInv
  <2>2. Len(sq) > 0
    BY <1>1, <1>3, <2>1 DEF Max2
  <2>3. QED
    BY <2>2
<1>4. \A t \in Threads : pc[t] = "t_undo" => val < 0
  BY DEF Inv, ValueInv
<1>5. QED
  BY <1>2, <1>3, <1>4 DEF EnsuresHold

(***************************************************************************)
(* Who is awakened, and when.                                              *)
(***************************************************************************)
LEMMA InvWakeups ==
  ASSUME Inv
  PROVE  ServedIsSeen /\ AwakeIsOnTime /\ DestroyedIsEmpty /\ RedoSleeps
<1>1. ServedIsSeen
  BY DEF Inv, SchedInv, ServedIsSeen
<1>2. AwakeIsOnTime
  BY DEF Inv, ThreadInv, AwakeIsOnTime, TypeInv
<1>3. DestroyedIsEmpty
  <2>1. SUFFICES ASSUME ~exists, guard = NoThread PROVE sq = <<>>
    BY DEF DestroyedIsEmpty
  <2>2. val \in Int /\ val >= 0 /\ Len(sq) = Max2(-val, 0) /\ sq \in Seq(Threads)
    BY <2>1 DEF Inv, ExistsInv, ValueInv, TypeInv
  <2>3. Len(sq) = 0
    BY <2>2, NoneCounted
  <2>4. QED
    BY <2>2, <2>3
<1>4. RedoSleeps
  BY DEF Inv, LoadInv, RedoSleeps, TypeInv, ObjTypeOK
<1>5. QED
  BY <1>1, <1>2, <1>3, <1>4

-----------------------------------------------------------------------------
(* The theorems *)

(***************************************************************************)
(* The invariant of sys_semaphore holds in every reachable state.          *)
(***************************************************************************)
THEOREM Invariance ==
  ASSUME OneFault
  PROVE  Spec => []Inv
<1>1. Init => Inv
  BY InitInv
<1>2. Inv /\ [Next]_vars => Inv'
  BY NextInv
<1>3. QED
  BY <1>1, <1>2, PTL DEF Spec

(***************************************************************************)
(* val is between minus the number of threads and max, and no count        *)
(* exceeds its bound: the int of the code cannot overflow.                 *)
(***************************************************************************)
THEOREM CountsAreBounded ==
  ASSUME OneFault
  PROVE  Spec => []TypeOK
<1>1. Inv => TypeOK
  BY InvType
<1>2. QED
  BY <1>1, Invariance, PTL

(***************************************************************************)
(* No permit is lost or made up by the fast and slow paths of              *)
(* sys_semaphore_wait and sys_semaphore_post, timeouts, stops and          *)
(* savestates.                                                             *)
(***************************************************************************)
THEOREM PermitsAreConserved ==
  ASSUME OneFault
  PROVE  Spec => []PermitsConserved
<1>1. Inv => PermitsConserved
  BY DEF Inv
<1>2. QED
  BY <1>1, Invariance, PTL

(***************************************************************************)
(* While no thread is inside the internal mutex a negative val is the      *)
(* length of the queue: nobody waits while a permit is available.          *)
(***************************************************************************)
THEOREM ValCountsTheQueue ==
  ASSUME OneFault
  PROVE  Spec => []QueueIsCounted
<1>1. Inv => QueueIsCounted
  BY InvEnsures
<1>2. QED
  BY <1>1, Invariance, PTL

(***************************************************************************)
(* The ensure in the timeout path of wait and the ensure in post never     *)
(* fail.                                                                   *)
(***************************************************************************)
THEOREM EnsuresNeverFail ==
  ASSUME OneFault
  PROVE  Spec => []EnsuresHold
<1>1. Inv => EnsuresHold
  BY InvEnsures
<1>2. QED
  BY <1>1, Invariance, PTL

(***************************************************************************)
(* A waiter that was given a permit is awakened, or sees on its way out    *)
(* that it was.                                                            *)
(***************************************************************************)
THEOREM NobodyMissesItsPermit ==
  ASSUME OneFault
  PROVE  Spec => []ServedIsSeen
<1>1. Inv => ServedIsSeen
  BY InvWakeups
<1>2. QED
  BY <1>1, Invariance, PTL

(***************************************************************************)
(* awake_all is called for threads that are still in the wait call that    *)
(* was served.                                                             *)
(***************************************************************************)
THEOREM WakeupsAreOnTime ==
  ASSUME OneFault
  PROVE  Spec => []AwakeIsOnTime
<1>1. Inv => AwakeIsOnTime
  BY InvWakeups
<1>2. QED
  BY <1>1, Invariance, PTL

(***************************************************************************)
(* sys_semaphore_destroy strands nobody, although it does not take the     *)
(* internal mutex.                                                         *)
(***************************************************************************)
THEOREM DestroyStrandsNobody ==
  ASSUME OneFault
  PROVE  Spec => []DestroyedIsEmpty
<1>1. Inv => DestroyedIsEmpty
  BY InvWakeups
<1>2. QED
  BY <1>1, Invariance, PTL

(***************************************************************************)
(* A wait that slept when the state was saved sleeps again after it was    *)
(* loaded.                                                                 *)
(***************************************************************************)
THEOREM LoadedWaitersSleepAgain ==
  ASSUME OneFault
  PROVE  Spec => []RedoSleeps
<1>1. Inv => RedoSleeps
  BY InvWakeups
<1>2. QED
  BY <1>1, Invariance, PTL

-----------------------------------------------------------------------------
(* The semaphore among the objects *)

\* The variables of all objects.
objectsVars == <<kind, vars, rwlockVars, flagVars, queueVars, timerVars>>

SemaphoreInv == kind = "semaphore" => Inv

(***************************************************************************)
(* Only the semaphore's own steps are taken in a behaviour about one.      *)
(***************************************************************************)
LEMMA SemaphoreStep ==
  ASSUME OneFault, SemaphoreInv, [ObjectsNext]_objectsVars
  PROVE  SemaphoreInv'
<1>1. kind' = kind
  BY DEF ObjectsNext, objectsVars
<1>2. kind = "semaphore" => [Next]_vars
  BY DEF ObjectsNext, objectsVars
<1>3. QED
  BY <1>1, <1>2, NextInv DEF SemaphoreInv

(***************************************************************************)
(* The invariant of the semaphore holds in the composed specification.     *)
(***************************************************************************)
THEOREM SemaphoreAmongObjects ==
  ASSUME OneFault
  PROVE  ObjectsSpec => []SemaphoreInv
<1>1. ObjectsInit => SemaphoreInv
  BY InitInv DEF ObjectsInit, SemaphoreInv
<1>2. SemaphoreInv /\ [ObjectsNext]_objectsVars => SemaphoreInv'
  BY SemaphoreStep
<1>3. QED
  BY <1>1, <1>2, PTL DEF ObjectsSpec, objectsVars

(***************************************************************************)
(* sys_semaphore neither loses nor invents a permit, a negative val counts *)
(* the queue, and the ensures of wait and post hold, for any number of     *)
(* threads, any max and any number of savestates.                          *)
(***************************************************************************)
THEOREM SemaphoreCountsExactly ==
  ASSUME OneFault
  PROVE  ObjectsSpec => []SemaCountsExactly
<1>1. SemaphoreInv => SemaCountsExactly
  BY InvType, InvEnsures DEF SemaphoreInv, SemaCountsExactly, Inv
<1>2. QED
  BY <1>1, SemaphoreAmongObjects, PTL
-----------------------------------------------------------------------------
(* The reader-writer lock: its invariant *)

RwWord == [writer : Threads \union {NoThread}, readers : Nat, waiters : BOOLEAN]

\* The labels of a reader and of a writer that has queued.
RwRead == {"r_wait", "rt_check", "rt_test", "rt_over", "rt_lock"}
RwWrite == {"w_wait", "wt_check", "wt_lock"}

\* The labels of a call that a savestate interrupts, and of a timeout.
RwSaveLabels == {"a_r", "a_w", "a_ru", "a_wu", "r_redo", "w_redo", "ru_redo", "wu_redo"}
RwTimeLabels == {"rt_check", "rt_test", "rt_over", "rt_lock", "wt_check", "wt_lock"}

\* Threads that have been let in and have not left yet.
RwReader(t) == \/ held[t] = "read" \/ pc[t] \in {"ru_lock", "a_ru", "ru_redo"}
               \/ pc[t] \in RwRead /\ ~Contains(rq, t)
RwWriter(t) == \/ held[t] = "write" \/ pc[t] \in {"wu_lock", "a_wu", "wu_redo"}
               \/ pc[t] \in RwWrite /\ ~Contains(wq, t)
RwReaders == {t \in Threads : RwReader(t)}

\* Threads that are queued, or were when the loaded state was saved.
RwWantsR(t) == Contains(rq, t) \/ (t \in toSleep /\ pc[t] \in {"r_redo", "r_lock"})
RwWantsW(t) == Contains(wq, t) \/ (t \in toSleep /\ pc[t] \in {"w_redo", "w_lock"})

RwLocals ==
  /\ pc \in [Threads -> Rwlock!PCs] /\ timed \in [Threads -> BOOLEAN]
  /\ held \in [Threads -> {"none", "read", "write"}]

RwTypes ==
  /\ ObjTypeOK(Rwlock!PCs) /\ RwLocals
  /\ owner \in RwWord
  /\ rq \in Seq(Threads) /\ wq \in Seq(Threads)
  /\ toAwake \subseteq Threads

RwFaultInv ==
  /\ stopped # {} \/ toSleep # {} => "save" \in faults
  /\ stopped # {} => saves < MaxSaves
  /\ \A t \in Threads :
       /\ pc[t] \in RwSaveLabels => "save" \in faults
       /\ timed[t] \/ pc[t] \in RwTimeLabels => "timeout" \in faults

RwGuardInv ==
  /\ \A t \in Threads : (guard = t <=> pc[t] = "wake") /\ pc[t] # "wt_spin"
  /\ guard = NoThread => toAwake = {}

RwListInv ==
  /\ Distinct(rq) /\ Distinct(wq)
  /\ \A t \in Threads :
       /\ Contains(rq, t) => pc[t] \in (RwRead \ {"rt_over"}) \union {"a_r"} /\ t \notin toAwake
       /\ Contains(wq, t) => pc[t] \in RwWrite \union {"a_w"} /\ t \notin toAwake
       /\ pc[t] = "a_r" => Contains(rq, t)
       /\ pc[t] = "a_w" => Contains(wq, t)

\* The word holds the writer and the number of readers; its bit is set while
\* anybody waits, and under readers only while a writer waits.
RwWordInv ==
  /\ \A t \in Threads : owner.writer = t <=> RwWriter(t)
  /\ owner.writer # NoThread => owner.readers = 0
  /\ \A t \in Threads : RwWantsR(t) \/ RwWantsW(t) => owner.waiters
  /\ owner.waiters /\ owner.writer = NoThread =>
       owner.readers > 0 /\ \E t \in Threads : RwWantsW(t)
  /\ ~exists => owner = Rwlock!Free /\ \A t \in Threads : pc[t] \notin {"r_lock", "w_lock"}

RwCountInv == owner.readers = Cardinality(RwReaders)

RwThreadInv(t) ==
  /\ pc[t] # "idle" => held[t] = "none"
  /\ sched[t] = "asleep" => pc[t] \in {"r_wait", "w_wait", "rt_check", "wt_check", "a_r", "a_w"}
  /\ pc[t] \in {"a_r", "a_w"} => sched[t] = "asleep"
  /\ pc[t] \in {"r_wait", "w_wait"} =>
       IF Contains(rq, t) \/ Contains(wq, t) \/ t \in toAwake THEN sched[t] = "asleep"
       ELSE sched[t] \in {"ready", "signal"}
  /\ t \in toAwake => pc[t] \in RwRead \union RwWrite
  /\ pc[t] \in {"r_redo", "w_redo"} => t \in toSleep

\* While loaded sleepers have not slept again only they make steps.
RwLoadInv ==
  toSleep # {} => \A t \in Threads :
    /\ pc[t] \in {"idle", "r_redo", "r_lock", "r_wait", "a_r", "w_redo", "w_lock", "w_wait",
                  "a_w", "ru_redo", "wu_redo"}
    /\ t \in toSleep => pc[t] \in {"r_redo", "r_lock", "w_redo", "w_lock"}
    /\ pc[t] \in {"r_lock", "w_lock"} => t \in toSleep

RwInv ==
  /\ RwTypes /\ RwFaultInv /\ RwGuardInv /\ RwListInv /\ RwWordInv /\ RwCountInv /\ RwLoadInv
  /\ \A t \in Threads : RwThreadInv(t)

-----------------------------------------------------------------------------
(* What a thread changes in a step *)

(***************************************************************************)
(* The module of the lock counts and looks into its queues as this one.    *)
(***************************************************************************)
LEMMA RwSame ==
  ASSUME NEW S, NEW q, NEW x
  PROVE  /\ Rwlock!Cardinality(S) = Cardinality(S)
         /\ Rwlock!Contains(q, x) <=> Contains(q, x)
         /\ Rwlock!Range(q) = Range(q)
<1>1. Rwlock!Cardinality(S) = Cardinality(S)
  BY DEF Rwlock!Cardinality, Cardinality
<1>2. Rwlock!Contains(q, x) <=> Contains(q, x)
  BY DEF Rwlock!Contains, Contains
<1>3. Rwlock!Range(q) = Range(q)
  BY DEF Rwlock!Range, Range
<1>4. QED
  BY <1>1, <1>2, <1>3

(***************************************************************************)
(* Unlinking from a queue that holds no thread twice.                      *)
(***************************************************************************)
LEMMA RwWithout ==
  ASSUME NEW q, NEW x
  PROVE  Rwlock!Without(q, x) = RemoveFirst(q, x)
BY DEF Rwlock!Without, Rwlock!RemoveFirst, Rwlock!RemoveAt, Rwlock!SelectInSeq, Rwlock!Min,
       RemoveFirst, RemoveAt, SelectInSeq, Min

\* The other threads keep their local variables.
RwOthers(t) ==
  \A u \in Threads \ {t} : pc'[u] = pc[u] /\ timed'[u] = timed[u] /\ held'[u] = held[u]

(***************************************************************************)
(* A thread goes to a label with h held.                                   *)
(***************************************************************************)
LEMMA RwEnterIs ==
  ASSUME RwTypes, NEW t \in Threads, NEW l \in Rwlock!PCs, NEW to \in BOOLEAN,
         NEW h \in {"none", "read", "write"}, Rwlock!Enter(t, l, to),
         held' = [held EXCEPT ![t] = h]
  PROVE  pc'[t] = l /\ timed'[t] = to /\ held'[t] = h /\ RwOthers(t) /\ RwLocals'
BY DEF Rwlock!Enter, RwTypes, RwLocals, RwOthers

(***************************************************************************)
(* A thread goes to a label and holds what it held.                        *)
(***************************************************************************)
LEMMA RwGotoIs ==
  ASSUME RwTypes, NEW t \in Threads, NEW l \in Rwlock!PCs, NEW to \in BOOLEAN,
         Rwlock!Enter(t, l, to), held' = held
  PROVE  pc'[t] = l /\ timed'[t] = to /\ held'[t] = held[t] /\ RwOthers(t) /\ RwLocals'
BY DEF Rwlock!Enter, RwTypes, RwLocals, RwOthers

\* The locks of the word and the bit of owner' are those that t leaves behind
\* when it goes to l with h held: nobody else is affected.
RwWordStep(t) ==
  /\ owner' \in RwWord
  /\ owner'.writer = t <=> RwWriter(t)'
  /\ \A u \in Threads \ {t} : owner'.writer = u <=> owner.writer = u
  /\ owner'.readers = owner.readers + Ind(RwReader(t)') - Ind(RwReader(t))
  /\ owner'.writer # NoThread => owner'.readers = 0
  /\ ~exists => owner' = owner
  /\ \/ /\ owner'.waiters = owner.waiters
        /\ owner'.waiters /\ owner'.writer = NoThread => owner'.readers > 0 /\ owner.writer = NoThread
     \/ /\ toSleep = {} /\ rq = <<>> /\ wq = <<>> /\ ~owner'.waiters

(***************************************************************************)
(* The number of readers changes as one thread does.                       *)
(***************************************************************************)
LEMMA RwCountStep ==
  ASSUME RwCountInv, NEW t \in Threads, \A u \in Threads \ {t} : RwReader(u)' <=> RwReader(u),
         owner'.readers = owner.readers + Ind(RwReader(t)') - Ind(RwReader(t))
  PROVE  RwCountInv'
<1> DEFINE A == RwReaders
           B == RwReaders'
<1>1. A \in SUBSET Threads /\ B \in SUBSET Threads
  BY DEF RwReaders
<1>2. \A u \in Threads : (u \in A <=> RwReader(u)) /\ (u \in B <=> RwReader(u)')
  BY DEF RwReaders
<1>3. Ind(t \in A) = Ind(RwReader(t)) /\ Ind(t \in B) = Ind(RwReader(t)')
  BY <1>2 DEF Ind
<1>4. \A u \in Threads : u # t => (u \in A <=> u \in B)
  BY <1>2
<1> HIDE DEF A, B
<1>5. Cardinality(B) = Cardinality(A) + Ind(t \in B) - Ind(t \in A)
  BY <1>1, <1>4, ThreadsAssumption, CardOne
<1>6. QED
  BY <1>3, <1>5 DEF RwCountInv, A, B

(***************************************************************************)
(* No reader is counted when there is none, and one when there is one.     *)
(***************************************************************************)
LEMMA RwReaderCounts ==
  ASSUME RwInv, NEW t \in Threads, RwReader(t)
  PROVE  owner.readers > 0 /\ owner.writer = NoThread
<1>1. RwReaders \in SUBSET Threads /\ t \in RwReaders
  BY DEF RwReaders
<1>2. IsFiniteSet(RwReaders)
  BY <1>1, ThreadsAssumption, FS_Subset
<1>3. Cardinality(RwReaders) \in Nat /\ Cardinality(RwReaders) # 0
  BY <1>1, <1>2, FS_CardinalityType, FS_EmptySet
<1>4. QED
  BY <1>3 DEF RwInv, RwCountInv, RwWordInv

(***************************************************************************)
(* A thread goes on that does not queue, and the word and the scheduler's  *)
(* view of the thread change with it.                                      *)
(***************************************************************************)
LEMMA RwStepInv ==
  ASSUME RwInv, NEW t \in Threads, NEW l \in Rwlock!PCs, pc'[t] = l, RwOthers(t), RwLocals',
         RwWordStep(t),
         UNCHANGED <<world, guard, rq, wq, toAwake>>,
         sched' \in [Threads -> SchedStates], \A u \in Threads \ {t} : sched'[u] = sched[u],
         pc[t] # "wake",
         l \notin {"wake", "wt_spin", "r_wait", "w_wait", "r_redo", "w_redo"},
         l # "idle" => held'[t] = "none",
         Contains(rq, t) => l \in (RwRead \ {"rt_over"}) \union {"a_r"},
         Contains(wq, t) => l \in RwWrite \union {"a_w"},
         l = "a_r" => Contains(rq, t),
         l = "a_w" => Contains(wq, t),
         l \in {"a_r", "a_w"} => sched'[t] = "asleep",
         sched'[t] = "asleep" => l \in {"rt_check", "wt_check", "a_r", "a_w"},
         t \in toAwake => l \in RwRead \union RwWrite,
         l \in {"r_lock", "w_lock"} => exists,
         l \in RwSaveLabels => "save" \in faults,
         timed'[t] \/ l \in RwTimeLabels => "timeout" \in faults,
         toSleep # {} =>
           \/ t \in toSleep /\ pc[t] = "r_redo" /\ l = "r_lock"
           \/ t \in toSleep /\ pc[t] = "w_redo" /\ l = "w_lock"
           \/ t \notin toSleep /\ l \in {"a_r", "a_w", "idle"}
  PROVE  RwInv'
<1> USE ThreadsAssumption
<1>1. RwTypes
  BY DEF RwInv
<1>T. RwTypes'
  BY <1>1 DEF RwTypes, RwLocals, ObjTypeOK, world, RwWordStep
<1>F. RwFaultInv'
  BY DEF RwInv, RwFaultInv, RwSaveLabels, RwTimeLabels, RwOthers, world
<1>G. RwGuardInv'
  BY <1>1 DEF RwInv, RwGuardInv, RwOthers, RwTypes, ObjTypeOK
<1>L. RwListInv'
  BY DEF RwInv, RwListInv, RwOthers, Distinct
<1>R. \A u \in Threads \ {t} : (RwReader(u)' <=> RwReader(u)) /\ (RwWriter(u)' <=> RwWriter(u))
  BY DEF RwReader, RwWriter, RwOthers
<1>C. RwCountInv'
  BY <1>R, RwCountStep DEF RwInv, RwWordStep
<1>Q. \A u \in Threads : (RwWantsR(u)' <=> RwWantsR(u)) /\ (RwWantsW(u)' <=> RwWantsW(u))
  BY DEF RwWantsR, RwWantsW, RwOthers, world, RwInv, RwLoadInv
<1>W. RwWordInv'
  <2>1. \A u \in Threads : owner'.writer = u <=> RwWriter(u)'
    BY <1>R DEF RwWordStep, RwInv, RwWordInv
  <2>2. toSleep = {} /\ rq = <<>> /\ wq = <<>> =>
          \A u \in Threads : ~RwWantsR(u) /\ ~RwWantsW(u)
    BY DEF RwWantsR, RwWantsW, Contains
  <2>3. \A u \in Threads : RwWantsR(u)' \/ RwWantsW(u)' => owner'.waiters
    BY <1>Q, <2>2 DEF RwWordStep, RwInv, RwWordInv
  <2>4. owner'.waiters /\ owner'.writer = NoThread =>
          owner'.readers > 0 /\ \E u \in Threads : RwWantsW(u)'
    BY <1>Q DEF RwWordStep, RwInv, RwWordInv
  <2>5. ~exists' => owner' = Rwlock!Free /\ \A u \in Threads : pc'[u] \notin {"r_lock", "w_lock"}
    BY DEF RwWordStep, RwInv, RwWordInv, RwOthers, world
  <2>6. QED
    BY <2>1, <2>3, <2>4, <2>5 DEF RwWordStep, RwWordInv, Rwlock!Free
<1>H. ASSUME NEW u \in Threads PROVE RwThreadInv(u)'
  <2>1. CASE u = t
    BY <2>1 DEF RwInv, RwThreadInv, RwOthers
  <2>2. CASE u # t
    BY <1>H, <2>2 DEF RwInv, RwThreadInv, RwOthers, world
  <2>3. QED
    BY <2>1, <2>2
<1>D. RwLoadInv'
  BY DEF RwInv, RwLoadInv, RwOthers, world
<1> QED
  BY <1>T, <1>F, <1>G, <1>L, <1>C, <1>W, <1>H, <1>D DEF RwInv

(***************************************************************************)
(* A thread goes on, and the scheduler has no part in it.                  *)
(***************************************************************************)
LEMMA RwMoveInv ==
  ASSUME RwInv, NEW t \in Threads, NEW l \in Rwlock!PCs, pc'[t] = l, RwOthers(t), RwLocals',
         RwWordStep(t),
         UNCHANGED <<world, guard, sched, rq, wq, toAwake>>,
         pc[t] # "wake",
         l \notin {"wake", "wt_spin", "r_wait", "w_wait", "r_redo", "w_redo"},
         l # "idle" => held'[t] = "none",
         Contains(rq, t) => l \in (RwRead \ {"rt_over"}) \union {"a_r"},
         Contains(wq, t) => l \in RwWrite \union {"a_w"},
         l = "a_r" => Contains(rq, t),
         l = "a_w" => Contains(wq, t),
         l \in {"a_r", "a_w"} => sched[t] = "asleep",
         sched[t] = "asleep" => l \in {"rt_check", "wt_check", "a_r", "a_w"},
         t \in toAwake => l \in RwRead \union RwWrite,
         l \in {"r_lock", "w_lock"} => exists,
         l \in RwSaveLabels => "save" \in faults,
         timed'[t] \/ l \in RwTimeLabels => "timeout" \in faults,
         toSleep # {} =>
           \/ t \in toSleep /\ pc[t] = "r_redo" /\ l = "r_lock"
           \/ t \in toSleep /\ pc[t] = "w_redo" /\ l = "w_lock"
           \/ t \notin toSleep /\ l \in {"a_r", "a_w", "idle"}
  PROVE  RwInv'
<1>1. sched' \in [Threads -> SchedStates] /\ \A u \in Threads \ {t} : sched'[u] = sched[u]
  BY DEF RwInv, RwTypes, ObjTypeOK
<1>2. QED
  BY <1>1, RwStepInv

(***************************************************************************)
(* The word stays as it is when the thread stays what it is to it.         *)
(***************************************************************************)
LEMMA RwSameWord ==
  ASSUME RwInv, NEW t \in Threads, owner' = owner,
         RwReader(t)' <=> RwReader(t), RwWriter(t)' <=> RwWriter(t)
  PROVE  RwWordStep(t)
<1>1. Ind(RwReader(t)') = Ind(RwReader(t)) /\ Ind(RwReader(t)) \in Int /\ owner.readers \in Nat
  BY DEF Ind, RwInv, RwTypes, RwWord
<1>2. owner'.readers = owner.readers + Ind(RwReader(t)') - Ind(RwReader(t))
  BY <1>1
<1>3. QED
  BY <1>2 DEF RwWordStep, RwInv, RwTypes, RwWordInv

(***************************************************************************)
(* A thread outside its wait loops, as the lock and the scheduler see it.  *)
(***************************************************************************)
LEMMA RwOutside ==
  ASSUME RwInv, NEW t \in Threads,
         pc[t] \in {"idle", "r_lock", "w_lock", "r_redo", "w_redo", "ru_redo", "wu_redo", "ru_lock",
                    "wu_lock"}
  PROVE  /\ ~Contains(rq, t) /\ ~Contains(wq, t) /\ t \notin toAwake
         /\ sched[t] # "asleep" /\ (pc[t] # "idle" => held[t] = "none")
         /\ RwReader(t) <=> held[t] = "read" \/ pc[t] \in {"ru_redo", "ru_lock"}
         /\ RwWriter(t) <=> held[t] = "write" \/ pc[t] \in {"wu_redo", "wu_lock"}
BY DEF RwInv, RwListInv, RwThreadInv, RwRead, RwWrite, RwReader, RwWriter

(***************************************************************************)
(* The types of what the steps read.                                       *)
(***************************************************************************)
LEMMA RwReads ==
  ASSUME RwInv, NEW t \in Threads
  PROVE  /\ RwTypes /\ timed[t] \in BOOLEAN /\ held[t] \in {"none", "read", "write"}
         /\ owner \in RwWord /\ owner.readers \in Nat
         /\ owner.writer \in Threads \union {NoThread} /\ owner.waiters \in BOOLEAN
         /\ owner = [writer |-> owner.writer, readers |-> owner.readers, waiters |-> owner.waiters]
BY DEF RwInv, RwTypes, RwLocals, RwWord

(***************************************************************************)
(* A thread enters as a reader.                                            *)
(***************************************************************************)
LEMMA RwEnterReader ==
  ASSUME RwInv, NEW t \in Threads, pc[t] \in {"idle", "r_redo", "r_lock"}, held[t] = "none",
         exists, toSleep = {}, Rwlock!ReadersMayEnter,
         owner' = [owner EXCEPT !.readers = @ + 1], Rwlock!Return(t, "read"),
         UNCHANGED <<world, guard, sched, rq, wq, toAwake>>
  PROVE  RwInv'
<1>l. PICK l \in Rwlock!PCs : l = "idle"
  BY DEF Rwlock!PCs
<1>1. pc'[t] = l /\ timed'[t] = FALSE /\ held'[t] = "read" /\ RwOthers(t) /\ RwLocals'
  BY <1>l, RwEnterIs, RwReads DEF Rwlock!Return
<1>2. owner'.readers = owner.readers + 1 /\ owner'.writer = owner.writer /\ owner'.waiters = owner.waiters
  BY RwReads
<1>3. RwReader(t)' /\ ~RwWriter(t)' /\ ~RwReader(t) /\ ~RwWriter(t)
  BY <1>1, <1>l, RwOutside DEF RwReader, RwWriter, RwWrite
<1>4. RwWordStep(t)
  <2>1. owner.writer = NoThread /\ ~owner.waiters
    BY DEF Rwlock!ReadersMayEnter
  <2>2. owner' \in RwWord
    BY RwReads DEF RwWord
  <2>3. owner'.readers = owner.readers + Ind(RwReader(t)') - Ind(RwReader(t))
    BY <1>2, <1>3, RwReads DEF Ind
  <2>4. QED
    BY <1>2, <1>3, <2>1, <2>2, <2>3, ThreadsAssumption DEF RwWordStep
<1>5. QED
  BY <1>l, <1>1, <1>4, RwOutside, RwMoveInv DEF RwSaveLabels, RwTimeLabels

(***************************************************************************)
(* A thread enters as the writer.                                          *)
(***************************************************************************)
LEMMA RwEnterWriter ==
  ASSUME RwInv, NEW t \in Threads, pc[t] \in {"idle", "w_redo", "w_lock"}, held[t] = "none",
         exists, toSleep = {}, owner = Rwlock!Free,
         owner' = [Rwlock!Free EXCEPT !.writer = t], Rwlock!Return(t, "write"),
         UNCHANGED <<world, guard, sched, rq, wq, toAwake>>
  PROVE  RwInv'
<1>l. PICK l \in Rwlock!PCs : l = "idle"
  BY DEF Rwlock!PCs
<1>1. pc'[t] = l /\ timed'[t] = FALSE /\ held'[t] = "write" /\ RwOthers(t) /\ RwLocals'
  BY <1>l, RwEnterIs, RwReads DEF Rwlock!Return
<1>2. /\ owner'.readers = 0 /\ owner'.writer = t /\ owner'.waiters = FALSE
      /\ owner.readers = 0 /\ owner.writer = NoThread /\ owner.waiters = FALSE
  BY DEF Rwlock!Free
<1>3. ~RwReader(t)' /\ RwWriter(t)' /\ ~RwReader(t) /\ ~RwWriter(t)
  BY <1>1, <1>l, RwOutside DEF RwReader, RwWriter, RwRead
<1>4. RwWordStep(t)
  <2>2. owner' \in RwWord
    BY DEF RwWord, Rwlock!Free
  <2>3. owner'.readers = owner.readers + Ind(RwReader(t)') - Ind(RwReader(t))
    BY <1>2, <1>3 DEF Ind
  <2>4. QED
    BY <1>2, <1>3, <2>2, <2>3, ThreadsAssumption DEF RwWordStep
<1>5. QED
  BY <1>l, <1>1, <1>4, RwOutside, RwMoveInv DEF RwSaveLabels, RwTimeLabels

(***************************************************************************)
(* While a loaded state has sleepers, the lock is not free to enter.       *)
(***************************************************************************)
LEMMA RwLoadingIsBusy ==
  ASSUME RwInv, toSleep # {}
  PROVE  exists /\ owner.waiters /\ owner # Rwlock!Free /\ ~Rwlock!ReadersMayEnter
<1>1. PICK t \in Threads : t \in toSleep
  BY DEF RwInv, RwTypes, ObjTypeOK
<1>2. RwWantsR(t) \/ RwWantsW(t)
  BY <1>1 DEF RwWantsR, RwWantsW, RwInv, RwLoadInv
<1>3. owner.waiters
  BY <1>2 DEF RwInv, RwWordInv
<1>4. QED
  BY <1>3 DEF RwInv, RwWordInv, Rwlock!Free, Rwlock!ReadersMayEnter

(***************************************************************************)
(* rlock, made for the first time or again.                                *)
(***************************************************************************)
LEMMA RwRLockInv ==
  ASSUME RwInv, NEW t \in Threads, NEW from \in {"idle", "r_redo"}, NEW to \in BOOLEAN,
         to => "timeout" \in faults, Rwlock!RLock(t, from, to)
  PROVE  RwInv'
<1>1. /\ pc[t] = from /\ exists /\ held[t] = "none"
      /\ UNCHANGED <<world, guard, sched, rq, wq, toAwake>>
      /\ toSleep # {} => t \in toSleep /\ from = "r_redo"
  BY DEF Rwlock!RLock, Rwlock!Running, Rwlock!MayStep, Rwlock!world, world
<1>2. CASE Rwlock!ReadersMayEnter /\ owner' = [owner EXCEPT !.readers = @ + 1]
           /\ Rwlock!Return(t, "read")
  BY <1>1, <1>2, RwEnterReader, RwLoadingIsBusy
<1>3. CASE Rwlock!Enter(t, "r_lock", to) /\ UNCHANGED <<owner, held>>
  <2>l. PICK l \in Rwlock!PCs : l = "r_lock"
    BY DEF Rwlock!PCs
  <2>1. pc'[t] = l /\ timed'[t] = to /\ held'[t] = held[t] /\ RwOthers(t) /\ RwLocals'
    BY <1>3, <2>l, RwGotoIs, RwReads
  <2>2. (RwReader(t)' <=> RwReader(t)) /\ (RwWriter(t)' <=> RwWriter(t))
    BY <1>1, <2>l, <2>1, RwOutside DEF RwReader, RwWriter, RwRead, RwWrite
  <2>3. RwWordStep(t)
    BY <1>3, <2>2, RwSameWord
  <2>4. QED
    BY <1>1, <2>l, <2>1, <2>3, RwOutside, RwMoveInv DEF RwSaveLabels, RwTimeLabels
<1>4. QED
  BY <1>2, <1>3 DEF Rwlock!RLock

(***************************************************************************)
(* wlock, made for the first time or again.                                *)
(***************************************************************************)
LEMMA RwWLockInv ==
  ASSUME RwInv, NEW t \in Threads, NEW from \in {"idle", "w_redo"}, NEW to \in BOOLEAN,
         to => "timeout" \in faults, Rwlock!WLock(t, from, to)
  PROVE  RwInv'
<1>1. /\ pc[t] = from /\ exists /\ held[t] \in {"none", "write"}
      /\ UNCHANGED <<world, guard, sched, rq, wq, toAwake>>
      /\ toSleep # {} => t \in toSleep /\ from = "w_redo"
  BY RwReads DEF Rwlock!WLock, Rwlock!Running, Rwlock!MayStep, Rwlock!world, world
<1>w. owner.writer = t <=> held[t] = "write"
  BY <1>1, RwOutside DEF RwInv, RwWordInv
<1>2. CASE owner = Rwlock!Free /\ owner' = [Rwlock!Free EXCEPT !.writer = t]
           /\ Rwlock!Return(t, "write")
  <2>1. held[t] = "none"
    BY <1>1, <1>2, <1>w, ThreadsAssumption DEF Rwlock!Free
  <2>2. QED
    BY <1>1, <1>2, <2>1, RwEnterWriter, RwLoadingIsBusy
<1>3. CASE owner.writer = t /\ Rwlock!Return(t, held[t]) /\ UNCHANGED owner
  <2>l. PICK l \in Rwlock!PCs : l = "idle"
    BY DEF Rwlock!PCs
  <2>0. held[t] = "write" /\ from = "idle"
    BY <1>1, <1>3, <1>w, RwOutside
  <2>1. pc'[t] = l /\ timed'[t] = FALSE /\ held'[t] = held[t] /\ RwOthers(t) /\ RwLocals'
    BY <1>3, <2>l, RwEnterIs, RwReads DEF Rwlock!Return
  <2>2. (RwReader(t)' <=> RwReader(t)) /\ (RwWriter(t)' <=> RwWriter(t))
    BY <1>1, <2>0, <2>l, <2>1, RwOutside DEF RwReader, RwWriter, RwRead, RwWrite
  <2>3. RwWordStep(t)
    BY <1>3, <2>2, RwSameWord
  <2>4. QED
    BY <1>1, <2>0, <2>l, <2>1, <2>3, RwOutside, RwMoveInv DEF RwSaveLabels, RwTimeLabels
<1>4. CASE owner.writer # t /\ Rwlock!Enter(t, "w_lock", to) /\ UNCHANGED <<owner, held>>
  <2>l. PICK l \in Rwlock!PCs : l = "w_lock"
    BY DEF Rwlock!PCs
  <2>0. held[t] = "none"
    BY <1>1, <1>4, <1>w
  <2>1. pc'[t] = l /\ timed'[t] = to /\ held'[t] = held[t] /\ RwOthers(t) /\ RwLocals'
    BY <1>4, <2>l, RwGotoIs, RwReads
  <2>2. (RwReader(t)' <=> RwReader(t)) /\ (RwWriter(t)' <=> RwWriter(t))
    BY <1>1, <2>0, <2>l, <2>1, RwOutside DEF RwReader, RwWriter, RwRead, RwWrite
  <2>3. RwWordStep(t)
    BY <1>4, <2>2, RwSameWord
  <2>4. QED
    BY <1>1, <2>0, <2>l, <2>1, <2>3, RwOutside, RwMoveInv DEF RwSaveLabels, RwTimeLabels
<1>5. QED
  BY <1>2, <1>3, <1>4 DEF Rwlock!WLock

(***************************************************************************)
(* tryrlock and trywlock, if they succeed.                                 *)
(***************************************************************************)
LEMMA RwTryInv ==
  ASSUME RwInv, NEW t \in Threads, Rwlock!TryRLock(t) \/ Rwlock!TryWLock(t)
  PROVE  RwInv'
<1>1. CASE Rwlock!TryRLock(t)
  <2>1. /\ pc[t] = "idle" /\ exists /\ held[t] = "none" /\ toSleep = {}
        /\ UNCHANGED <<world, guard, sched, rq, wq, toAwake>>
        /\ Rwlock!ReadersMayEnter /\ owner' = [owner EXCEPT !.readers = @ + 1]
        /\ Rwlock!Return(t, "read")
    BY <1>1 DEF Rwlock!TryRLock, Rwlock!Running, Rwlock!MayStep, Rwlock!world, world
  <2>2. QED
    BY <2>1, RwEnterReader
<1>2. CASE Rwlock!TryWLock(t)
  <2>1. /\ pc[t] = "idle" /\ exists /\ held[t] = "none" /\ toSleep = {}
        /\ UNCHANGED <<world, guard, sched, rq, wq, toAwake>>
        /\ owner = Rwlock!Free /\ owner' = [Rwlock!Free EXCEPT !.writer = t]
        /\ Rwlock!Return(t, "write")
    BY <1>2 DEF Rwlock!TryWLock, Rwlock!Running, Rwlock!MayStep, Rwlock!world, world
  <2>2. QED
    BY <2>1, RwEnterWriter
<1>3. QED
  BY <1>1, <1>2

-----------------------------------------------------------------------------
(* The reader-writer lock: runlock and wunlock *)

(***************************************************************************)
(* A reader or the writer is in a lock that exists.                        *)
(***************************************************************************)
LEMMA RwHolderExists ==
  ASSUME RwInv, NEW t \in Threads, RwReader(t) \/ RwWriter(t)
  PROVE  exists /\ ~(RwReader(t) /\ RwWriter(t))
<1>1. CASE RwReader(t)
  BY <1>1, RwReaderCounts, ThreadsAssumption DEF RwInv, RwWordInv, Rwlock!Free
<1>2. CASE RwWriter(t)
  BY <1>2, RwReaderCounts, ThreadsAssumption DEF RwInv, RwWordInv, Rwlock!Free
<1>3. QED
  BY <1>1, <1>2

(***************************************************************************)
(* A reader leaves, and is not the last one that somebody waits for.       *)
(***************************************************************************)
LEMMA RwReaderLeaves ==
  ASSUME RwInv, NEW t \in Threads, pc[t] \in {"idle", "ru_lock"}, RwReader(t), toSleep = {},
         pc'[t] = "idle", held'[t] = "none", timed'[t] => "timeout" \in faults,
         RwOthers(t), RwLocals',
         owner.readers > 1 \/ ~owner.waiters, owner' = [owner EXCEPT !.readers = @ - 1],
         UNCHANGED <<world, guard, sched, rq, wq, toAwake>>
  PROVE  RwInv'
<1>l. PICK l \in Rwlock!PCs : l = "idle"
  BY DEF Rwlock!PCs
<1>2. owner'.readers = owner.readers - 1 /\ owner'.writer = owner.writer /\ owner'.waiters = owner.waiters
  BY RwReads
<1>3. ~RwReader(t)' /\ ~RwWriter(t)' /\ ~RwWriter(t) /\ exists
  BY RwHolderExists DEF RwReader, RwWriter, RwRead, RwWrite
<1>4. RwWordStep(t)
  <2>1. owner.writer = NoThread /\ owner.readers > 0
    BY RwReaderCounts
  <2>2. owner' \in RwWord
    BY <2>1, RwReads DEF RwWord
  <2>3. owner'.readers = owner.readers + Ind(RwReader(t)') - Ind(RwReader(t))
    BY <1>2, <1>3, RwReads DEF Ind
  <2>4. owner'.waiters => owner'.readers > 0
    BY <1>2, RwReads
  <2>5. QED
    BY <1>2, <1>3, <2>1, <2>2, <2>3, <2>4, ThreadsAssumption DEF RwWordStep
<1>5. QED
  BY <1>l, <1>3, <1>4, RwOutside, RwMoveInv DEF RwSaveLabels, RwTimeLabels

(***************************************************************************)
(* The writer leaves, and nobody waits.                                    *)
(***************************************************************************)
LEMMA RwWriterLeaves ==
  ASSUME RwInv, NEW t \in Threads, pc[t] \in {"idle", "wu_lock", "wu_redo"}, RwWriter(t), toSleep = {},
         pc'[t] = "idle", held'[t] = "none", timed'[t] => "timeout" \in faults,
         RwOthers(t), RwLocals',
         ~owner.waiters \/ (rq = <<>> /\ wq = <<>>), owner' = Rwlock!Free,
         UNCHANGED <<world, guard, sched, rq, wq, toAwake>>
  PROVE  RwInv'
<1>l. PICK l \in Rwlock!PCs : l = "idle"
  BY DEF Rwlock!PCs
<1>2. owner'.readers = 0 /\ owner'.writer = NoThread /\ owner'.waiters = FALSE
  BY DEF Rwlock!Free
<1>3. ~RwReader(t)' /\ ~RwWriter(t)' /\ ~RwReader(t) /\ exists
  BY RwHolderExists DEF RwReader, RwWriter, RwRead, RwWrite
<1>4. RwWordStep(t)
  <2>1. owner.writer = t /\ owner.readers = 0
    BY ThreadsAssumption DEF RwInv, RwWordInv
  <2>2. owner' \in RwWord
    BY DEF RwWord, Rwlock!Free
  <2>3. owner'.readers = owner.readers + Ind(RwReader(t)') - Ind(RwReader(t))
    BY <1>2, <1>3, <2>1 DEF Ind
  <2>4. owner.waiters \in BOOLEAN
    BY RwReads
  <2>5. QED
    BY <1>2, <1>3, <2>1, <2>2, <2>3, <2>4, ThreadsAssumption DEF RwWordStep
<1>5. QED
  BY <1>l, <1>3, <1>4, RwOutside, RwMoveInv DEF RwSaveLabels, RwTimeLabels

(***************************************************************************)
(* A thread that leaves goes to the slow path, or puts it off.             *)
(***************************************************************************)
LEMMA RwLeaverMoves ==
  ASSUME RwInv, NEW t \in Threads, toSleep = {}, NEW l,
         \/ pc[t] = "idle" /\ held[t] = "read" /\ l = "ru_lock"
         \/ pc[t] = "idle" /\ held[t] = "write" /\ l = "wu_lock"
         \/ pc[t] = "ru_redo" /\ l = "ru_lock"
         \/ pc[t] = "wu_redo" /\ l = "wu_lock"
         \/ pc[t] = "ru_lock" /\ l = "a_ru" /\ "save" \in faults
         \/ pc[t] = "wu_lock" /\ l = "a_wu" /\ "save" \in faults,
         pc'[t] = l, held'[t] = "none", timed'[t] = timed[t], RwOthers(t), RwLocals',
         UNCHANGED <<world, guard, sched, rq, wq, toAwake, owner>>
  PROVE  RwInv'
<1>l. l \in Rwlock!PCs
  BY DEF Rwlock!PCs
<1>1. (RwReader(t)' <=> RwReader(t)) /\ (RwWriter(t)' <=> RwWriter(t))
  BY RwOutside DEF RwReader, RwWriter, RwRead, RwWrite
<1>2. RwWordStep(t)
  BY <1>1, RwSameWord
<1>3. timed'[t] => "timeout" \in faults
  BY DEF RwInv, RwFaultInv
<1>4. QED
  BY <1>l, <1>2, <1>3, RwOutside, RwMoveInv DEF RwSaveLabels, RwTimeLabels

(***************************************************************************)
(* runlock outside the internal mutex.                                     *)
(***************************************************************************)
LEMMA RwRUnlockInv ==
  ASSUME RwInv, NEW t \in Threads, Rwlock!RUnlock(t)
  PROVE  RwInv'
<1>1. /\ pc[t] = "idle" /\ held[t] = "read" /\ toSleep = {}
      /\ UNCHANGED <<world, guard, sched, rq, wq, toAwake>>
  BY DEF Rwlock!RUnlock, Rwlock!Running, Rwlock!MayStep, Rwlock!world, world
<1>2. RwReader(t)
  BY <1>1 DEF RwReader
<1>3. CASE owner.readers > 0 /\ ~owner.waiters /\ owner' = [owner EXCEPT !.readers = @ - 1]
           /\ Rwlock!Return(t, "none")
  <2>l. PICK l \in Rwlock!PCs : l = "idle"
    BY DEF Rwlock!PCs
  <2>1. pc'[t] = l /\ timed'[t] = FALSE /\ held'[t] = "none" /\ RwOthers(t) /\ RwLocals'
    BY <1>3, <2>l, RwEnterIs, RwReads DEF Rwlock!Return
  <2>2. QED
    BY <1>1, <1>2, <1>3, <2>l, <2>1, RwReaderLeaves
<1>4. CASE Rwlock!Goto(t, "ru_lock") /\ held' = [held EXCEPT ![t] = "none"] /\ UNCHANGED owner
  <2>l. PICK l \in Rwlock!PCs : l = "ru_lock"
    BY DEF Rwlock!PCs
  <2>0. Rwlock!Enter(t, l, timed[t])
    BY <1>4, <2>l DEF Rwlock!Goto
  <2>1. pc'[t] = l /\ timed'[t] = timed[t] /\ held'[t] = "none" /\ RwOthers(t) /\ RwLocals'
    BY <1>4, <2>0, RwEnterIs, RwReads
  <2>2. QED
    BY <1>1, <1>4, <2>l, <2>1, RwLeaverMoves
<1>5. QED
  BY <1>3, <1>4 DEF Rwlock!RUnlock

(***************************************************************************)
(* wunlock outside the internal mutex.                                     *)
(***************************************************************************)
LEMMA RwWUnlockInv ==
  ASSUME RwInv, NEW t \in Threads, Rwlock!WUnlock(t)
  PROVE  RwInv'
<1>1. /\ pc[t] = "idle" /\ held[t] = "write" /\ toSleep = {}
      /\ UNCHANGED <<world, guard, sched, rq, wq, toAwake>>
  BY DEF Rwlock!WUnlock, Rwlock!Running, Rwlock!MayStep, Rwlock!world, world
<1>2. RwWriter(t)
  BY <1>1 DEF RwWriter
<1>3. CASE ~owner.waiters
  <2>l. PICK l \in Rwlock!PCs : l = "idle"
    BY DEF Rwlock!PCs
  <2>0. owner' = Rwlock!Free /\ Rwlock!Return(t, "none")
    BY <1>3 DEF Rwlock!WUnlock
  <2>1. pc'[t] = l /\ timed'[t] = FALSE /\ held'[t] = "none" /\ RwOthers(t) /\ RwLocals'
    BY <2>0, <2>l, RwEnterIs, RwReads DEF Rwlock!Return
  <2>2. QED
    BY <1>1, <1>2, <1>3, <2>0, <2>l, <2>1, RwWriterLeaves
<1>4. CASE owner.waiters
  <2>l. PICK l \in Rwlock!PCs : l = "wu_lock"
    BY DEF Rwlock!PCs
  <2>0. Rwlock!Enter(t, l, timed[t]) /\ held' = [held EXCEPT ![t] = "none"] /\ UNCHANGED owner
    BY <1>4, <2>l DEF Rwlock!WUnlock, Rwlock!Goto
  <2>1. pc'[t] = l /\ timed'[t] = timed[t] /\ held'[t] = "none" /\ RwOthers(t) /\ RwLocals'
    BY <2>0, RwEnterIs, RwReads
  <2>2. QED
    BY <1>1, <2>0, <2>l, <2>1, RwLeaverMoves
<1>5. QED
  BY <1>3, <1>4

(***************************************************************************)
(* runlock and wunlock are made again after loading.                       *)
(***************************************************************************)
LEMMA RwUnlockRedoInv ==
  ASSUME RwInv, NEW t \in Threads, Rwlock!RUnlockRedo(t) \/ Rwlock!WUnlockRedo(t)
  PROVE  RwInv'
<1>0. pc[t] \in {"ru_redo", "wu_redo"} /\ held[t] = "none" /\ toSleep = {}
  <2>1. /\ pc[t] \in {"ru_redo", "wu_redo"}
        /\ toSleep = {} \/ t \in toSleep
    BY DEF Rwlock!RUnlockRedo, Rwlock!WUnlockRedo, Rwlock!Running, Rwlock!MayStep
  <2>2. QED
    BY <2>1, RwOutside DEF RwInv, RwLoadInv
<1>1. CASE Rwlock!RUnlockRedo(t)
  <2>0. /\ pc[t] = "ru_redo" /\ Rwlock!Enter(t, "ru_lock", timed[t])
        /\ UNCHANGED <<world, guard, sched, rq, wq, toAwake, owner, held>>
    BY <1>1 DEF Rwlock!RUnlockRedo, Rwlock!Running, Rwlock!MayStep, Rwlock!world, world, Rwlock!own,
                Rwlock!Goto
  <2>l. PICK l \in Rwlock!PCs : l = "ru_lock"
    BY DEF Rwlock!PCs
  <2>1. pc'[t] = l /\ timed'[t] = timed[t] /\ held'[t] = "none" /\ RwOthers(t) /\ RwLocals'
    BY <1>0, <2>0, <2>l, RwGotoIs, RwReads
  <2>2. QED
    BY <1>0, <2>0, <2>l, <2>1, RwLeaverMoves
<1>2. CASE Rwlock!WUnlockRedo(t)
  <2>0. /\ pc[t] = "wu_redo"
        /\ UNCHANGED <<world, guard, sched, rq, wq, toAwake, held>>
    BY <1>2 DEF Rwlock!WUnlockRedo, Rwlock!Running, Rwlock!MayStep, Rwlock!world, world
  <2>w. RwWriter(t) /\ owner.writer = t
    BY <2>0 DEF RwWriter, RwInv, RwWordInv
  <2>1. CASE owner.waiters
    <3>l. PICK l \in Rwlock!PCs : l = "wu_lock"
      BY DEF Rwlock!PCs
    <3>0. Rwlock!Enter(t, "wu_lock", timed[t]) /\ UNCHANGED owner
      BY <1>2, <2>1, <2>w DEF Rwlock!WUnlockRedo, Rwlock!Goto
    <3>1. pc'[t] = l /\ timed'[t] = timed[t] /\ held'[t] = "none" /\ RwOthers(t) /\ RwLocals'
      BY <1>0, <2>0, <3>0, <3>l, RwGotoIs, RwReads
    <3>2. QED
      BY <1>0, <2>0, <3>0, <3>l, <3>1, RwLeaverMoves
  <2>2. CASE ~owner.waiters
    <3>l. PICK l \in Rwlock!PCs : l = "idle"
      BY DEF Rwlock!PCs
    <3>0. Rwlock!Enter(t, "idle", timed[t]) /\ owner' = Rwlock!Free
      BY <1>2, <2>2, <2>w DEF Rwlock!WUnlockRedo, Rwlock!Goto
    <3>1. pc'[t] = l /\ timed'[t] = timed[t] /\ held'[t] = "none" /\ RwOthers(t) /\ RwLocals'
      BY <1>0, <2>0, <3>0, <3>l, RwGotoIs, RwReads
    <3>2. timed[t] => "timeout" \in faults
      BY DEF RwInv, RwFaultInv
    <3>3. QED
      BY <1>0, <2>0, <2>w, <2>2, <3>0, <3>l, <3>1, <3>2, RwWriterLeaves
  <2>3. QED
    BY <2>1, <2>2
<1>3. QED
  BY <1>1, <1>2

(***************************************************************************)
(* A call that is made again finds that the lock still exists.             *)
(***************************************************************************)
LEMMA RwNoEsrch ==
  ASSUME RwInv, NEW t \in Threads, pc[t] \in {"r_redo", "w_redo", "ru_redo", "wu_redo"}
  PROVE  exists
<1>1. CASE pc[t] \in {"ru_redo", "wu_redo"}
  BY <1>1, RwHolderExists DEF RwReader, RwWriter
<1>2. CASE pc[t] \in {"r_redo", "w_redo"}
  BY <1>2, RwLoadingIsBusy DEF RwInv, RwThreadInv
<1>3. QED
  BY <1>1, <1>2

-----------------------------------------------------------------------------
(* The reader-writer lock: waiting and timeouts *)

(***************************************************************************)
(* Timeouts and savestates do not meet.                                    *)
(***************************************************************************)
LEMMA RwNoSave ==
  ASSUME OneFault, RwInv, "timeout" \in faults
  PROVE  toSleep = {} /\ stopped = {} /\ \A t \in Threads : pc[t] \notin RwSaveLabels
BY DEF OneFault, RwInv, RwTypes, ObjTypeOK, RwFaultInv

(***************************************************************************)
(* The signal ends a wait.                                                 *)
(***************************************************************************)
LEMMA RwTakeSignalInv ==
  ASSUME RwInv, NEW t \in Threads,
         \/ Rwlock!TakeSignal(t, "r_wait", "read")
         \/ Rwlock!TakeSignal(t, "w_wait", "write")
  PROVE  RwInv'
<1>1. PICK h \in {"none", "read", "write"} :
        /\ \/ pc[t] = "r_wait" /\ h = "read"
           \/ pc[t] = "w_wait" /\ h = "write"
        /\ Rwlock!Return(t, h)
        /\ sched[t] = "signal" /\ sched' = [sched EXCEPT ![t] = "on"]
        /\ UNCHANGED <<world, guard, owner, rq, wq, toAwake>>
  BY DEF Rwlock!TakeSignal, Rwlock!Signalled, Rwlock!world, world
<1>l. PICK l \in Rwlock!PCs : l = "idle"
  BY DEF Rwlock!PCs
<1>2. pc'[t] = l /\ timed'[t] = FALSE /\ held'[t] = h /\ RwOthers(t) /\ RwLocals'
  BY <1>1, <1>l, RwEnterIs, RwReads DEF Rwlock!Return
<1>3. /\ sched' \in [Threads -> SchedStates] /\ sched'[t] = "on"
      /\ \A u \in Threads \ {t} : sched'[u] = sched[u]
  BY <1>1 DEF RwInv, RwTypes, ObjTypeOK, SchedStates
<1>4. ~Contains(rq, t) /\ ~Contains(wq, t) /\ t \notin toAwake /\ held[t] = "none"
  BY <1>1 DEF RwInv, RwThreadInv
<1>5. (RwReader(t)' <=> RwReader(t)) /\ (RwWriter(t)' <=> RwWriter(t))
  BY <1>1, <1>l, <1>2, <1>4 DEF RwReader, RwWriter, RwRead, RwWrite
<1>6. RwWordStep(t)
  BY <1>1, <1>5, RwSameWord
<1>7. toSleep # {} => t \notin toSleep
  BY <1>1 DEF RwInv, RwLoadInv
<1>8. QED
  BY <1>1, <1>l, <1>2, <1>3, <1>4, <1>6, <1>7, RwStepInv DEF RwSaveLabels, RwTimeLabels

(***************************************************************************)
(* A stop ends a wait: who is still queued makes the call again later, who *)
(* is not has been let in.                                                 *)
(***************************************************************************)
LEMMA RwWaitStoppedInv ==
  ASSUME RwInv, NEW t \in Threads,
         \/ Rwlock!WaitStopped(t, "r_wait", rq, "a_r", "read")
         \/ Rwlock!WaitStopped(t, "w_wait", wq, "a_w", "write")
  PROVE  RwInv'
<1>1. PICK h \in {"none", "read", "write"}, a \in Rwlock!PCs :
        /\ \/ pc[t] = "r_wait" /\ h = "read" /\ a = "a_r"
           \/ pc[t] = "w_wait" /\ h = "write" /\ a = "a_w"
        /\ IF (pc[t] = "r_wait" /\ Contains(rq, t)) \/ (pc[t] = "w_wait" /\ Contains(wq, t))
           THEN Rwlock!Enter(t, a, timed[t]) /\ UNCHANGED held
           ELSE Rwlock!Return(t, h)
        /\ guard = NoThread /\ t \in stopped
        /\ UNCHANGED <<world, guard, sched, owner, rq, wq, toAwake>>
  <2>1. "a_r" \in Rwlock!PCs /\ "a_w" \in Rwlock!PCs
    BY DEF Rwlock!PCs
  <2>2. \A q, x : Rwlock!Contains(q, x) <=> Contains(q, x)
    BY RwSame
  <2>3. CASE Rwlock!WaitStopped(t, "r_wait", rq, "a_r", "read")
    BY <2>1, <2>2, <2>3 DEF Rwlock!WaitStopped, Rwlock!Stopping, Rwlock!Goto, Rwlock!world, world
  <2>4. CASE Rwlock!WaitStopped(t, "w_wait", wq, "a_w", "write")
    BY <2>1, <2>2, <2>4 DEF Rwlock!WaitStopped, Rwlock!Stopping, Rwlock!Goto, Rwlock!world, world
  <2>5. QED
    BY <2>3, <2>4
<1>4. /\ t \notin toAwake /\ held[t] = "none" /\ "save" \in faults
      /\ pc[t] = "r_wait" => ~Contains(wq, t)
      /\ pc[t] = "w_wait" => ~Contains(rq, t)
      /\ toSleep # {} => t \notin toSleep
      /\ timed[t] => "timeout" \in faults
  BY <1>1 DEF RwInv, RwThreadInv, RwGuardInv, RwFaultInv, RwListInv, RwLoadInv, RwRead, RwWrite
<1>2. CASE Contains(rq, t) \/ Contains(wq, t)
  <2>0. Rwlock!Enter(t, a, timed[t]) /\ UNCHANGED held
    BY <1>1, <1>2, <1>4
  <2>1. pc'[t] = a /\ timed'[t] = timed[t] /\ held'[t] = held[t] /\ RwOthers(t) /\ RwLocals'
    BY <2>0, RwGotoIs, RwReads
  <2>2. sched[t] = "asleep"
    BY <1>1, <1>2 DEF RwInv, RwThreadInv
  <2>3. (RwReader(t)' <=> RwReader(t)) /\ (RwWriter(t)' <=> RwWriter(t))
    BY <1>1, <1>2, <1>4, <2>1 DEF RwReader, RwWriter, RwRead, RwWrite
  <2>4. RwWordStep(t)
    BY <1>1, <2>3, RwSameWord
  <2>5. QED
    BY <1>1, <1>2, <1>4, <2>1, <2>2, <2>4, RwMoveInv DEF RwTimeLabels
<1>3. CASE ~Contains(rq, t) /\ ~Contains(wq, t)
  <2>l. PICK l \in Rwlock!PCs : l = "idle"
    BY DEF Rwlock!PCs
  <2>0. Rwlock!Return(t, h)
    BY <1>1, <1>3
  <2>1. pc'[t] = l /\ timed'[t] = FALSE /\ held'[t] = h /\ RwOthers(t) /\ RwLocals'
    BY <2>0, <2>l, RwEnterIs, RwReads DEF Rwlock!Return
  <2>2. sched[t] # "asleep"
    BY <1>1, <1>3, <1>4 DEF RwInv, RwThreadInv
  <2>3. (RwReader(t)' <=> RwReader(t)) /\ (RwWriter(t)' <=> RwWriter(t))
    BY <1>1, <1>3, <1>4, <2>l, <2>1 DEF RwReader, RwWriter, RwRead, RwWrite
  <2>4. RwWordStep(t)
    BY <1>1, <2>3, RwSameWord
  <2>5. QED
    BY <1>1, <1>3, <1>4, <2>l, <2>1, <2>2, <2>4, RwMoveInv DEF RwSaveLabels, RwTimeLabels
<1>5. QED
  BY <1>2, <1>3

(***************************************************************************)
(* The time is up.                                                         *)
(***************************************************************************)
LEMMA RwTimeOutInv ==
  ASSUME OneFault, RwInv, NEW t \in Threads,
         \/ Rwlock!TimeOut(t, "r_wait", "rt_check")
         \/ Rwlock!TimeOut(t, "w_wait", "wt_check")
  PROVE  RwInv'
<1>1. PICK l \in Rwlock!PCs :
        /\ \/ pc[t] = "r_wait" /\ l = "rt_check"
           \/ pc[t] = "w_wait" /\ l = "wt_check"
        /\ Rwlock!Enter(t, l, timed[t]) /\ timed[t]
        /\ UNCHANGED <<world, guard, sched, owner, rq, wq, toAwake, held>>
  <2>1. "rt_check" \in Rwlock!PCs /\ "wt_check" \in Rwlock!PCs
    BY DEF Rwlock!PCs
  <2>2. QED
    BY <2>1 DEF Rwlock!TimeOut, Rwlock!TimedOut, Rwlock!Goto, Rwlock!world, world, Rwlock!own
<1>2. pc'[t] = l /\ timed'[t] = timed[t] /\ held'[t] = held[t] /\ RwOthers(t) /\ RwLocals'
  BY <1>1, RwGotoIs, RwReads
<1>3. "timeout" \in faults /\ held[t] = "none"
      /\ (pc[t] = "r_wait" => ~Contains(wq, t)) /\ (pc[t] = "w_wait" => ~Contains(rq, t))
  BY <1>1 DEF RwInv, RwFaultInv, RwThreadInv, RwListInv, RwRead, RwWrite
<1>4. (RwReader(t)' <=> RwReader(t)) /\ (RwWriter(t)' <=> RwWriter(t))
  BY <1>1, <1>2 DEF RwReader, RwWriter, RwRead, RwWrite
<1>5. RwWordStep(t)
  BY <1>1, <1>4, RwSameWord
<1>6. QED
  BY <1>1, <1>2, <1>3, <1>5, RwNoSave, RwMoveInv DEF RwSaveLabels, RwRead, RwWrite

(***************************************************************************)
(* A thread whose time is up waits until the scheduler lets it run.        *)
(***************************************************************************)
LEMMA RwTimeOutCheckInv ==
  ASSUME OneFault, RwInv, NEW t \in Threads,
         \/ Rwlock!TimeOutCheck(t, "rt_check", "r_wait", "rt_test")
         \/ Rwlock!TimeOutCheck(t, "wt_check", "w_wait", "wt_lock")
  PROVE  RwInv'
<1>1. PICK go \in Rwlock!PCs :
        /\ \/ pc[t] = "rt_check" /\ go = "rt_test"
           \/ pc[t] = "wt_check" /\ go = "wt_lock"
        /\ \/ /\ sched[t] = "asleep" /\ sched' = [sched EXCEPT ![t] = "ready"]
              /\ pc' = pc
           \/ /\ sched' = [sched EXCEPT ![t] = "on"]
              /\ pc' = [pc EXCEPT ![t] = go]
           \/ t \in stopped
        /\ UNCHANGED <<world, guard, owner, rq, wq, toAwake, held, timed>>
  <2>1. "rt_test" \in Rwlock!PCs /\ "wt_lock" \in Rwlock!PCs
    BY DEF Rwlock!PCs
  <2>2. QED
    BY <2>1 DEF Rwlock!TimeOutCheck, Rwlock!CheckState, Rwlock!world, world, Rwlock!own
<1>2. "timeout" \in faults /\ held[t] = "none"
      /\ (pc[t] = "rt_check" => ~Contains(wq, t)) /\ (pc[t] = "wt_check" => ~Contains(rq, t))
  BY <1>1 DEF RwInv, RwFaultInv, RwThreadInv, RwListInv, RwRead, RwWrite, RwTimeLabels
<1>3. toSleep = {} /\ stopped = {}
  BY <1>2, RwNoSave
<1>4. PICK l \in Rwlock!PCs :
        /\ \/ pc[t] = "rt_check" /\ l \in {"rt_check", "rt_test"}
           \/ pc[t] = "wt_check" /\ l \in {"wt_check", "wt_lock"}
        /\ pc'[t] = l /\ RwOthers(t) /\ RwLocals' /\ held'[t] = held[t]
        /\ sched' \in [Threads -> SchedStates] /\ sched'[t] \in {"ready", "on"}
        /\ \A u \in Threads \ {t} : sched'[u] = sched[u]
  <2>1. pc[t] \in Rwlock!PCs
    BY DEF RwInv, RwTypes, RwLocals
  <2>2. RwTypes /\ sched \in [Threads -> SchedStates]
    BY DEF RwInv, RwTypes, ObjTypeOK
  <2>3. CASE sched' = [sched EXCEPT ![t] = "ready"] /\ pc' = pc
    BY <1>1, <2>1, <2>2, <2>3 DEF RwTypes, RwLocals, RwOthers, SchedStates
  <2>4. CASE sched' = [sched EXCEPT ![t] = "on"] /\ pc' = [pc EXCEPT ![t] = go]
    BY <1>1, <2>2, <2>4 DEF RwTypes, RwLocals, RwOthers, SchedStates
  <2>5. QED
    BY <1>1, <1>3, <2>3, <2>4
<1>5. (RwReader(t)' <=> RwReader(t)) /\ (RwWriter(t)' <=> RwWriter(t))
  BY <1>1, <1>4 DEF RwReader, RwWriter, RwRead, RwWrite
<1>6. RwWordStep(t)
  BY <1>1, <1>5, RwSameWord
<1>7. QED
  BY <1>1, <1>2, <1>3, <1>4, <1>6, RwStepInv DEF RwSaveLabels, RwRead, RwWrite

(***************************************************************************)
(* A reader whose time is up looks at the queue without a lock.            *)
(***************************************************************************)
LEMMA RwRTimeOutTestInv ==
  ASSUME OneFault, RwInv, NEW t \in Threads, Rwlock!RTimeOutTest(t)
  PROVE  RwInv'
<1>1. PICK l \in Rwlock!PCs :
        /\ pc[t] = "rt_test" /\ l = IF rq = <<>> THEN "rt_over" ELSE "rt_lock"
        /\ Rwlock!Enter(t, l, timed[t])
        /\ UNCHANGED <<world, guard, sched, owner, rq, wq, toAwake, held>>
  <2>1. "rt_over" \in Rwlock!PCs /\ "rt_lock" \in Rwlock!PCs
    BY DEF Rwlock!PCs
  <2>2. QED
    BY <2>1 DEF Rwlock!RTimeOutTest, Rwlock!Goto, Rwlock!world, world, Rwlock!own
<1>2. pc'[t] = l /\ timed'[t] = timed[t] /\ held'[t] = held[t] /\ RwOthers(t) /\ RwLocals'
  BY <1>1, RwGotoIs, RwReads
<1>3. "timeout" \in faults /\ held[t] = "none" /\ ~Contains(wq, t) /\ sched[t] # "asleep"
  BY <1>1 DEF RwInv, RwFaultInv, RwThreadInv, RwListInv, RwRead, RwWrite, RwTimeLabels
<1>4. rq = <<>> => ~Contains(rq, t)
  BY DEF Contains
<1>5. (RwReader(t)' <=> RwReader(t)) /\ (RwWriter(t)' <=> RwWriter(t))
  BY <1>1, <1>2 DEF RwReader, RwWriter, RwRead, RwWrite
<1>6. RwWordStep(t)
  BY <1>1, <1>5, RwSameWord
<1>7. QED
  BY <1>1, <1>2, <1>3, <1>4, <1>6, RwNoSave, RwMoveInv DEF RwSaveLabels, RwRead, RwWrite

(***************************************************************************)
(* A thread whose time is up finds that it has been let in.                *)
(***************************************************************************)
LEMMA RwLateInv ==
  ASSUME OneFault, RwInv, NEW t \in Threads, NEW h,
         \/ pc[t] \in {"rt_over", "rt_lock"} /\ ~Contains(rq, t) /\ h = "read"
         \/ pc[t] = "wt_lock" /\ ~Contains(wq, t) /\ h = "write",
         guard = NoThread, Rwlock!Return(t, h),
         UNCHANGED <<world, guard, sched, owner, rq, wq, toAwake>>
  PROVE  RwInv'
<1>l. PICK l \in Rwlock!PCs : l = "idle"
  BY DEF Rwlock!PCs
<1>1. pc'[t] = l /\ timed'[t] = FALSE /\ held'[t] = h /\ RwOthers(t) /\ RwLocals'
  BY <1>l, RwEnterIs, RwReads DEF Rwlock!Return
<1>2. /\ "timeout" \in faults /\ held[t] = "none" /\ sched[t] # "asleep" /\ t \notin toAwake
      /\ ~Contains(rq, t) /\ ~Contains(wq, t)
  BY DEF RwInv, RwFaultInv, RwThreadInv, RwListInv, RwRead, RwWrite, RwTimeLabels, RwGuardInv
<1>3. (RwReader(t)' <=> RwReader(t)) /\ (RwWriter(t)' <=> RwWriter(t))
  BY <1>l, <1>1, <1>2 DEF RwReader, RwWriter, RwRead, RwWrite
<1>4. RwWordStep(t)
  BY <1>3, RwSameWord
<1>5. QED
  BY <1>l, <1>1, <1>2, <1>4, RwNoSave, RwMoveInv DEF RwSaveLabels, RwTimeLabels

-----------------------------------------------------------------------------
(* The reader-writer lock: the queues *)

(***************************************************************************)
(* A queue that is not empty holds somebody.                               *)
(***************************************************************************)
LEMMA RwSomebody ==
  ASSUME NEW q \in Seq(Threads)
  PROVE  q # <<>> <=> \E u \in Threads : Contains(q, u)
<1>1. ASSUME q # <<>> PROVE \E u \in Threads : Contains(q, u)
  <2>1. 1 \in 1..Len(q) /\ q[1] \in Threads
    BY <1>1
  <2>2. Contains(q, q[1])
    BY <2>1 DEF Contains
  <2>3. QED
    BY <2>1, <2>2
<1>2. ASSUME q = <<>> PROVE \A u \in Threads : ~Contains(q, u)
  BY <1>2 DEF Contains
<1>3. QED
  BY <1>1, <1>2

(***************************************************************************)
(* The slow paths of rlock and wlock queue the thread and put it to sleep. *)
(***************************************************************************)
LEMMA RwQueueInv ==
  ASSUME RwInv, NEW t \in Threads, NEW l \in Rwlock!PCs, guard = NoThread,
         \/ /\ pc[t] = "r_lock" /\ l = "r_wait" /\ rq' = <<t>> \o rq /\ wq' = wq
            /\ ~Rwlock!ReadersMayEnter
         \/ /\ pc[t] = "w_lock" /\ l = "w_wait" /\ wq' = <<t>> \o wq /\ rq' = rq
            /\ owner # Rwlock!Free,
         pc'[t] = l, timed'[t] = timed[t], held'[t] = held[t], RwOthers(t), RwLocals',
         owner' = [owner EXCEPT !.waiters = TRUE],
         sched' = [sched EXCEPT ![t] = "asleep"], toSleep' = toSleep \ {t},
         UNCHANGED <<fifo, exists, stopped, saves, faults, guard, toAwake>>
  PROVE  RwInv'
<1> USE ThreadsAssumption
<1>1. /\ RwTypes /\ toAwake = {} /\ exists /\ held[t] = "none"
      /\ ~Contains(rq, t) /\ ~Contains(wq, t) /\ ~RwReader(t) /\ ~RwWriter(t)
      /\ rq \in Seq(Threads) /\ wq \in Seq(Threads) /\ Distinct(rq) /\ Distinct(wq)
      /\ sched \in [Threads -> SchedStates]
  BY RwOutside DEF RwInv, RwGuardInv, RwWordInv, RwTypes, RwListInv, ObjTypeOK
<1>2. /\ owner'.readers = owner.readers /\ owner'.writer = owner.writer /\ owner'.waiters = TRUE
      /\ owner' \in RwWord /\ owner.readers \in Nat /\ owner.waiters \in BOOLEAN
  BY RwReads DEF RwWord
<1>3. /\ rq' \in Seq(Threads) /\ Distinct(rq')
      /\ \A u \in Threads : Contains(rq', u) <=> Contains(rq, u) \/ (pc[t] = "r_lock" /\ u = t)
  <2>1. CASE rq' = rq /\ pc[t] = "w_lock"
    BY <1>1, <2>1
  <2>2. CASE rq' = <<t>> \o rq /\ pc[t] = "r_lock"
    BY <1>1, <2>2, PushIs
  <2>3. QED
    BY <2>1, <2>2
<1>4. /\ wq' \in Seq(Threads) /\ Distinct(wq')
      /\ \A u \in Threads : Contains(wq', u) <=> Contains(wq, u) \/ (pc[t] = "w_lock" /\ u = t)
  <2>1. CASE wq' = wq /\ pc[t] = "r_lock"
    BY <1>1, <2>1
  <2>2. CASE wq' = <<t>> \o wq /\ pc[t] = "w_lock"
    BY <1>1, <2>2, PushIs
  <2>3. QED
    BY <2>1, <2>2
<1>5. /\ sched' \in [Threads -> SchedStates] /\ sched'[t] = "asleep"
      /\ \A u \in Threads \ {t} : sched'[u] = sched[u]
  BY <1>1 DEF SchedStates
<1>T. RwTypes'
  BY <1>1, <1>2, <1>3, <1>4, <1>5 DEF RwTypes, RwLocals, ObjTypeOK
<1>F. RwFaultInv'
  BY DEF RwInv, RwFaultInv, RwSaveLabels, RwTimeLabels, RwOthers
<1>G. RwGuardInv'
  BY DEF RwInv, RwGuardInv, RwOthers
<1>L. RwListInv'
  BY <1>1, <1>3, <1>4 DEF RwInv, RwListInv, RwOthers, RwRead, RwWrite
<1>R. \A u \in Threads : (RwReader(u)' <=> RwReader(u)) /\ (RwWriter(u)' <=> RwWriter(u))
  BY <1>1, <1>3, <1>4 DEF RwReader, RwWriter, RwOthers, RwRead, RwWrite
<1>C. RwCountInv'
  <2>1. RwReaders' = RwReaders
    BY <1>R DEF RwReaders
  <2>2. QED
    BY <1>2, <2>1 DEF RwInv, RwCountInv
<1>W. RwWordInv'
  <2>1. owner.writer = NoThread => owner.readers > 0
    BY <1>2, RwReads DEF Rwlock!ReadersMayEnter, Rwlock!Free, RwInv, RwWordInv
  <2>2. owner.writer = NoThread => \E u \in Threads : RwWantsW(u)'
    <3>1. CASE pc[t] = "w_lock"
      BY <1>4, <3>1 DEF RwWantsW
    <3>2. CASE pc[t] = "r_lock" /\ owner.writer = NoThread
      <4>1. PICK u \in Threads : RwWantsW(u)
        BY <3>2 DEF Rwlock!ReadersMayEnter, RwInv, RwWordInv
      <4>2. u # t
        BY <1>1, <3>2, <4>1 DEF RwWantsW
      <4>3. RwWantsW(u)'
        BY <1>4, <4>1, <4>2 DEF RwWantsW, RwOthers
      <4>4. QED
        BY <4>3
    <3>3. QED
      BY <3>1, <3>2
  <2>3. QED
    BY <1>1, <1>2, <1>R, <2>1, <2>2 DEF RwInv, RwWordInv
<1>H. ASSUME NEW u \in Threads PROVE RwThreadInv(u)'
  <2>1. CASE u = t
    BY <1>1, <1>3, <1>4, <1>5, <2>1 DEF RwThreadInv
  <2>2. CASE u # t
    BY <1>3, <1>4, <1>5, <1>H, <2>2 DEF RwInv, RwThreadInv, RwOthers
  <2>3. QED
    BY <2>1, <2>2
<1>D. RwLoadInv'
  BY DEF RwInv, RwLoadInv, RwOthers
<1> QED
  BY <1>T, <1>F, <1>G, <1>L, <1>C, <1>W, <1>H, <1>D DEF RwInv

(***************************************************************************)
(* A thread under the internal mutex takes threads off the queues, itself  *)
(* among them if it was queued, and ends or will awaken them.              *)
(***************************************************************************)
LEMMA RwListStepInv ==
  ASSUME RwInv, NEW t \in Threads, NEW l \in {"idle", "wake"},
         guard = NoThread, toSleep = {}, pc[t] # "wake", exists,
         pc'[t] = l, held'[t] = "none", timed'[t] => "timeout" \in faults, RwOthers(t), RwLocals',
         sched[t] # "asleep",
         UNCHANGED <<world, sched>>,
         rq' \in Seq(Threads), Distinct(rq'), ~Contains(rq', t),
         wq' \in Seq(Threads), Distinct(wq'), ~Contains(wq', t),
         \A u \in Threads : (Contains(rq', u) => Contains(rq, u)) /\ (Contains(wq', u) => Contains(wq, u)),
         toAwake' \subseteq Threads,
         \A u \in Threads : u \in toAwake' <=>
           /\ u # t
           /\ Contains(rq, u) \/ Contains(wq, u)
           /\ ~Contains(rq', u) /\ ~Contains(wq', u),
         \A u \in toAwake' : pc[u] \notin {"a_r", "a_w"},
         l = "wake" => guard' = t,
         l = "idle" => guard' = NoThread /\ toAwake' = {},
         owner' \in RwWord, RwCountInv',
         \A u \in Threads : owner'.writer = u <=> RwWriter(u)',
         owner'.writer # NoThread => owner'.readers = 0,
         rq' # <<>> \/ wq' # <<>> => owner'.waiters,
         owner'.waiters /\ owner'.writer = NoThread => owner'.readers > 0 /\ wq' # <<>>
  PROVE  RwInv'
<1> USE ThreadsAssumption
<1>1. /\ RwTypes /\ toAwake = {} /\ toSleep' = {} /\ exists'
      /\ \A u \in Threads : pc[u] # "wake" /\ pc[u] # "wt_spin"
  BY DEF RwInv, RwGuardInv, world, RwTypes, ObjTypeOK
<1>c. l \in Rwlock!PCs
  BY DEF Rwlock!PCs
<1>T. RwTypes'
  BY <1>1, <1>c DEF RwTypes, RwLocals, ObjTypeOK, world
<1>F. RwFaultInv'
  BY DEF RwInv, RwFaultInv, RwSaveLabels, RwTimeLabels, RwOthers, world
<1>G. RwGuardInv'
  BY <1>1 DEF RwGuardInv, RwOthers
<1>d. \A u \in Threads : ~(Contains(rq, u) /\ Contains(wq, u))
  BY DEF RwInv, RwListInv, RwRead, RwWrite
<1>L. RwListInv'
  <2>1. ASSUME NEW u \in Threads, u # t
        PROVE  /\ Contains(rq', u) => pc'[u] \in (RwRead \ {"rt_over"}) \union {"a_r"} /\ u \notin toAwake'
               /\ Contains(wq', u) => pc'[u] \in RwWrite \union {"a_w"} /\ u \notin toAwake'
               /\ pc'[u] = "a_r" => Contains(rq', u)
               /\ pc'[u] = "a_w" => Contains(wq', u)
    BY <1>d, <2>1 DEF RwInv, RwListInv, RwOthers, RwRead, RwWrite
  <2>2. QED
    BY <2>1 DEF RwListInv
<1>W. RwWordInv'
  <2>1. \A u \in Threads : RwWantsR(u)' \/ RwWantsW(u)' => owner'.waiters
    BY <1>1, RwSomebody DEF RwWantsR, RwWantsW
  <2>2. wq' # <<>> => \E u \in Threads : RwWantsW(u)'
    BY RwSomebody DEF RwWantsW
  <2>3. QED
    BY <1>1, <2>1, <2>2 DEF RwWordInv
<1>H. ASSUME NEW u \in Threads PROVE RwThreadInv(u)'
  <2>1. CASE u = t
    BY <2>1, <1>1 DEF RwInv, RwThreadInv, world
  <2>2. CASE u # t
    <3>1. pc'[u] = pc[u] /\ held'[u] = held[u] /\ sched'[u] = sched[u] /\ toSleep' = toSleep
      BY <1>1, <1>H, <2>2 DEF RwOthers
    <3>2. RwThreadInv(u) /\ u \notin toAwake
      BY <1>1, <1>H DEF RwInv
    <3>3. u \in toAwake' => pc[u] \in RwRead \union RwWrite
      BY <1>H DEF RwInv, RwListInv
    <3>4. (Contains(rq', u) \/ Contains(wq', u) \/ u \in toAwake') <=> (Contains(rq, u) \/ Contains(wq, u))
      BY <1>H, <2>2
    <3>5. QED
      BY <3>1, <3>2, <3>3, <3>4 DEF RwThreadInv
  <2>3. QED
    BY <2>1, <2>2
<1>D. RwLoadInv'
  BY <1>1 DEF RwLoadInv
<1> QED
  BY <1>T, <1>F, <1>G, <1>L, <1>W, <1>H, <1>D DEF RwInv

(***************************************************************************)
(* The slow path of rlock.                                                 *)
(***************************************************************************)
LEMMA RwRLockSlowInv ==
  ASSUME RwInv, NEW t \in Threads, Rwlock!RLockSlow(t)
  PROVE  RwInv'
<1>1. /\ pc[t] = "r_lock" /\ guard = NoThread /\ held[t] = "none" /\ exists
      /\ UNCHANGED <<fifo, exists, stopped, saves, faults, guard, wq, toAwake>>
  BY RwOutside DEF Rwlock!RLockSlow, RwInv, RwWordInv
<1>2. CASE Rwlock!ReadersMayEnter
  <2>1. /\ owner' = [owner EXCEPT !.readers = @ + 1] /\ Rwlock!Return(t, "read")
        /\ UNCHANGED <<sched, toSleep, rq>>
    BY <1>2 DEF Rwlock!RLockSlow
  <2>2. QED
    BY <1>1, <1>2, <2>1, RwLoadingIsBusy, RwEnterReader DEF world
<1>3. CASE ~Rwlock!ReadersMayEnter
  <2>l. PICK l \in Rwlock!PCs : l = "r_wait"
    BY DEF Rwlock!PCs
  <2>1. /\ owner' = [owner EXCEPT !.waiters = TRUE] /\ rq' = <<t>> \o rq
        /\ sched' = [sched EXCEPT ![t] = "asleep"] /\ toSleep' = toSleep \ {t}
        /\ Rwlock!Enter(t, l, timed[t]) /\ held' = held
    BY <1>3, <2>l DEF Rwlock!RLockSlow, Rwlock!FallAsleep, Rwlock!Goto
  <2>2. pc'[t] = l /\ timed'[t] = timed[t] /\ held'[t] = held[t] /\ RwOthers(t) /\ RwLocals'
    BY <2>1, RwGotoIs, RwReads
  <2>3. QED
    BY <1>1, <1>3, <2>l, <2>1, <2>2, RwQueueInv
<1>4. QED
  BY <1>2, <1>3

(***************************************************************************)
(* The slow path of wlock.                                                 *)
(***************************************************************************)
LEMMA RwWLockSlowInv ==
  ASSUME RwInv, NEW t \in Threads, Rwlock!WLockSlow(t)
  PROVE  RwInv'
<1>1. /\ pc[t] = "w_lock" /\ guard = NoThread /\ held[t] = "none" /\ exists
      /\ UNCHANGED <<fifo, exists, stopped, saves, faults, guard, rq, toAwake>>
  BY RwOutside DEF Rwlock!WLockSlow, RwInv, RwWordInv
<1>2. CASE owner = Rwlock!Free
  <2>1. /\ owner' = [Rwlock!Free EXCEPT !.writer = t] /\ Rwlock!Return(t, "write")
        /\ UNCHANGED <<sched, toSleep, wq>>
    BY <1>2 DEF Rwlock!WLockSlow
  <2>2. QED
    BY <1>1, <1>2, <2>1, RwLoadingIsBusy, RwEnterWriter DEF world
<1>3. CASE owner # Rwlock!Free
  <2>l. PICK l \in Rwlock!PCs : l = "w_wait"
    BY DEF Rwlock!PCs
  <2>1. /\ owner' = [owner EXCEPT !.waiters = TRUE] /\ wq' = <<t>> \o wq
        /\ sched' = [sched EXCEPT ![t] = "asleep"] /\ toSleep' = toSleep \ {t}
        /\ Rwlock!Enter(t, l, timed[t]) /\ held' = held
    BY <1>3, <2>l DEF Rwlock!WLockSlow, Rwlock!FallAsleep, Rwlock!Goto
  <2>2. pc'[t] = l /\ timed'[t] = timed[t] /\ held'[t] = held[t] /\ RwOthers(t) /\ RwLocals'
    BY <2>1, RwGotoIs, RwReads
  <2>3. QED
    BY <1>1, <1>3, <2>l, <2>1, <2>2, RwQueueInv
<1>4. QED
  BY <1>2, <1>3

(***************************************************************************)
(* While nothing is being loaded, the bit means that somebody is queued,   *)
(* if there is no writer: a writer.                                        *)
(***************************************************************************)
LEMMA RwBit ==
  ASSUME RwInv, toSleep = {}
  PROVE  /\ rq # <<>> \/ wq # <<>> => owner.waiters /\ exists
         /\ owner.waiters /\ owner.writer = NoThread => owner.readers > 0 /\ wq # <<>>
<1>1. rq \in Seq(Threads) /\ wq \in Seq(Threads)
  BY DEF RwInv, RwTypes
<1>2. rq # <<>> \/ wq # <<>> => owner.waiters
  BY <1>1, RwSomebody DEF RwInv, RwWordInv, RwWantsR, RwWantsW
<1>3. owner.waiters /\ owner.writer = NoThread => owner.readers > 0 /\ wq # <<>>
  BY <1>1, RwSomebody DEF RwInv, RwWordInv, RwWantsW
<1>4. owner.waiters => exists
  BY DEF RwInv, RwWordInv, Rwlock!Free
<1>5. QED
  BY <1>2, <1>3, <1>4

(***************************************************************************)
(* A reader whose time is up takes itself off the queue, or was let in.    *)
(***************************************************************************)
LEMMA RwRTimeOutInv ==
  ASSUME OneFault, RwInv, NEW t \in Threads, Rwlock!RTimeOutLock(t) \/ Rwlock!RTimeOutOver(t)
  PROVE  RwInv'
<1>1. CASE Rwlock!RTimeOutOver(t)
  <2>1. /\ pc[t] = "rt_over" /\ guard = NoThread /\ Rwlock!Return(t, "read")
        /\ UNCHANGED <<world, guard, sched, owner, rq, wq, toAwake>>
    BY <1>1 DEF Rwlock!RTimeOutOver, Rwlock!world, world
  <2>2. ~Contains(rq, t)
    BY <2>1 DEF RwInv, RwListInv, RwRead
  <2>3. QED
    BY <2>1, <2>2, RwLateInv
<1>2. CASE Rwlock!RTimeOutLock(t)
  <2>1. /\ pc[t] = "rt_lock" /\ guard = NoThread
        /\ Rwlock!Return(t, IF Contains(rq, t) THEN "none" ELSE "read")
        /\ rq' = RemoveFirst(rq, t)
        /\ UNCHANGED <<world, guard, sched, owner, wq, toAwake>>
    BY <1>2, RwSame, RwWithout DEF Rwlock!RTimeOutLock, Rwlock!world, world
  <2>2. CASE ~Contains(rq, t)
    <3>1. rq' = rq
      BY <2>1, <2>2 DEF RemoveFirst, Contains
    <3>2. QED
      BY <2>1, <2>2, <3>1, RwLateInv
  <2>3. CASE Contains(rq, t)
    <3>l. PICK l \in Rwlock!PCs : l = "idle"
      BY DEF Rwlock!PCs
    <3>1. pc'[t] = l /\ timed'[t] = FALSE /\ held'[t] = "none" /\ RwOthers(t) /\ RwLocals'
      BY <2>1, <2>3, <3>l, RwEnterIs, RwReads DEF Rwlock!Return
    <3>2. /\ "timeout" \in faults /\ held[t] = "none" /\ sched[t] # "asleep" /\ toAwake = {}
          /\ ~Contains(wq, t) /\ rq \in Seq(Threads) /\ Distinct(rq) /\ wq \in Seq(Threads)
          /\ Distinct(wq) /\ owner \in RwWord
      BY <2>1 DEF RwInv, RwFaultInv, RwThreadInv, RwListInv, RwRead, RwWrite, RwTimeLabels, RwGuardInv,
                  RwTypes
    <3>3. toSleep = {}
      BY <3>2, RwNoSave
    <3>4. /\ rq' \in Seq(Threads) /\ Distinct(rq')
          /\ \A u \in Threads : Contains(rq', u) <=> Contains(rq, u) /\ u # t
      BY <2>1, <3>2, RemoveFirstHas
    <3>5. \A u \in Threads : (RwReader(u)' <=> RwReader(u)) /\ (RwWriter(u)' <=> RwWriter(u))
      BY <2>1, <2>3, <3>l, <3>1, <3>2, <3>4 DEF RwReader, RwWriter, RwOthers, RwRead, RwWrite
    <3>6. RwCountInv'
      <4>1. RwReaders' = RwReaders
        BY <3>5 DEF RwReaders
      <4>2. QED
        BY <2>1, <4>1 DEF RwInv, RwCountInv
    <3>7. \A u \in Threads : owner'.writer = u <=> RwWriter(u)'
      BY <2>1, <3>5 DEF RwInv, RwWordInv
    <3>8. owner'.writer # NoThread => owner'.readers = 0
      BY <2>1 DEF RwInv, RwWordInv
    <3>9. /\ rq # <<>> /\ exists /\ owner'.waiters
          /\ owner'.waiters /\ owner'.writer = NoThread => owner'.readers > 0 /\ wq' # <<>>
      BY <2>1, <2>3, <3>2, <3>3, RwSomebody, RwBit
    <3>10. QED
      BY <2>1, <3>l, <3>1, <3>2, <3>3, <3>4, <3>6, <3>7, <3>8, <3>9, RwListStepInv
  <2>4. QED
    BY <2>2, <2>3
<1>3. QED
  BY <1>1, <1>2

(***************************************************************************)
(* The members of a queue.                                                 *)
(***************************************************************************)
LEMMA RwMembers ==
  ASSUME NEW q \in Seq(Threads)
  PROVE  Range(q) = {u \in Threads : Contains(q, u)}
<1>1. DOMAIN q = 1..Len(q) /\ \A i \in 1..Len(q) : q[i] \in Threads
  OBVIOUS
<1>2. QED
  BY <1>1 DEF Range, Contains

(***************************************************************************)
(* All queued readers are let in, no writer being queued or inside.        *)
(***************************************************************************)
LEMMA RwLetInInv ==
  ASSUME RwInv, NEW t \in Threads, guard = NoThread, toSleep = {}, exists,
         pc[t] \in {"wt_lock", "wu_lock"}, pc'[t] = "wake", held'[t] = "none",
         timed'[t] => "timeout" \in faults, RwOthers(t), RwLocals',
         UNCHANGED <<world, sched>>,
         rq' = <<>>, wq' = <<>>, toAwake' = Range(rq), guard' = t,
         \A u \in Threads \ {t} : ~Contains(wq, u) /\ ~RwWriter(u),
         \A i \in 1..Len(rq) : pc[rq[i]] \notin {"a_r", "a_w"},
         owner' \in RwWord, owner'.writer = NoThread, ~owner'.waiters,
         owner'.readers = owner.readers + Len(rq)
  PROVE  RwInv'
<1> USE ThreadsAssumption
<1>0. /\ rq \in Seq(Threads) /\ Distinct(rq) /\ ~Contains(rq, t) /\ sched[t] # "asleep"
      /\ ~RwReader(t) /\ toAwake = {} /\ owner.readers \in Nat /\ held[t] = "none"
  BY RwReads DEF RwInv, RwTypes, RwListInv, RwThreadInv, RwGuardInv, RwRead, RwWrite, RwReader
<1>1. /\ \A u \in Threads : ~Contains(rq', u) /\ ~Contains(wq', u)
      /\ rq' \in Seq(Threads) /\ wq' \in Seq(Threads) /\ Distinct(rq') /\ Distinct(wq')
  BY DEF Contains, Distinct
<1>2. \A u \in Threads : u \in toAwake' <=> Contains(rq, u)
  BY <1>0, RwMembers
<1>3. \A u \in toAwake' : u \in Threads /\ pc[u] \notin {"a_r", "a_w"}
  BY <1>0, RwMembers DEF Contains
<1>4. \A u \in Threads : ~RwWriter(u)'
  BY <1>1 DEF RwWriter, RwOthers, RwWrite
<1>5. RwCountInv'
  <2> DEFINE A == RwReaders
             B == {u \in Threads : Contains(rq, u)}
  <2>1. IsFiniteSet(A) /\ Cardinality(A) = owner.readers
    BY FS_Subset DEF RwReaders, RwInv, RwCountInv
  <2>2. IsFiniteSet(B) /\ Cardinality(B) = Len(rq)
    BY <1>0, DistinctLen
  <2>3. \A u \in Threads : RwReader(u)' <=> RwReader(u) \/ Contains(rq, u)
    <3>1. ASSUME NEW u \in Threads, u # t PROVE RwReader(u)' <=> RwReader(u) \/ Contains(rq, u)
      <4>1. Contains(rq, u) => pc[u] \in RwRead
        BY <1>2, <1>3, <3>1 DEF RwInv, RwListInv
      <4>2. QED
        BY <1>1, <3>1, <4>1 DEF RwReader, RwOthers
    <3>2. ~RwReader(t)'
      BY DEF RwReader, RwRead
    <3>3. QED
      BY <1>0, <3>1, <3>2
  <2>4. RwReaders' = A \union B
    BY <2>3 DEF RwReaders
  <2>5. A \cap B = {}
    BY DEF RwReaders, RwReader, RwInv, RwListInv, RwThreadInv, RwRead
  <2> HIDE DEF A, B
  <2>6. Cardinality(A \cap B) = 0
    BY <2>5, FS_EmptySet
  <2>7. Cardinality(A \union B) = Cardinality(A) + Cardinality(B) - Cardinality(A \cap B)
    BY <2>1, <2>2, FS_Union
  <2>8. Cardinality(RwReaders') = owner.readers + Len(rq)
    BY <1>0, <2>1, <2>2, <2>4, <2>6, <2>7
  <2>9. QED
    BY <2>8 DEF RwCountInv
<1>6. QED
  BY <1>0, <1>1, <1>2, <1>3, <1>4, <1>5, RwListStepInv

(***************************************************************************)
(* A writer whose time is up takes itself off the queue, or was let in.    *)
(***************************************************************************)
LEMMA RwWTimeOutInv ==
  ASSUME OneFault, RwInv, NEW t \in Threads, Rwlock!WTimeOutLock(t)
  PROVE  RwInv'
<1> USE ThreadsAssumption
<1>1. /\ pc[t] = "wt_lock" /\ guard = NoThread /\ UNCHANGED <<world, sched>>
  BY DEF Rwlock!WTimeOutLock, Rwlock!world, world
<1>2. /\ "timeout" \in faults /\ held[t] = "none" /\ sched[t] # "asleep" /\ toAwake = {}
      /\ ~Contains(rq, t) /\ rq \in Seq(Threads) /\ Distinct(rq) /\ wq \in Seq(Threads)
      /\ Distinct(wq) /\ owner \in RwWord /\ owner.readers \in Nat
  BY <1>1, RwReads DEF RwInv, RwFaultInv, RwThreadInv, RwListInv, RwRead, RwWrite, RwTimeLabels,
              RwGuardInv, RwTypes
<1>3. toSleep = {} /\ \A u \in Threads : pc[u] \notin RwSaveLabels
  BY <1>2, RwNoSave
<1>4. CASE ~Contains(wq, t)
  <2>1. Rwlock!Return(t, "write") /\ UNCHANGED <<guard, owner, rq, wq, toAwake>>
    BY <1>4, RwSame DEF Rwlock!WTimeOutLock
  <2>2. QED
    BY <1>1, <1>4, <2>1, RwLateInv
<1>5. CASE Contains(wq, t)
  <2>1. wq' = RemoveFirst(wq, t)
    BY <1>5, RwSame, RwWithout DEF Rwlock!WTimeOutLock
  <2>2. /\ wq' \in Seq(Threads) /\ Distinct(wq')
        /\ \A u \in Threads : Contains(wq', u) <=> Contains(wq, u) /\ u # t
    BY <1>2, <2>1, RemoveFirstHas
  <2>3. exists /\ owner.waiters /\ wq # <<>>
    BY <1>2, <1>3, <1>5, RwSomebody, RwBit
  <2>4. CASE rq # <<>> /\ wq' = <<>> /\ owner.readers > 0
    <3>l. PICK l \in Rwlock!PCs : l = "wake"
      BY DEF Rwlock!PCs
    <3>0. \A i \in 1..Len(rq) : rq[i] \in Threads /\ pc[rq[i]] \notin {"a_r", "a_w"}
      BY <1>2, <1>3 DEF RwSaveLabels
    <3>1. /\ guard' = t /\ held' = held
          /\ owner' = [owner EXCEPT !.readers = @ + Len(rq), !.waiters = FALSE]
          /\ toAwake' = Range(rq) /\ rq' = <<>>
          /\ Rwlock!Enter(t, l, timed[t])
      BY <1>5, <2>4, <3>0, <3>l, RwSame DEF Rwlock!WTimeOutLock, Rwlock!Again, Rwlock!Goto
    <3>2. pc'[t] = l /\ timed'[t] = timed[t] /\ held'[t] = held[t] /\ RwOthers(t) /\ RwLocals'
      BY <3>1, RwGotoIs, RwReads
    <3>3. owner.writer = NoThread /\ \A u \in Threads : ~RwWriter(u)
      BY <1>2, <2>4 DEF RwInv, RwWordInv
    <3>4. /\ owner'.writer = NoThread /\ ~owner'.waiters /\ owner'.readers = owner.readers + Len(rq)
          /\ owner' \in RwWord
      <4>1. owner.readers + Len(rq) \in Nat
        BY <1>2
      <4>2. owner = [writer |-> owner.writer, readers |-> owner.readers, waiters |-> owner.waiters]
        BY RwReads
      <4>3. owner' = [writer |-> NoThread, readers |-> owner.readers + Len(rq), waiters |-> FALSE]
        BY <3>1, <3>3, <4>2
      <4>4. QED
        BY <4>1, <4>3 DEF RwWord
    <3>5. \A u \in Threads \ {t} : ~Contains(wq, u)
      BY <2>2, <2>4, RwSomebody
    <3>6. QED
      BY <1>1, <1>2, <1>3, <2>3, <2>4, <3>l, <3>0, <3>1, <3>2, <3>3, <3>4, <3>5, RwLetInInv
  <2>5. CASE ~(rq # <<>> /\ wq' = <<>> /\ owner.readers > 0)
    <3>l. PICK l \in Rwlock!PCs : l = "idle"
      BY DEF Rwlock!PCs
    <3>1. /\ owner' = [owner EXCEPT !.waiters = @ /\ ~(rq = <<>> /\ wq' = <<>>)]
          /\ Rwlock!Return(t, "none") /\ UNCHANGED <<guard, rq, toAwake>>
      BY <1>5, <2>5, RwSame DEF Rwlock!WTimeOutLock
    <3>2. pc'[t] = l /\ timed'[t] = FALSE /\ held'[t] = "none" /\ RwOthers(t) /\ RwLocals'
      BY <3>1, <3>l, RwEnterIs, RwReads DEF Rwlock!Return
    <3>3. /\ owner'.writer = owner.writer /\ owner'.readers = owner.readers
          /\ owner'.waiters <=> (rq # <<>> \/ wq' # <<>>)
          /\ owner' \in RwWord
      BY <2>3, <3>1, RwReads DEF RwWord
    <3>5. \A u \in Threads : (RwReader(u)' <=> RwReader(u)) /\ (RwWriter(u)' <=> RwWriter(u))
      BY <1>1, <1>2, <1>5, <2>2, <3>1, <3>l, <3>2 DEF RwReader, RwWriter, RwOthers, RwRead, RwWrite
    <3>6. RwCountInv'
      <4>1. RwReaders' = RwReaders
        BY <3>5 DEF RwReaders
      <4>2. QED
        BY <3>3, <4>1 DEF RwInv, RwCountInv
    <3>7. \A u \in Threads : owner'.writer = u <=> RwWriter(u)'
      BY <3>3, <3>5 DEF RwInv, RwWordInv
    <3>8. owner'.writer # NoThread => owner'.readers = 0
      BY <3>3 DEF RwInv, RwWordInv
    <3>9. owner'.waiters /\ owner'.writer = NoThread => owner'.readers > 0 /\ wq' # <<>>
      BY <1>3, <2>3, <2>5, <3>3, RwBit
    <3>10. QED
      BY <1>1, <1>2, <1>3, <2>2, <2>3, <3>l, <3>1, <3>2, <3>3, <3>6, <3>7, <3>8, <3>9, RwListStepInv
  <2>6. QED
    BY <2>4, <2>5
<1>6. QED
  BY <1>4, <1>5

-----------------------------------------------------------------------------
(* The reader-writer lock: the last holder hands it over *)

(***************************************************************************)
(* schedule chooses one of the queue.                                      *)
(***************************************************************************)
LEMMA RwServed ==
  ASSUME NEW q \in Seq(Threads), q # <<>>, NEW u \in Rwlock!ServedFirst(q)
  PROVE  u \in Threads /\ Contains(q, u)
<1>1. Len(q) \in Nat /\ Len(q) \in 1..Len(q) /\ Rwlock!Last(q) = q[Len(q)]
  BY DEF Rwlock!Last
<1>2. \E i \in 1..Len(q) : u = q[i]
  BY <1>1 DEF Rwlock!ServedFirst
<1>3. QED
  BY <1>2 DEF Contains

(***************************************************************************)
(* The slow path of an unlock: who leaves is the last reader or the        *)
(* writer, and nothing is being loaded.                                    *)
(***************************************************************************)
LEMMA RwLeaver ==
  ASSUME RwInv, NEW t \in Threads, pc[t] \in {"ru_lock", "wu_lock"}
  PROVE  /\ toSleep = {} /\ exists /\ held[t] = "none" /\ sched[t] # "asleep"
         /\ ~Contains(rq, t) /\ ~Contains(wq, t)
         /\ pc[t] = "ru_lock" => RwReader(t) /\ owner.writer = NoThread /\ owner.readers > 0
         /\ pc[t] = "wu_lock" => ~RwReader(t) /\ RwWriter(t) /\ owner.writer = t /\ owner.readers = 0
         /\ timed[t] => "timeout" \in faults
<1>1. toSleep = {}
  BY DEF RwInv, RwLoadInv
<1>2. /\ held[t] = "none" /\ sched[t] # "asleep" /\ ~Contains(rq, t) /\ ~Contains(wq, t)
      /\ pc[t] = "ru_lock" => RwReader(t)
      /\ pc[t] = "wu_lock" => ~RwReader(t) /\ RwWriter(t)
  BY RwOutside DEF RwReader, RwWriter, RwRead, RwWrite
<1>3. exists
  BY <1>2, RwHolderExists
<1>4. pc[t] = "ru_lock" => owner.writer = NoThread /\ owner.readers > 0
  BY <1>2, RwReaderCounts
<1>5. pc[t] = "wu_lock" => owner.writer = t /\ owner.readers = 0
  BY <1>2, ThreadsAssumption DEF RwInv, RwWordInv
<1>6. timed[t] => "timeout" \in faults
  BY DEF RwInv, RwFaultInv
<1>7. QED
  BY <1>1, <1>2, <1>3, <1>4, <1>5, <1>6

(***************************************************************************)
(* The last reader or the writer hands the lock to a queued writer, or     *)
(* puts it off if that one has left for a savestate.                       *)
(***************************************************************************)
LEMMA RwHandInv ==
  ASSUME RwInv, NEW t \in Threads, NEW again, guard = NoThread,
         \/ pc[t] = "ru_lock" /\ again = "a_ru" /\ owner.readers = 1
         \/ pc[t] = "wu_lock" /\ again = "a_wu",
         wq # <<>>, Rwlock!HandToWriter(t, again), UNCHANGED <<world, sched, rq, held>>
  PROVE  RwInv'
<1> USE ThreadsAssumption
<1>1. /\ toSleep = {} /\ exists /\ held[t] = "none" /\ sched[t] # "asleep"
      /\ ~Contains(rq, t) /\ ~Contains(wq, t) /\ (timed[t] => "timeout" \in faults)
  BY RwLeaver
<1>2. /\ rq \in Seq(Threads) /\ wq \in Seq(Threads) /\ Distinct(rq) /\ Distinct(wq) /\ toAwake = {}
  BY DEF RwInv, RwTypes, RwListInv, RwGuardInv
<1>3. PICK u \in Rwlock!ServedFirst(wq) :
        IF Rwlock!Again(u)
        THEN Rwlock!Goto(t, again) /\ UNCHANGED <<guard, owner, wq, toAwake>>
        ELSE /\ wq' = Rwlock!Without(wq, u)
             /\ owner' = [writer |-> u, readers |-> 0, waiters |-> wq' # <<>> \/ rq # <<>>]
             /\ toAwake' = {u}
             /\ guard' = t
             /\ Rwlock!Goto(t, "wake")
  BY DEF Rwlock!HandToWriter
<1>4. u \in Threads /\ Contains(wq, u) /\ u # t
  BY <1>1, <1>2, <1>3, RwServed
<1>5. CASE Rwlock!Again(u)
  <2>1. "save" \in faults
    BY <1>4, <1>5 DEF Rwlock!Again, RwInv, RwFaultInv, RwSaveLabels
  <2>2. PICK l \in Rwlock!PCs : l = again
    BY DEF Rwlock!PCs
  <2>3. Rwlock!Enter(t, l, timed[t]) /\ UNCHANGED <<guard, owner, wq, toAwake>>
    BY <1>3, <1>5, <2>2 DEF Rwlock!Goto
  <2>4. pc'[t] = l /\ timed'[t] = timed[t] /\ held'[t] = held[t] /\ RwOthers(t) /\ RwLocals'
    BY <2>3, RwGotoIs, RwReads
  <2>5. QED
    BY <1>1, <2>1, <2>2, <2>3, <2>4, RwLeaverMoves
<1>6. CASE ~Rwlock!Again(u)
  <2>l. PICK l \in Rwlock!PCs : l = "wake"
    BY DEF Rwlock!PCs
  <2>1. /\ wq' = RemoveFirst(wq, u) /\ toAwake' = {u} /\ guard' = t
        /\ owner' = [writer |-> u, readers |-> 0, waiters |-> wq' # <<>> \/ rq # <<>>]
        /\ Rwlock!Enter(t, l, timed[t])
    BY <1>3, <1>6, <2>l, RwWithout DEF Rwlock!Goto
  <2>2. pc'[t] = l /\ timed'[t] = timed[t] /\ held'[t] = held[t] /\ RwOthers(t) /\ RwLocals'
    BY <2>1, RwGotoIs, RwReads
  <2>3. /\ wq' \in Seq(Threads) /\ Distinct(wq')
        /\ \A v \in Threads : Contains(wq', v) <=> Contains(wq, v) /\ v # u
    BY <1>2, <2>1, RemoveFirstHas
  <2>4. /\ owner'.writer = u /\ owner'.readers = 0
        /\ owner'.waiters = (wq' # <<>> \/ rq # <<>>) /\ owner' \in RwWord
    BY <1>4, <2>1 DEF RwWord
  <2>5. pc[u] \in RwWrite /\ ~Contains(rq, u) /\ ~Contains(rq', u)
    BY <1>4, <1>6 DEF RwInv, RwListInv, RwRead, RwWrite, Rwlock!Again
  <2>6. \A v \in Threads \ {t} : RwReader(v)' <=> RwReader(v)
    BY <2>2 DEF RwReader, RwOthers
  <2>7. ~RwReader(t)' /\ ~RwWriter(t)'
    BY <1>1, <2>l, <2>2 DEF RwReader, RwWriter, RwRead, RwWrite
  <2>8. RwCountInv'
    <3>1. owner'.readers = owner.readers + Ind(RwReader(t)') - Ind(RwReader(t))
      BY <2>4, <2>7, RwLeaver DEF Ind
    <3>2. QED
      BY <2>6, <3>1, RwCountStep DEF RwInv
  <2>9. \A v \in Threads : owner'.writer = v <=> RwWriter(v)'
    <3>1. \A v \in Threads \ {t} : ~RwWriter(v)
      BY RwLeaver DEF RwInv, RwWordInv
    <3>2. RwWriter(u)'
      BY <1>4, <2>2, <2>3, <2>5 DEF RwWriter, RwOthers
    <3>3. \A v \in Threads \ {t, u} : ~RwWriter(v)'
      BY <2>2, <2>3, <3>1 DEF RwWriter, RwOthers
    <3>4. QED
      BY <2>4, <2>7, <3>2, <3>3
  <2>10. \A v \in Threads : v \in toAwake' <=>
           /\ v # t
           /\ Contains(rq, v) \/ Contains(wq, v)
           /\ ~Contains(rq', v) /\ ~Contains(wq', v)
    BY <1>4, <2>1, <2>3, <2>5
  <2>11. \A v \in toAwake' : v \in Threads /\ pc[v] \notin {"a_r", "a_w"}
    BY <1>4, <1>6, <2>1 DEF Rwlock!Again
  <2>12. QED
    BY <1>1, <1>2, <1>4, <2>l, <2>1, <2>2, <2>3, <2>4, <2>8, <2>9, <2>10, <2>11, RwListStepInv
<1>7. QED
  BY <1>5, <1>6

(***************************************************************************)
(* The slow path of runlock: EPERM and the hand-over to nobody do not      *)
(* happen.                                                                 *)
(***************************************************************************)
LEMMA RwRUnlockSlowInv ==
  ASSUME RwInv, NEW t \in Threads, Rwlock!RUnlockSlow(t)
  PROVE  RwInv'
<1>1. pc[t] = "ru_lock" /\ guard = NoThread /\ UNCHANGED <<world, sched, rq, held>>
  BY DEF Rwlock!RUnlockSlow, Rwlock!world, world
<1>2. /\ toSleep = {} /\ exists /\ held[t] = "none" /\ RwReader(t) /\ owner.readers > 0
      /\ owner.writer = NoThread /\ owner.readers \in Nat /\ (timed[t] => "timeout" \in faults)
      /\ owner.waiters \in BOOLEAN
  BY <1>1, RwLeaver, RwReads
<1>3. CASE /\ owner.readers > 1 \/ (owner.readers = 1 /\ ~owner.waiters)
           /\ owner' = [owner EXCEPT !.readers = @ - 1]
           /\ Rwlock!Goto(t, "idle")
           /\ UNCHANGED <<guard, wq, toAwake>>
  <2>l. PICK l \in Rwlock!PCs : l = "idle"
    BY DEF Rwlock!PCs
  <2>0. Rwlock!Enter(t, l, timed[t])
    BY <1>3, <2>l DEF Rwlock!Goto
  <2>1. pc'[t] = l /\ timed'[t] = timed[t] /\ held'[t] = held[t] /\ RwOthers(t) /\ RwLocals'
    BY <1>1, <2>0, RwGotoIs, RwReads
  <2>2. QED
    BY <1>1, <1>2, <1>3, <2>l, <2>1, RwReaderLeaves
<1>4. CASE owner.readers = 1 /\ owner.waiters /\ wq # <<>> /\ Rwlock!HandToWriter(t, "a_ru")
  BY <1>1, <1>4, RwHandInv
<1>5. owner.readers # 0 /\ ~(owner.waiters /\ wq = <<>>)
  BY <1>2, RwBit
<1>6. QED
  BY <1>3, <1>4, <1>5 DEF Rwlock!RUnlockSlow

(***************************************************************************)
(* The slow path of wunlock.                                               *)
(***************************************************************************)
LEMMA RwWUnlockSlowInv ==
  ASSUME RwInv, NEW t \in Threads, Rwlock!WUnlockSlow(t)
  PROVE  RwInv'
<1> USE ThreadsAssumption
<1>1. pc[t] = "wu_lock" /\ guard = NoThread /\ UNCHANGED <<world, sched, held>>
  BY DEF Rwlock!WUnlockSlow, Rwlock!world, world
<1>2. /\ toSleep = {} /\ exists /\ held[t] = "none" /\ RwWriter(t) /\ owner.readers = 0
      /\ owner.writer = t /\ (timed[t] => "timeout" \in faults)
      /\ rq \in Seq(Threads) /\ wq \in Seq(Threads)
  BY <1>1, RwLeaver DEF RwInv, RwTypes
<1>3. CASE wq # <<>> /\ Rwlock!HandToWriter(t, "a_wu") /\ UNCHANGED rq
  BY <1>1, <1>3, RwHandInv
<1>4. CASE /\ wq = <<>> /\ rq # <<>>
           /\ IF \E i \in 1..Len(rq) : Rwlock!Again(rq[i])
              THEN Rwlock!Goto(t, "a_wu") /\ UNCHANGED <<guard, owner, rq, toAwake>>
              ELSE /\ owner' = [Rwlock!Free EXCEPT !.readers = Len(rq)]
                   /\ toAwake' = Rwlock!Range(rq)
                   /\ rq' = <<>>
                   /\ guard' = t
                   /\ Rwlock!Goto(t, "wake")
           /\ UNCHANGED wq
  <2>1. CASE \E i \in 1..Len(rq) : Rwlock!Again(rq[i])
    <3>1. PICK i \in 1..Len(rq) : Rwlock!Again(rq[i])
      BY <2>1
    <3>2. "save" \in faults
      BY <1>2, <3>1 DEF Rwlock!Again, RwInv, RwFaultInv, RwSaveLabels
    <3>l. PICK l \in Rwlock!PCs : l = "a_wu"
      BY DEF Rwlock!PCs
    <3>3. Rwlock!Enter(t, l, timed[t]) /\ UNCHANGED <<guard, owner, rq, wq, toAwake>>
      BY <1>4, <2>1, <3>l DEF Rwlock!Goto
    <3>4. pc'[t] = l /\ timed'[t] = timed[t] /\ held'[t] = held[t] /\ RwOthers(t) /\ RwLocals'
      BY <1>1, <3>3, RwGotoIs, RwReads
    <3>5. QED
      BY <1>1, <1>2, <3>2, <3>l, <3>3, <3>4, RwLeaverMoves
  <2>2. CASE ~\E i \in 1..Len(rq) : Rwlock!Again(rq[i])
    <3>l. PICK l \in Rwlock!PCs : l = "wake"
      BY DEF Rwlock!PCs
    <3>1. /\ owner' = [Rwlock!Free EXCEPT !.readers = Len(rq)] /\ toAwake' = Range(rq)
          /\ rq' = <<>> /\ wq' = <<>> /\ guard' = t /\ Rwlock!Enter(t, l, timed[t])
      BY <1>4, <2>2, <3>l, RwSame DEF Rwlock!Goto
    <3>2. pc'[t] = l /\ timed'[t] = timed[t] /\ held'[t] = held[t] /\ RwOthers(t) /\ RwLocals'
      BY <1>1, <3>1, RwGotoIs, RwReads
    <3>3. \A i \in 1..Len(rq) : pc[rq[i]] \notin {"a_r", "a_w"}
      BY <2>2 DEF Rwlock!Again
    <3>4. \A u \in Threads \ {t} : ~Contains(wq, u) /\ ~RwWriter(u)
      BY <1>2, <1>4 DEF RwInv, RwWordInv, Contains
    <3>5. /\ owner'.writer = NoThread /\ ~owner'.waiters /\ owner'.readers = owner.readers + Len(rq)
          /\ owner' \in RwWord
      <4>1. Len(rq) \in Nat /\ owner.readers + Len(rq) = Len(rq)
        BY <1>2
      <4>2. owner' = [writer |-> NoThread, readers |-> Len(rq), waiters |-> FALSE]
        BY <3>1 DEF Rwlock!Free
      <4>3. QED
        BY <4>1, <4>2 DEF RwWord
    <3>6. QED
      BY <1>1, <1>2, <3>l, <3>1, <3>2, <3>3, <3>4, <3>5, RwLetInInv
  <2>3. QED
    BY <2>1, <2>2
<1>5. CASE wq = <<>> /\ rq = <<>> /\ owner' = Rwlock!Free /\ Rwlock!Goto(t, "idle")
           /\ UNCHANGED <<guard, rq, wq, toAwake>>
  <2>l. PICK l \in Rwlock!PCs : l = "idle"
    BY DEF Rwlock!PCs
  <2>0. Rwlock!Enter(t, l, timed[t])
    BY <1>5, <2>l DEF Rwlock!Goto
  <2>1. pc'[t] = l /\ timed'[t] = timed[t] /\ held'[t] = held[t] /\ RwOthers(t) /\ RwLocals'
    BY <1>1, <2>0, RwGotoIs, RwReads
  <2>2. QED
    BY <1>1, <1>2, <1>5, <2>l, <2>1, RwWriterLeaves
<1>6. QED
  BY <1>3, <1>4, <1>5 DEF Rwlock!WUnlockSlow

-----------------------------------------------------------------------------
(* The reader-writer lock: awakening, scheduling, destroying and savestates *)

(***************************************************************************)
(* What was let in or handed the lock is awakened; the thread that did it  *)
(* leaves the internal mutex.                                              *)
(***************************************************************************)
LEMMA RwWakeInv ==
  ASSUME RwInv, NEW t \in Threads, Rwlock!Wake(t)
  PROVE  RwInv'
<1> USE ThreadsAssumption
<1>l. PICK l \in Rwlock!PCs : l = "idle"
  BY DEF Rwlock!PCs
<1>1. /\ pc[t] = "wake" /\ toAwake' = {} /\ guard' = NoThread
      /\ sched' = [u \in Threads |-> IF u \in toAwake /\ sched[u] = "asleep" THEN "ready" ELSE sched[u]]
      /\ Rwlock!Enter(t, l, FALSE) /\ UNCHANGED <<world, owner, rq, wq, held>>
  BY <1>l DEF Rwlock!Wake, Rwlock!Awaken, Rwlock!world, world
<1>2. pc'[t] = l /\ timed'[t] = FALSE /\ held'[t] = held[t] /\ RwOthers(t) /\ RwLocals'
  BY <1>1, RwGotoIs, RwReads
<1>3. /\ RwTypes /\ toSleep = {} /\ guard = t /\ held[t] = "none" /\ sched[t] # "asleep"
      /\ ~Contains(rq, t) /\ ~Contains(wq, t) /\ t \notin toAwake
      /\ sched \in [Threads -> SchedStates]
  BY <1>1 DEF RwInv, RwLoadInv, RwGuardInv, RwThreadInv, RwListInv, RwRead, RwWrite, RwTypes, ObjTypeOK
<1>4. \A u \in Threads : u # t => guard # u /\ pc[u] # "wake"
  BY <1>3 DEF RwInv, RwGuardInv
<1>5. /\ sched' \in [Threads -> SchedStates]
      /\ \A u \in Threads : u \notin toAwake => sched'[u] = sched[u]
      /\ \A u \in toAwake : sched'[u] = IF sched[u] = "asleep" THEN "ready" ELSE sched[u]
  <2>1. toAwake \subseteq Threads
    BY <1>3 DEF RwTypes
  <2>2. QED
    BY <1>1, <1>3, <2>1 DEF SchedStates
<1>T. RwTypes'
  BY <1>1, <1>2, <1>3, <1>5 DEF RwTypes, RwLocals, ObjTypeOK, world
<1>F. RwFaultInv'
  BY <1>l, <1>1, <1>2 DEF RwInv, RwFaultInv, RwSaveLabels, RwTimeLabels, RwOthers, world
<1>G. RwGuardInv'
  BY <1>l, <1>1, <1>2, <1>4 DEF RwInv, RwGuardInv, RwOthers
<1>L. RwListInv'
  BY <1>l, <1>1, <1>2, <1>3 DEF RwInv, RwListInv, RwOthers, RwRead, RwWrite, Distinct
<1>R. \A u \in Threads : (RwReader(u)' <=> RwReader(u)) /\ (RwWriter(u)' <=> RwWriter(u))
  BY <1>l, <1>1, <1>2, <1>3 DEF RwReader, RwWriter, RwOthers, RwRead, RwWrite
<1>C. RwCountInv'
  <2>1. RwReaders' = RwReaders
    BY <1>R DEF RwReaders
  <2>2. QED
    BY <1>1, <2>1 DEF RwInv, RwCountInv
<1>Q. \A u \in Threads : (RwWantsR(u)' <=> RwWantsR(u)) /\ (RwWantsW(u)' <=> RwWantsW(u))
  BY <1>1, <1>3 DEF RwWantsR, RwWantsW, world
<1>W. RwWordInv'
  BY <1>l, <1>1, <1>2, <1>R, <1>Q DEF RwInv, RwWordInv, RwOthers, world
<1>H. ASSUME NEW u \in Threads PROVE RwThreadInv(u)'
  <2>1. CASE u = t
    BY <1>l, <1>1, <1>2, <1>3, <1>5, <2>1 DEF RwThreadInv
  <2>2. CASE u # t /\ u \in toAwake
    <3>1. RwThreadInv(u) /\ ~Contains(rq, u) /\ ~Contains(wq, u) /\ pc[u] \in RwRead \union RwWrite
      BY <1>H, <2>2 DEF RwInv, RwListInv, RwThreadInv
    <3>2. pc'[u] = pc[u] /\ held'[u] = held[u]
      BY <1>H, <1>2, <2>2 DEF RwOthers
    <3>3. sched'[u] # "asleep" /\ (pc[u] \in {"r_wait", "w_wait"} => sched'[u] = "ready")
      BY <1>5, <2>2, <3>1 DEF RwThreadInv
    <3>4. QED
      BY <1>1, <3>1, <3>2, <3>3 DEF RwThreadInv, RwRead, RwWrite
  <2>3. CASE u # t /\ u \notin toAwake
    <3>1. RwThreadInv(u) /\ pc'[u] = pc[u] /\ held'[u] = held[u] /\ sched'[u] = sched[u]
      BY <1>H, <1>2, <1>5, <2>3 DEF RwOthers, RwInv
    <3>2. QED
      BY <1>1, <2>3, <3>1 DEF RwThreadInv, world
  <2>4. QED
    BY <2>1, <2>2, <2>3
<1>D. RwLoadInv'
  BY <1>1, <1>3 DEF RwLoadInv, world
<1> QED
  BY <1>T, <1>F, <1>G, <1>L, <1>C, <1>W, <1>H, <1>D DEF RwInv

(***************************************************************************)
(* The scheduler lets a thread run.                                        *)
(***************************************************************************)
LEMMA RwScheduleInv ==
  ASSUME RwInv, NEW t \in Threads, Rwlock!Schedule(t)
  PROVE  RwInv'
<1>1. /\ sched[t] = "ready" /\ sched' = [sched EXCEPT ![t] = "signal"]
      /\ UNCHANGED <<fifo, exists, guard, pc, timed, stopped, toSleep, saves, faults,
                     owner, rq, wq, toAwake, held>>
  BY DEF Rwlock!Schedule, Rwlock!ObjSchedule, Rwlock!own, Rwlock!world
<1>2. sched \in [Threads -> SchedStates] /\ sched' \in [Threads -> SchedStates]
  BY <1>1 DEF RwInv, RwTypes, ObjTypeOK, SchedStates
<1>T. RwTypes'
  BY <1>1, <1>2 DEF RwInv, RwTypes, RwLocals, ObjTypeOK
<1>W. RwFaultInv' /\ RwGuardInv' /\ RwListInv' /\ RwWordInv' /\ RwCountInv' /\ RwLoadInv'
  BY <1>1 DEF RwInv, RwFaultInv, RwGuardInv, RwListInv, RwWordInv, RwCountInv, RwLoadInv, RwReader,
              RwWriter, RwReaders, RwWantsR, RwWantsW
<1>H. ASSUME NEW u \in Threads PROVE RwThreadInv(u)'
  BY <1>1, <1>2, <1>H DEF RwInv, RwThreadInv
<1> QED
  BY <1>T, <1>W, <1>H DEF RwInv

(***************************************************************************)
(* A thread is told to stop.                                               *)
(***************************************************************************)
LEMMA RwStopInv ==
  ASSUME RwInv, NEW t \in Threads, Rwlock!StopThread(t)
  PROVE  RwInv'
<1>1. /\ "save" \in faults /\ saves < MaxSaves /\ stopped' = stopped \union {t}
      /\ UNCHANGED <<fifo, exists, guard, pc, timed, sched, toSleep, saves, faults,
                     owner, rq, wq, toAwake, held>>
  BY DEF Rwlock!StopThread, Rwlock!ObjStop, Rwlock!own
<1>T. RwTypes'
  BY <1>1 DEF RwInv, RwTypes, RwLocals, ObjTypeOK
<1>F. RwFaultInv'
  BY <1>1 DEF RwInv, RwFaultInv
<1>W. RwGuardInv' /\ RwListInv' /\ RwWordInv' /\ RwCountInv' /\ RwLoadInv'
  BY <1>1 DEF RwInv, RwGuardInv, RwListInv, RwWordInv, RwCountInv, RwLoadInv, RwReader,
              RwWriter, RwReaders, RwWantsR, RwWantsW
<1>H. \A u \in Threads : RwThreadInv(u)'
  BY <1>1 DEF RwInv, RwThreadInv
<1> QED
  BY <1>T, <1>F, <1>W, <1>H DEF RwInv

(***************************************************************************)
(* A lock that is free is destroyed.                                       *)
(***************************************************************************)
LEMMA RwDestroyInv ==
  ASSUME RwInv, NEW t \in Threads, Rwlock!Destroy(t)
  PROVE  RwInv'
<1>1. /\ \A u \in Threads : pc[u] \notin {"r_lock", "w_lock"}
      /\ owner = Rwlock!Free /\ exists' = FALSE
      /\ UNCHANGED <<fifo, stopped, toSleep, saves, faults, guard, pc, timed, sched,
                     owner, rq, wq, toAwake, held>>
  BY DEF Rwlock!Destroy, Rwlock!own
<1>T. RwTypes'
  BY <1>1 DEF RwInv, RwTypes, RwLocals, ObjTypeOK
<1>W. RwWordInv'
  BY <1>1 DEF RwInv, RwWordInv, RwReader, RwWriter, RwWantsR, RwWantsW
<1>O. RwFaultInv' /\ RwGuardInv' /\ RwListInv' /\ RwCountInv' /\ RwLoadInv'
  BY <1>1 DEF RwInv, RwFaultInv, RwGuardInv, RwListInv, RwCountInv, RwLoadInv, RwReader, RwReaders
<1>H. \A u \in Threads : RwThreadInv(u)'
  BY <1>1 DEF RwInv, RwThreadInv
<1> QED
  BY <1>T, <1>W, <1>O, <1>H DEF RwInv

(***************************************************************************)
(* The state is saved and loaded: owner keeps its bit, and who was queued  *)
(* is to sleep again.                                                      *)
(***************************************************************************)
LEMMA RwSaveAndLoadInv ==
  ASSUME RwInv, Rwlock!SaveAndLoad
  PROVE  RwInv'
<1> USE ThreadsAssumption
<1>1. /\ stopped = Threads /\ saves' = saves + 1 /\ stopped' = {}
      /\ \A t \in Threads : pc[t] = "idle" \/ pc[t] \in {"a_r", "a_w", "a_ru", "a_wu"}
      /\ toSleep' = {t \in Threads : pc[t] # "idle" /\ sched[t] = "asleep"}
      /\ pc' = [t \in Threads |-> IF pc[t] = "idle" THEN "idle" ELSE Rwlock!Redo[pc[t]]]
      /\ sched' = [t \in Threads |-> "on"]
      /\ rq' = <<>> /\ wq' = <<>>
      /\ UNCHANGED <<fifo, exists, guard, timed, faults, owner, toAwake, held>>
  BY DEF Rwlock!SaveAndLoad, Rwlock!ObjSaveAndLoad, Rwlock!Redo
<1>2. /\ Rwlock!Redo["a_r"] = "r_redo" /\ Rwlock!Redo["a_w"] = "w_redo"
      /\ Rwlock!Redo["a_ru"] = "ru_redo" /\ Rwlock!Redo["a_wu"] = "wu_redo"
  BY DEF Rwlock!Redo
<1>3. \A t \in Threads :
        \/ pc[t] = "idle" /\ pc'[t] = "idle"
        \/ pc[t] = "a_r" /\ pc'[t] = "r_redo"
        \/ pc[t] = "a_w" /\ pc'[t] = "w_redo"
        \/ pc[t] = "a_ru" /\ pc'[t] = "ru_redo"
        \/ pc[t] = "a_wu" /\ pc'[t] = "wu_redo"
  BY <1>1, <1>2
<1>4. \A t \in Threads : sched'[t] = "on"
  BY <1>1
<1>5. \A t \in Threads : t \in toSleep' <=> pc[t] \in {"a_r", "a_w"}
  BY <1>1, <1>3 DEF RwInv, RwThreadInv
<1>6. /\ RwTypes /\ guard = NoThread /\ toAwake = {}
      /\ \A t \in Threads : pc[t] # "idle" => "save" \in faults
  <2>1. RwTypes /\ \A t \in Threads : guard # t
    BY <1>3 DEF RwInv, RwGuardInv
  <2>2. guard = NoThread
    BY <2>1 DEF RwTypes, ObjTypeOK
  <2>3. \A t \in Threads : pc[t] # "idle" => "save" \in faults
    BY <1>3 DEF RwInv, RwFaultInv, RwSaveLabels
  <2>4. QED
    BY <2>1, <2>2, <2>3 DEF RwInv, RwGuardInv
<1>7. \A t \in Threads :
        /\ ~Contains(rq', t) /\ ~Contains(wq', t)
        /\ Contains(rq, t) <=> pc[t] = "a_r"
        /\ Contains(wq, t) <=> pc[t] = "a_w"
  <2>1. \A t \in Threads : ~Contains(rq', t) /\ ~Contains(wq', t)
    BY <1>1 DEF Contains
  <2>2. QED
    BY <1>3, <2>1 DEF RwInv, RwListInv, RwRead, RwWrite
<1>T. RwTypes'
  <2>1. pc' \in [Threads -> Rwlock!PCs]
    <3>1. \A t \in Threads : pc'[t] \in Rwlock!PCs
      BY <1>3 DEF Rwlock!PCs
    <3>2. QED
      BY <1>1, <3>1
  <2>2. sched' \in [Threads -> SchedStates]
    BY <1>1 DEF SchedStates
  <2>3. saves' \in 0..MaxSaves
    <3>1. Threads # {} /\ saves \in 0..MaxSaves
      BY <1>6, MainThreadAssumption DEF RwTypes, ObjTypeOK
    <3>2. saves < MaxSaves
      BY <1>1, <3>1 DEF RwInv, RwFaultInv
    <3>3. QED
      BY <1>1, <3>1, <3>2, SavesAssumption
  <2>4. toSleep' \subseteq Threads /\ stopped' \subseteq Threads
    BY <1>1
  <2>5. rq' \in Seq(Threads) /\ wq' \in Seq(Threads)
    BY <1>1
  <2>6. ObjTypeOK(Rwlock!PCs)'
    BY <1>1, <1>6, <2>1, <2>2, <2>3, <2>4 DEF RwTypes, ObjTypeOK
  <2>7. QED
    BY <1>1, <1>6, <2>1, <2>5, <2>6 DEF RwTypes, RwLocals
<1>F. RwFaultInv'
  <2>1. toSleep' # {} => "save" \in faults'
    BY <1>1, <1>6
  <2>2. \A t \in Threads : pc'[t] \in RwSaveLabels => "save" \in faults'
    BY <1>1, <1>3, <1>6 DEF RwSaveLabels
  <2>3. \A t \in Threads : timed'[t] \/ pc'[t] \in RwTimeLabels => "timeout" \in faults'
    BY <1>1, <1>3 DEF RwInv, RwFaultInv, RwTimeLabels
  <2>4. QED
    BY <1>1, <2>1, <2>2, <2>3 DEF RwFaultInv
<1>G. RwGuardInv'
  BY <1>1, <1>3, <1>6 DEF RwGuardInv
<1>L. RwListInv'
  BY <1>1, <1>3, <1>7 DEF RwListInv, Distinct
<1>R. \A t \in Threads : (RwReader(t)' <=> RwReader(t)) /\ (RwWriter(t)' <=> RwWriter(t))
  BY <1>1, <1>3 DEF RwReader, RwWriter, RwRead, RwWrite
<1>C. RwCountInv'
  <2>1. RwReaders' = RwReaders
    BY <1>R DEF RwReaders
  <2>2. QED
    BY <1>1, <2>1 DEF RwInv, RwCountInv
<1>Q. \A t \in Threads : (RwWantsR(t)' => RwWantsR(t)) /\ (RwWantsW(t)' => RwWantsW(t))
  BY <1>3, <1>5, <1>7 DEF RwWantsR, RwWantsW
<1>S. ASSUME NEW t \in Threads, RwWantsW(t) PROVE toSleep = {} => RwWantsW(t)'
  BY <1>3, <1>5, <1>7, <1>S DEF RwWantsW
<1>W. RwWordInv'
  <2>1. toSleep = {}
    BY <1>3 DEF RwInv, RwTypes, ObjTypeOK, RwLoadInv
  <2>2. QED
    BY <1>1, <1>3, <1>R, <1>Q, <1>S, <2>1 DEF RwInv, RwWordInv
<1>H. ASSUME NEW t \in Threads PROVE RwThreadInv(t)'
  BY <1>1, <1>3, <1>4, <1>5, <1>6, <1>H DEF RwInv, RwThreadInv
<1>D. RwLoadInv'
  BY <1>3, <1>5 DEF RwLoadInv
<1> QED
  BY <1>T, <1>F, <1>G, <1>L, <1>C, <1>W, <1>H, <1>D DEF RwInv

-----------------------------------------------------------------------------
(* The reader-writer lock: every step, and the theorems *)

(***************************************************************************)
(* A call.                                                                 *)
(***************************************************************************)
LEMMA RwCallInv ==
  ASSUME RwInv, NEW t \in Threads, Rwlock!Call(t)
  PROVE  RwInv'
<1>1. ASSUME NEW to \in Rwlock!Timeouts, Rwlock!RLock(t, "idle", to) \/ Rwlock!WLock(t, "idle", to)
      PROVE  RwInv'
  <2>1. to \in BOOLEAN /\ (to => "timeout" \in faults)
    BY <1>1 DEF Rwlock!Timeouts
  <2>2. QED
    BY <1>1, <2>1, RwRLockInv, RwWLockInv
<1>2. QED
  BY <1>1, RwTryInv, RwRUnlockInv, RwWUnlockInv, RwDestroyInv DEF Rwlock!Call

(***************************************************************************)
(* A step of a call, or of one made again.                                 *)
(***************************************************************************)
LEMMA RwCallStepInv ==
  ASSUME OneFault, RwInv, NEW t \in Threads, Rwlock!Step(t)
  PROVE  RwInv'
<1>1. timed[t] \in BOOLEAN /\ (timed[t] => "timeout" \in faults)
  BY RwReads DEF RwInv, RwFaultInv
<1>2. ASSUME Rwlock!RLock(t, "r_redo", timed[t]) \/ Rwlock!WLock(t, "w_redo", timed[t]) PROVE RwInv'
  BY <1>1, <1>2, RwRLockInv, RwWLockInv
<1>3. ASSUME Rwlock!RedoEsrch(t) PROVE RwInv'
  <2>1. pc[t] \in {"r_redo", "w_redo", "ru_redo", "wu_redo"} /\ ~exists
    BY <1>3 DEF Rwlock!RedoEsrch
  <2>2. QED
    BY <2>1, RwNoEsrch
<1>4. QED
  BY <1>2, <1>3, RwRLockSlowInv, RwTakeSignalInv, RwWaitStoppedInv, RwTimeOutCheckInv,
     RwRTimeOutTestInv, RwRTimeOutInv, RwWLockSlowInv, RwWTimeOutInv, RwUnlockRedoInv,
     RwRUnlockSlowInv, RwWUnlockSlowInv, RwWakeInv DEF Rwlock!Step

(***************************************************************************)
(* Every step of the lock keeps its invariant.                             *)
(***************************************************************************)
LEMMA RwNextInv ==
  ASSUME OneFault, RwInv, [Rwlock!Next]_Rwlock!vars
  PROVE  RwInv'
<1>1. ASSUME NEW t \in Threads,
             \/ Rwlock!Call(t) \/ Rwlock!Step(t) \/ Rwlock!Schedule(t) \/ Rwlock!StopThread(t)
             \/ Rwlock!TimeOut(t, "r_wait", "rt_check") \/ Rwlock!TimeOut(t, "w_wait", "wt_check")
      PROVE  RwInv'
  BY <1>1, RwCallInv, RwCallStepInv, RwScheduleInv, RwStopInv, RwTimeOutInv
<1>2. CASE UNCHANGED Rwlock!vars
  <2>1. UNCHANGED <<fifo, exists, guard, pc, timed, sched, stopped, toSleep, saves, faults,
                    owner, rq, wq, toAwake, held>>
    BY <1>2 DEF Rwlock!vars, Rwlock!objVars, Rwlock!own
  <2>2. QED
    BY <2>1 DEF RwInv, RwTypes, RwLocals, ObjTypeOK, RwFaultInv, RwGuardInv, RwListInv, RwWordInv,
                RwCountInv, RwLoadInv, RwThreadInv, RwReader, RwWriter, RwReaders, RwWantsR, RwWantsW
<1>3. QED
  BY <1>1, <1>2, RwSaveAndLoadInv DEF Rwlock!Next

(***************************************************************************)
(* A new lock is free.                                                     *)
(***************************************************************************)
LEMMA RwInitInv ==
  ASSUME Rwlock!Init
  PROVE  RwInv
<1> USE ThreadsAssumption
<1>1. /\ fifo \in BOOLEAN /\ exists = TRUE /\ guard = NoThread
      /\ pc = [t \in Threads |-> "idle"] /\ timed = [t \in Threads |-> FALSE]
      /\ sched = [t \in Threads |-> "on"] /\ stopped = {} /\ toSleep = {} /\ saves = 0
      /\ faults \in Faults
      /\ owner = Rwlock!Free /\ rq = <<>> /\ wq = <<>> /\ toAwake = {}
      /\ held = [t \in Threads |-> "none"]
  BY DEF Rwlock!Init, Rwlock!ObjInit
<1>2. \A t \in Threads : /\ pc[t] = "idle" /\ ~timed[t] /\ sched[t] = "on" /\ held[t] = "none"
                         /\ ~Contains(rq, t) /\ ~Contains(wq, t)
  BY <1>1 DEF Contains
<1>3. owner.writer = NoThread /\ owner.readers = 0 /\ ~owner.waiters
  BY <1>1 DEF Rwlock!Free
<1>T. RwTypes
  <2>1. pc \in [Threads -> Rwlock!PCs] /\ timed \in [Threads -> BOOLEAN]
        /\ held \in [Threads -> {"none", "read", "write"}] /\ sched \in [Threads -> SchedStates]
    BY <1>1 DEF Rwlock!PCs, SchedStates
  <2>2. owner \in RwWord /\ saves \in 0..MaxSaves
    BY <1>1, SavesAssumption DEF RwWord, Rwlock!Free
  <2>3. QED
    BY <1>1, <2>1, <2>2 DEF RwTypes, RwLocals, ObjTypeOK
<1>F. RwFaultInv
  BY <1>1, <1>2 DEF RwFaultInv, RwSaveLabels, RwTimeLabels
<1>G. RwGuardInv
  BY <1>1, <1>2 DEF RwGuardInv
<1>L. RwListInv
  BY <1>1, <1>2 DEF RwListInv, Distinct
<1>R. \A t \in Threads : ~RwReader(t) /\ ~RwWriter(t) /\ ~RwWantsR(t) /\ ~RwWantsW(t)
  BY <1>1, <1>2 DEF RwReader, RwWriter, RwRead, RwWrite, RwWantsR, RwWantsW
<1>C. RwCountInv
  <2>1. RwReaders = {}
    BY <1>R DEF RwReaders
  <2>2. QED
    BY <1>3, <2>1, FS_EmptySet DEF RwCountInv
<1>W. RwWordInv
  BY <1>1, <1>3, <1>R DEF RwWordInv
<1>H. \A t \in Threads : RwThreadInv(t)
  BY <1>1, <1>2 DEF RwThreadInv
<1>D. RwLoadInv
  BY <1>1 DEF RwLoadInv
<1> QED
  BY <1>T, <1>F, <1>G, <1>L, <1>C, <1>W, <1>H, <1>D DEF RwInv

RwlockInv == kind = "rwlock" => RwInv

(***************************************************************************)
(* The invariant of the reader-writer lock holds in the composed           *)
(* specification.                                                          *)
(***************************************************************************)
THEOREM RwlockAmongObjects ==
  ASSUME OneFault
  PROVE  ObjectsSpec => []RwlockInv
<1>1. ObjectsInit => RwlockInv
  BY RwInitInv DEF ObjectsInit, RwlockInv
<1>2. ASSUME RwlockInv, [ObjectsNext]_objectsVars PROVE RwlockInv'
  <2>1. kind' = kind
    BY <1>2 DEF ObjectsNext, objectsVars
  <2>2. kind = "rwlock" => Rwlock!Next \/ UNCHANGED objectsVars
    BY <1>2 DEF ObjectsNext
  <2>3. UNCHANGED objectsVars => UNCHANGED Rwlock!vars
    BY DEF objectsVars, vars, objVars, rwlockVars, Rwlock!vars, Rwlock!objVars, Rwlock!own
  <2>4. QED
    BY <1>2, <2>1, <2>2, <2>3, RwNextInv DEF RwlockInv
<1>3. QED
  BY <1>1, <1>2, PTL DEF ObjectsSpec, objectsVars

(***************************************************************************)
(* The word counts at most all threads.                                    *)
(***************************************************************************)
LEMMA RwType ==
  ASSUME RwInv
  PROVE  Rwlock!TypeOK
<1>1. owner.readers \in 0..Rwlock!Cardinality(Threads)
  <2>1. RwReaders \in SUBSET Threads
    BY DEF RwReaders
  <2>2. Cardinality(RwReaders) <= Cardinality(Threads) /\ Cardinality(Threads) \in Nat
    BY <2>1, ThreadsAssumption, FS_Subset, FS_CardinalityType
  <2>3. owner.readers \in Nat /\ owner.readers <= Cardinality(Threads)
    BY <2>2 DEF RwInv, RwCountInv, RwTypes, RwWord
  <2>4. Rwlock!Cardinality(Threads) = Cardinality(Threads)
    BY RwSame
  <2>5. QED
    BY <2>2, <2>3, <2>4
<1>2. owner \in [writer : Threads \union {NoThread}, readers : 0..Rwlock!Cardinality(Threads),
                 waiters : BOOLEAN]
  BY <1>1 DEF RwInv, RwTypes, RwWord
<1>3. Rwlock!ObjTypeOK(Rwlock!PCs)
  BY DEF RwInv, RwTypes, ObjTypeOK, Rwlock!ObjTypeOK, SchedStates, Rwlock!SchedStates
<1>4. QED
  BY <1>2, <1>3 DEF Rwlock!TypeOK, RwInv, RwTypes, RwLocals

(***************************************************************************)
(* sys_rwlock: who was told CELL_OK by wlock is alone, and owner counts    *)
(* the readers exactly, for any number of threads, any protocol and any    *)
(* number of savestates, as long as timeouts and savestates do not meet.   *)
(***************************************************************************)
THEOREM RwlockExcludes ==
  ASSUME OneFault
  PROVE  ObjectsSpec => []RwlockExclusion
<1>1. ASSUME RwInv PROVE Rwlock!WriterIsAlone
  <2>1. ASSUME NEW t \in Threads, held[t] = "write", NEW u \in Threads \ {t}
        PROVE  owner.writer = t /\ held[u] = "none"
    <3>1. owner.writer = t /\ owner.readers = 0
      BY <1>1, <2>1, ThreadsAssumption DEF RwInv, RwWordInv, RwWriter
    <3>2. held[u] # "write"
      BY <1>1, <2>1, <3>1 DEF RwInv, RwWordInv, RwWriter
    <3>3. held[u] # "read"
      BY <1>1, <2>1, <3>1, RwReaderCounts DEF RwReader
    <3>4. QED
      BY <1>1, <2>1, <3>1, <3>2, <3>3, RwReads
  <2>2. ASSUME NEW t \in Threads, held[t] = "write" PROVE owner.writer = t
    BY <1>1, <2>2 DEF RwInv, RwWordInv, RwWriter
  <2>3. QED
    BY <2>1, <2>2 DEF Rwlock!WriterIsAlone
<1>2. ASSUME RwInv PROVE Rwlock!ReadersAreCounted
  <2>1. RwReaders = {t \in Threads : held[t] = "read"} \union Rwlock!LetIn \union Rwlock!Leaving
    BY RwSame DEF RwReaders, RwReader, RwRead, Rwlock!LetIn, Rwlock!Leaving
  <2>2. QED
    BY <1>2, <2>1, RwSame DEF RwInv, RwCountInv, Rwlock!ReadersAreCounted
<1>3. RwlockInv => RwlockExclusion
  BY <1>1, <1>2, RwType DEF RwlockInv, RwlockExclusion
<1>4. QED
  BY <1>3, RwlockAmongObjects, PTL

(***************************************************************************)
(* sys_rwlock: while anybody is queued the lock is held and its bit is     *)
(* set, and no reader waits behind readers alone, for any number of        *)
(* threads, as long as timeouts and savestates do not meet.                *)
(***************************************************************************)
THEOREM RwlockStrandsNobody ==
  ASSUME OneFault
  PROVE  ObjectsSpec => []RwlockNobodyStranded
<1>1. ASSUME RwInv PROVE Rwlock!QueuedIsAnnounced
  <2>1. SUFFICES ASSUME rq # <<>> \/ wq # <<>>
                 PROVE  owner.waiters /\ (owner.writer # NoThread \/ owner.readers > 0)
    BY DEF Rwlock!QueuedIsAnnounced
  <2>2. \E u \in Threads : Contains(rq, u) \/ Contains(wq, u)
    BY <1>1, <2>1, RwSomebody DEF RwInv, RwTypes
  <2>3. owner.waiters
    BY <1>1, <2>2 DEF RwInv, RwWordInv, RwWantsR, RwWantsW
  <2>4. QED
    BY <1>1, <2>3 DEF RwInv, RwWordInv
<1>2. ASSUME RwInv PROVE Rwlock!ReadersWaitForWriter
  BY <1>2, RwBit DEF Rwlock!ReadersWaitForWriter
<1>3. RwlockInv => RwlockNobodyStranded
  BY <1>1, <1>2 DEF RwlockInv, RwlockNobodyStranded
<1>4. QED
  BY <1>3, RwlockAmongObjects, PTL

(***************************************************************************)
(* sys_rwlock: nobody that was let in sleeps on unseen, awake comes while  *)
(* its thread is still in the call, the loop with which a timed-out writer *)
(* empties the readers' queue ends, and loaded waiters sleep again: the    *)
(* loop hangs only where a timeout and a savestate meet.                   *)
(***************************************************************************)
THEOREM RwlockWakeups ==
  ASSUME OneFault
  PROVE  ObjectsSpec =>
           [](kind = "rwlock" => /\ Rwlock!LetInIsSeen /\ Rwlock!AwakeIsOnTime
                                 /\ Rwlock!ReaderLoopEnds /\ RedoSleeps)
<1>1. ASSUME RwInv PROVE Rwlock!LetInIsSeen
  <2>1. rq \in Seq(Threads) /\ wq \in Seq(Threads)
    BY <1>1 DEF RwInv, RwTypes
  <2>2. ASSUME NEW t \in Threads, Contains(rq, t) \/ Contains(wq, t) PROVE Contains(rq \o wq, t)
    <3>1. CASE Contains(rq, t)
      <4>1. PICK i \in 1..Len(rq) : rq[i] = t
        BY <3>1 DEF Contains
      <4>2. i \in 1..Len(rq \o wq) /\ (rq \o wq)[i] = t
        BY <2>1, <4>1
      <4>3. QED
        BY <4>2 DEF Contains
    <3>2. CASE Contains(wq, t)
      <4>1. PICK i \in 1..Len(wq) : wq[i] = t
        BY <3>2 DEF Contains
      <4>2. Len(rq) + i \in 1..Len(rq \o wq) /\ (rq \o wq)[Len(rq) + i] = t
        BY <2>1, <4>1
      <4>3. QED
        BY <4>2 DEF Contains
    <3>3. QED
      BY <2>2, <3>1, <3>2
  <2>3. QED
    BY <1>1, <2>2, RwSame DEF Rwlock!LetInIsSeen, RwInv, RwThreadInv
<1>2. ASSUME RwInv PROVE Rwlock!AwakeIsOnTime
  BY <1>2 DEF Rwlock!AwakeIsOnTime, RwInv, RwTypes, RwThreadInv, RwRead, RwWrite
<1>3. ASSUME RwInv PROVE Rwlock!ReaderLoopEnds
  BY <1>3 DEF Rwlock!ReaderLoopEnds, RwInv, RwGuardInv
<1>4. ASSUME RwInv PROVE RedoSleeps
  BY <1>4 DEF RedoSleeps, RwInv, RwTypes, ObjTypeOK, RwLoadInv
<1>5. RwlockInv => (kind = "rwlock" => /\ Rwlock!LetInIsSeen /\ Rwlock!AwakeIsOnTime
                                       /\ Rwlock!ReaderLoopEnds /\ RedoSleeps)
  BY <1>1, <1>2, <1>3, <1>4 DEF RwlockInv
<1>6. QED
  BY <1>5, RwlockAmongObjects, PTL

-----------------------------------------------------------------------------
(* Timers *)

\* Guests call only for timers that expire once: where they call for a periodic
\* timer while the timer thread is about to lock it, the thread forgets it.
AskedOnce == Asked \subseteq {0}

\* The timer thread has been told to look again, or will be.
Told == poked \/ \E t \in {t1} : calling[t] = "poke"

\* Unless told to look again, the timer thread has a finite sleep in mind, or
\* every running timer still in front of it.
TimerWatch ==
  \/ Told
  \/ /\ tpc = "sleep" /\ forever => \A m \in Timers : ~run[m]
     /\ tpc # "sleep" /\ forever => \A m \in Timers : run[m] => m \in todo
     /\ tpc = "lock" /\ run[cur] => tnow >= expire[cur]

TimerInv == Timer!TypeOK /\ TimerWatch /\ Timer!OneEventEach

TimersInv == kind = "timer" => TimerInv

(***************************************************************************)
(* Rounding the time of the start down to the period gives a time between  *)
(* one period before it and itself.                                        *)
(***************************************************************************)
LEMMA ModBounds ==
  ASSUME NEW a \in Nat, NEW p \in Nat, p > 0
  PROVE  a % p \in Nat /\ a % p < p /\ a % p <= a
<1>1. a = p * (a \div p) + (a % p) /\ a % p \in 0..(p - 1) /\ a \div p \in Int
  OBVIOUS
<1>2. a \div p >= 0
  <2>1. SUFFICES ASSUME a \div p <= -1 PROVE FALSE
    BY <1>1
  <2>2. p * (a \div p) <= p * (-1)
    BY <1>1, <2>1
  <2>3. QED
    BY <1>1, <2>2
<1>3. p * (a \div p) >= 0
  BY <1>1, <1>2
<1>4. QED
  BY <1>1, <1>3

(***************************************************************************)
(* A timer is set to a moment.                                             *)
(***************************************************************************)
LEMMA StartTimeType ==
  ASSUME NEW s \in Nat, NEW b \in Nat, NEW p \in Nat
  PROVE  Timer!StartTime(s, b, p) \in Nat
<1>1. CASE p = 0
  BY <1>1 DEF Timer!StartTime
<1>2. CASE p > 0
  <2>1. s % p \in Nat /\ s % p <= s /\ b % p \in Nat
    BY <1>2, ModBounds
  <2>2. QED
    BY <1>2, <2>1 DEF Timer!StartTime
<1>3. QED
  BY <1>1, <1>2

(***************************************************************************)
(* check_unlocked keeps the types of a timer and its number of events.     *)
(***************************************************************************)
LEMMA TimerExpires ==
  ASSUME TimerInv, NEW m \in Timers, NEW time \in 0..MaxTime,
         Timer!Bounded, Timer!CheckUnlocked(m, time)
  PROVE  /\ run' \in [Timers -> BOOLEAN] /\ expire' \in [Timers -> Nat] /\ first' \in [Timers -> Nat]
         /\ period' \in [Timers -> Periods \union {0}] /\ sends' \in [Timers -> 0..MaxTicks]
         /\ Timer!OneEventEach'
         /\ \A i \in Timers : run'[i] => run[i]
         /\ \A i \in Timers : i # m => run'[i] = run[i] /\ expire'[i] = expire[i]
<1> USE TimersAssumption
<1>1. /\ run \in [Timers -> BOOLEAN] /\ expire \in [Timers -> Nat] /\ first \in [Timers -> Nat]
      /\ period \in [Timers -> Nat] /\ sends \in [Timers -> 0..MaxTicks]
      /\ period \in [Timers -> Periods \union {0}]
  <2>1. /\ run \in [Timers -> BOOLEAN] /\ expire \in [Timers -> Nat] /\ first \in [Timers -> Nat]
        /\ sends \in [Timers -> 0..MaxTicks] /\ period \in [Timers -> Periods \union {0}]
    BY DEF TimerInv, Timer!TypeOK
  <2>2. Periods \union {0} \subseteq Nat
    OBVIOUS
  <2>3. QED
    BY <2>1, <2>2
<1>2. CASE ~Timer!Due(m, time)
  <2>1. run' = run /\ expire' = expire /\ first' = first /\ period' = period /\ sends' = sends
    BY <1>2 DEF Timer!CheckUnlocked
  <2>2. QED
    BY <1>1, <2>1 DEF TimerInv, Timer!OneEventEach
<1>3. CASE Timer!Due(m, time)
  <2>1. /\ sends' = [sends EXCEPT ![m] = @ + 1]
        /\ expire' = [expire EXCEPT ![m] = @ + period[m]]
        /\ run' = [run EXCEPT ![m] = period[m] > 0]
        /\ period' = period /\ first' = first
    BY <1>3 DEF Timer!CheckUnlocked, Timer!Expire
  <2>2. run[m] /\ sends[m] < MaxTicks
    BY <1>3 DEF Timer!Due, Timer!Bounded
  <2>3. sends' \in [Timers -> 0..MaxTicks]
    BY <1>1, <2>1, <2>2
  <2>4. run' \in [Timers -> BOOLEAN] /\ expire' \in [Timers -> Nat]
    BY <1>1, <2>1
  <2>5. ASSUME NEW i \in Timers
        PROVE  IF period'[i] = 0 THEN sends'[i] <= IF run'[i] THEN 0 ELSE 1
               ELSE run'[i] => expire'[i] = first'[i] + sends'[i] * period'[i]
    <3>1. IF period[i] = 0 THEN sends[i] <= IF run[i] THEN 0 ELSE 1
          ELSE run[i] => expire[i] = first[i] + sends[i] * period[i]
      BY DEF TimerInv, Timer!OneEventEach
    <3>2. CASE i = m /\ period[m] = 0
      <4>1. sends[m] = 0 /\ sends'[m] = 1
        BY <1>1, <2>1, <2>2, <3>1, <3>2
      <4>2. ~run'[m] /\ period'[m] = 0
        <5>1. ~(period[m] > 0) /\ period'[m] = 0
          BY <2>1, <3>2
        <5>2. run'[m] = (period[m] > 0)
          BY <1>1, <2>1, Zenon
        <5>3. QED
          BY <5>1, <5>2
      <4>3. QED
        BY <3>2, <4>1, <4>2
    <3>3. CASE i = m /\ period[m] # 0
      <4>1. (sends[m] + 1) * period[m] = sends[m] * period[m] + period[m]
        BY <1>1
      <4>2. sends[m] * period[m] \in Nat
        BY <1>1
      <4>3. expire[m] = first[m] + sends[m] * period[m]
        BY <2>2, <3>1, <3>3
      <4>4. expire'[m] = first[m] + (sends[m] + 1) * period[m]
        BY <1>1, <2>1, <4>1, <4>2, <4>3
      <4>5. QED
        BY <1>1, <2>1, <3>3, <4>4
    <3>4. CASE i # m
      BY <1>1, <2>1, <3>1, <3>4
    <3>5. QED
      BY <3>2, <3>3, <3>4
  <2>6. Timer!OneEventEach'
    BY <2>5 DEF Timer!OneEventEach
  <2>7. QED
    BY <1>1, <2>1, <2>2, <2>3, <2>4, <2>6
<1>4. QED
  BY <1>2, <1>3

(***************************************************************************)
(* A look of the timer thread, or its sleep.                               *)
(***************************************************************************)
LEMMA TimerThread ==
  ASSUME TimerInv, Timer!Bounded, Timer!Thread
  PROVE  TimerInv'
<1> USE TimersAssumption
<1>1. /\ run \in [Timers -> BOOLEAN] /\ expire \in [Timers -> Nat] /\ tnow \in 0..MaxTime
      /\ todo \subseteq Timers /\ cur \in Timers /\ forever \in BOOLEAN /\ poked \in BOOLEAN
      /\ clock \in 0..MaxTime
  BY DEF TimerInv, Timer!TypeOK
<1>2. CASE Timer!ThreadWake
  <2>1. Timer!TypeOK'
    BY <1>2 DEF TimerInv, Timer!TypeOK, Timer!ThreadWake, Timer!timerVars
  <2>2. Timer!OneEventEach'
    BY <1>2 DEF TimerInv, Timer!OneEventEach, Timer!ThreadWake, Timer!timerVars
  <2>3. TimerWatch'
    BY <1>2, <1>1 DEF TimerWatch, Timer!ThreadWake, Timer!timerVars
  <2>4. QED
    BY <2>1, <2>2, <2>3 DEF TimerInv
<1>3. ASSUME NEW m \in Timers, Timer!ThreadLook(m) PROVE TimerInv'
  <2>1. Timer!TypeOK'
    BY <1>3 DEF TimerInv, Timer!TypeOK, Timer!ThreadLook, Timer!timerVars
  <2>2. Timer!OneEventEach'
    BY <1>3 DEF TimerInv, Timer!OneEventEach, Timer!ThreadLook, Timer!timerVars
  <2>3. TimerWatch'
    BY <1>3, <1>1 DEF TimerInv, TimerWatch, Told, Timer!ThreadLook, Timer!timerVars, Timer!Due
  <2>4. QED
    BY <2>1, <2>2, <2>3 DEF TimerInv
<1>4. CASE Timer!ThreadCheck
  <2>1. Timer!CheckUnlocked(cur, tnow)
    BY <1>4 DEF Timer!ThreadCheck
  <2>2. /\ run' \in [Timers -> BOOLEAN] /\ expire' \in [Timers -> Nat] /\ first' \in [Timers -> Nat]
        /\ period' \in [Timers -> Periods \union {0}] /\ sends' \in [Timers -> 0..MaxTicks]
        /\ Timer!OneEventEach'
        /\ \A i \in Timers : run'[i] => run[i]
        /\ \A i \in Timers : i # cur => run'[i] = run[i] /\ expire'[i] = expire[i]
    BY <1>1, <2>1, TimerExpires
  <2>3. Timer!TypeOK'
    BY <1>4, <2>2 DEF TimerInv, Timer!TypeOK, Timer!ThreadCheck
  <2>4. /\ poked' = poked /\ calling' = calling /\ cur' = cur /\ tnow' = tnow
        /\ tpc = "lock" /\ tpc' = "scan"
    BY <1>4 DEF Timer!ThreadCheck
  <2>5. ASSUME Told PROVE TimerWatch'
    BY <2>4, <2>5 DEF Told, TimerWatch
  <2>6. ASSUME ~Told PROVE TimerWatch'
    <3>1. /\ forever => \A m \in Timers : run[m] => m \in todo
          /\ run[cur] => tnow >= expire[cur]
      BY <2>4, <2>6 DEF TimerInv, TimerWatch
    <3>2. \/ todo' = todo /\ forever' = forever
          \/ todo' = todo \ {cur} /\ forever' = (forever /\ ~(Timer!Due(cur, tnow) /\ run'[cur]))
      BY <1>4 DEF Timer!ThreadCheck
    <3>3. run'[cur] => Timer!Due(cur, tnow)
      BY <1>1, <2>2, <3>1 DEF Timer!Due
    <3>4. forever' => \A m \in Timers : run'[m] => m \in todo'
      BY <1>1, <2>2, <3>1, <3>2, <3>3
    <3>5. QED
      BY <2>4, <3>4 DEF TimerWatch
  <2>7. QED
    BY <2>2, <2>3, <2>5, <2>6 DEF TimerInv
<1>5. CASE Timer!ThreadSleep
  <2>1. Timer!TypeOK'
    BY <1>5 DEF TimerInv, Timer!TypeOK, Timer!ThreadSleep, Timer!timerVars
  <2>2. Timer!OneEventEach'
    BY <1>5 DEF TimerInv, Timer!OneEventEach, Timer!ThreadSleep, Timer!timerVars
  <2>3. TimerWatch'
    BY <1>5, <1>1 DEF TimerInv, TimerWatch, Told, Timer!ThreadSleep, Timer!timerVars
  <2>4. QED
    BY <2>1, <2>2, <2>3 DEF TimerInv
<1>6. QED
  BY <1>2, <1>3, <1>4, <1>5 DEF Timer!Thread

(***************************************************************************)
(* A call of a guest, or the passing of time.                              *)
(***************************************************************************)
LEMMA TimerCall ==
  ASSUME AskedOnce, TimerInv, NEW t \in {t1},
         \/ Timer!Begin(t) \/ Timer!Poke(t)
         \/ \E m \in Timers :
              \/ \E p \in Periods, base \in 0..MaxTime : Timer!Start(t, m, base, p)
              \/ Timer!Bounded /\ Timer!GetInformation(t, m)
              \/ Timer!Bounded /\ \E disconnect \in BOOLEAN : Timer!Stop(t, m, disconnect)
              \/ Timer!Connect(t, m)
  PROVE  TimerInv'
<1> USE TimersAssumption
<1>1. /\ run \in [Timers -> BOOLEAN] /\ expire \in [Timers -> Nat] /\ tnow \in 0..MaxTime
      /\ todo \subseteq Timers /\ cur \in Timers /\ forever \in BOOLEAN /\ poked \in BOOLEAN
      /\ clock \in 0..MaxTime /\ calling \in [{t1} -> {"idle", "call", "poke"}]
      /\ now \in [{t1} -> 0..MaxTime] /\ connected \in [Timers -> BOOLEAN]
      /\ first \in [Timers -> Nat] /\ sends \in [Timers -> 0..MaxTicks]
      /\ period \in [Timers -> Periods \union {0}]
  BY DEF TimerInv, Timer!TypeOK
<1>2. now[t] \in 0..MaxTime /\ Periods \union {0} \subseteq Nat
  BY <1>1
<1>3. CASE Timer!Begin(t)
  <2>1. Timer!TypeOK'
    BY <1>3 DEF TimerInv, Timer!TypeOK, Timer!Begin, Timer!timerVars, Timer!threadVars
  <2>2. Timer!OneEventEach'
    BY <1>3 DEF TimerInv, Timer!OneEventEach, Timer!Begin, Timer!timerVars
  <2>3. TimerWatch'
    BY <1>3, <1>1 DEF TimerInv, TimerWatch, Told, Timer!Begin, Timer!timerVars, Timer!threadVars
  <2>4. QED
    BY <2>1, <2>2, <2>3 DEF TimerInv
<1>4. CASE Timer!Poke(t)
  <2>1. Timer!TypeOK'
    BY <1>4 DEF TimerInv, Timer!TypeOK, Timer!Poke, Timer!timerVars
  <2>2. Timer!OneEventEach'
    BY <1>4 DEF TimerInv, Timer!OneEventEach, Timer!Poke, Timer!timerVars
  <2>3. TimerWatch'
    BY <1>4 DEF TimerWatch, Told, Timer!Poke
  <2>4. QED
    BY <2>1, <2>2, <2>3 DEF TimerInv
<1>5. ASSUME NEW m \in Timers, NEW p \in Periods, NEW base \in 0..MaxTime, Timer!Start(t, m, base, p)
      PROVE  TimerInv'
  <2>1. PICK e \in Nat : e = Timer!StartTime(now[t], base, p)
    <3>1. now[t] \in Nat /\ base \in Nat /\ p \in Nat
      BY <1>2
    <3>2. QED
      BY <3>1, StartTimeType
  <2>2. /\ expire' = [expire EXCEPT ![m] = e]
        /\ sends' = [sends EXCEPT ![m] = 0] /\ period' = [period EXCEPT ![m] = p]
        /\ run' = [run EXCEPT ![m] = TRUE]
    BY <1>5, <2>1 DEF Timer!Start
  <2>3. first' = [first EXCEPT ![m] = e]
    BY <1>1, <1>5, <2>2 DEF Timer!Start
  <2>4. calling' = [calling EXCEPT ![t] = "poke"] /\ now' = [now EXCEPT ![t] = 0] /\ clock' = clock
    BY <1>5 DEF Timer!Start, Timer!Calling
  <2>5. connected' = connected /\ UNCHANGED <<tpc, tnow, todo, cur, forever, poked>>
    BY <1>5 DEF Timer!Start, Timer!threadVars
  <2>6. Timer!TypeOK'
    BY <1>1, <2>2, <2>3, <2>4, <2>5 DEF TimerInv, Timer!TypeOK
  <2>7. ASSUME NEW i \in Timers
        PROVE  IF period'[i] = 0 THEN sends'[i] <= IF run'[i] THEN 0 ELSE 1
               ELSE run'[i] => expire'[i] = first'[i] + sends'[i] * period'[i]
    <3>1. CASE i = m
      <4>1. sends'[i] = 0 /\ expire'[i] = e /\ first'[i] = e /\ period'[i] \in Nat
        BY <1>1, <1>2, <2>2, <2>3, <3>1
      <4>2. QED
        BY <4>1
    <3>2. CASE i # m
      BY <1>1, <2>2, <2>3, <3>2 DEF TimerInv, Timer!OneEventEach
    <3>3. QED
      BY <3>1, <3>2
  <2>8. Timer!OneEventEach'
    BY <2>7 DEF Timer!OneEventEach
  <2>9. TimerWatch'
    BY <1>1, <2>4 DEF TimerWatch, Told
  <2>10. QED
    BY <2>6, <2>8, <2>9 DEF TimerInv
<1>6. ASSUME NEW m \in Timers, Timer!Bounded, Timer!GetInformation(t, m) PROVE TimerInv'
  <2>1. Timer!CheckUnlocked(m, now[t])
    BY <1>6 DEF Timer!GetInformation
  <2>2. /\ run' \in [Timers -> BOOLEAN] /\ expire' \in [Timers -> Nat] /\ first' \in [Timers -> Nat]
        /\ period' \in [Timers -> Periods \union {0}] /\ sends' \in [Timers -> 0..MaxTicks]
        /\ Timer!OneEventEach'
        /\ \A i \in Timers : run'[i] => run[i]
        /\ \A i \in Timers : i # m => run'[i] = run[i] /\ expire'[i] = expire[i]
    BY <1>2, <1>6, <2>1, TimerExpires
  <2>3. calling[t] = "call" /\ calling' = [calling EXCEPT ![t] = "idle"]
        /\ now' = [now EXCEPT ![t] = 0] /\ clock' = clock
    BY <1>6 DEF Timer!GetInformation, Timer!Calling
  <2>4. connected' = connected /\ UNCHANGED <<tpc, tnow, todo, cur, forever, poked>>
    BY <1>6 DEF Timer!GetInformation, Timer!threadVars
  <2>5. Timer!TypeOK'
    BY <1>1, <2>2, <2>3, <2>4 DEF TimerInv, Timer!TypeOK
  <2>6. \/ run' = run /\ expire' = expire
        \/ ~run'[m]
    <3>1. CASE ~Timer!Due(m, now[t])
      BY <2>1, <3>1 DEF Timer!CheckUnlocked
    <3>2. CASE Timer!Due(m, now[t])
      <4>1. period[m] = 0
        BY <1>6, <3>2 DEF Timer!GetInformation, Timer!Due, AskedOnce
      <4>2. QED
        <5>1. run' = [run EXCEPT ![m] = period[m] > 0]
          BY <2>1, <3>2 DEF Timer!CheckUnlocked, Timer!Expire
        <5>2. run'[m] = (period[m] > 0)
          BY <1>1, <5>1, Zenon
        <5>3. ~(period[m] > 0)
          BY <4>1
        <5>4. QED
          BY <5>2, <5>3
    <3>3. QED
      BY <3>1, <3>2
  <2>7. TimerWatch'
    BY <1>1, <2>2, <2>3, <2>4, <2>6 DEF TimerInv, TimerWatch, Told
  <2>8. QED
    BY <2>2, <2>5, <2>7 DEF TimerInv
<1>7. ASSUME NEW m \in Timers, Timer!Bounded, NEW disconnect \in BOOLEAN, Timer!Stop(t, m, disconnect)
      PROVE  TimerInv'
  <2>1. calling[t] = "call" /\ calling' = [calling EXCEPT ![t] = "idle"]
        /\ now' = [now EXCEPT ![t] = 0] /\ clock' = clock
    BY <1>7 DEF Timer!Stop, Timer!Calling
  <2>2. /\ run' = [run EXCEPT ![m] = FALSE] /\ period' = period /\ first' = first
        /\ connected' = [connected EXCEPT ![m] = ~disconnect]
        /\ UNCHANGED <<tpc, tnow, todo, cur, forever, poked>>
    BY <1>7 DEF Timer!Stop, Timer!threadVars
  <2>3. \/ run[m] /\ sends' = [sends EXCEPT ![m] = @ + 1]
            /\ expire' = [expire EXCEPT ![m] = @ + period[m]]
        \/ sends' = sends /\ expire' = expire
    BY <1>1, <1>7 DEF Timer!Stop, Timer!Due
  <2>4. sends[m] < MaxTicks
    BY <1>7 DEF Timer!Bounded
  <2>5. sends' \in [Timers -> 0..MaxTicks] /\ expire' \in [Timers -> Nat]
    <3>1. sends' \in [Timers -> 0..MaxTicks]
      <4>1. CASE sends' = [sends EXCEPT ![m] = @ + 1]
        BY <1>1, <2>4, <4>1
      <4>2. QED
        BY <1>1, <2>3, <4>1
    <3>2. expire' \in [Timers -> Nat]
      <4>1. CASE expire' = [expire EXCEPT ![m] = @ + period[m]]
        <5>1. expire[m] \in Nat /\ period[m] \in Nat
          BY <1>1, <1>2
        <5>2. QED
          BY <1>1, <4>1, <5>1
      <4>2. QED
        BY <1>1, <2>3, <4>1
    <3>3. QED
      BY <3>1, <3>2
  <2>6. Timer!TypeOK'
    <3>1. connected' \in [Timers -> BOOLEAN] /\ run' \in [Timers -> BOOLEAN]
      BY <1>1, <2>2
    <3>2. calling' \in [{t1} -> {"idle", "call", "poke"}] /\ now' \in [{t1} -> 0..MaxTime]
      BY <1>1, <2>1
    <3>3. QED
      BY <2>1, <2>2, <2>5, <3>1, <3>2 DEF TimerInv, Timer!TypeOK
  <2>7. ASSUME NEW i \in Timers
        PROVE  IF period'[i] = 0 THEN sends'[i] <= IF run'[i] THEN 0 ELSE 1
               ELSE run'[i] => expire'[i] = first'[i] + sends'[i] * period'[i]
    <3>1. CASE i = m
      <4>1. ~run'[i] /\ period'[i] = period[i]
        BY <1>1, <2>2, <3>1
      <4>2. period[i] = 0 => sends[i] <= IF run[i] THEN 0 ELSE 1
        BY DEF TimerInv, Timer!OneEventEach
      <4>3. period[i] = 0 => sends'[i] <= 1
        BY <1>1, <2>3, <3>1, <4>2
      <4>4. QED
        BY <4>1, <4>3
    <3>2. CASE i # m
      BY <1>1, <2>2, <2>3, <3>2 DEF TimerInv, Timer!OneEventEach
    <3>3. QED
      BY <3>1, <3>2
  <2>8. Timer!OneEventEach'
    BY <2>7 DEF Timer!OneEventEach
  <2>9. \A i \in Timers : run'[i] => run[i] /\ expire'[i] = expire[i]
    BY <1>1, <2>2, <2>3
  <2>10. TimerWatch'
    BY <1>1, <2>1, <2>2, <2>9 DEF TimerInv, TimerWatch, Told
  <2>11. QED
    BY <2>6, <2>8, <2>10 DEF TimerInv
<1>8. ASSUME NEW m \in Timers, Timer!Connect(t, m) PROVE TimerInv'
  <2>1. Timer!TypeOK'
    BY <1>1, <1>8 DEF TimerInv, Timer!TypeOK, Timer!Connect, Timer!Calling, Timer!threadVars
  <2>2. Timer!OneEventEach'
    BY <1>8 DEF TimerInv, Timer!OneEventEach, Timer!Connect
  <2>3. TimerWatch'
    BY <1>8, <1>1 DEF TimerInv, TimerWatch, Told, Timer!Connect, Timer!Calling, Timer!threadVars
  <2>4. QED
    BY <2>1, <2>2, <2>3 DEF TimerInv
<1>9. QED
  BY <1>3, <1>4, <1>5, <1>6, <1>7, <1>8

(***************************************************************************)
(* The timers start out stopped, and every step keeps them watched and     *)
(* their events counted.                                                   *)
(***************************************************************************)
THEOREM TimersAmongObjects ==
  ASSUME AskedOnce
  PROVE  ObjectsSpec => []TimersInv
<1> USE TimersAssumption
<1>1. ASSUME ObjectsInit PROVE TimersInv
  <2>1. Timer!Init
    BY <1>1 DEF ObjectsInit
  <2>2. Timer!TypeOK
    <3>1. cur \in Timers
      BY <2>1 DEF Timer!Init
    <3>2. 0 \in 0..MaxTime /\ 0 \in 0..MaxTicks
      OBVIOUS
    <3>3. QED
      BY <2>1, <3>1, <3>2 DEF Timer!Init, Timer!TypeOK
  <2>3. TimerWatch
    BY <2>1 DEF Timer!Init, TimerWatch
  <2>4. Timer!OneEventEach
    BY <2>1 DEF Timer!Init, Timer!OneEventEach
  <2>5. QED
    BY <2>2, <2>3, <2>4 DEF TimersInv, TimerInv
<1>2. ASSUME TimersInv, [ObjectsNext]_objectsVars PROVE TimersInv'
  <2>1. kind' = kind
    BY <1>2 DEF ObjectsNext, objectsVars
  <2>2. SUFFICES ASSUME kind = "timer" PROVE TimerInv'
    BY <2>1 DEF TimersInv
  <2>3. TimerInv
    BY <1>2, <2>2 DEF TimersInv
  <2>4. Timer!Next \/ UNCHANGED timerVars
    BY <1>2, <2>2 DEF ObjectsNext, objectsVars
  <2>5. CASE Timer!Bounded /\ Timer!Thread
    BY <2>3, <2>5, TimerThread
  <2>6. CASE Timer!Tick
    <3>1. Timer!TypeOK'
      BY <2>3, <2>6 DEF TimerInv, Timer!TypeOK, Timer!Tick, Timer!timerVars, Timer!threadVars
    <3>2. Timer!OneEventEach'
      BY <2>3, <2>6 DEF TimerInv, Timer!OneEventEach, Timer!Tick, Timer!timerVars
    <3>3. TimerWatch'
      BY <2>3, <2>6 DEF TimerInv, TimerWatch, Told, Timer!Tick, Timer!timerVars, Timer!threadVars
    <3>4. QED
      BY <3>1, <3>2, <3>3 DEF TimerInv
  <2>7. CASE UNCHANGED timerVars
    <3>1. Timer!TypeOK'
      BY <2>3, <2>7 DEF TimerInv, Timer!TypeOK, timerVars
    <3>2. Timer!OneEventEach'
      BY <2>3, <2>7 DEF TimerInv, Timer!OneEventEach, timerVars
    <3>3. TimerWatch'
      BY <2>3, <2>7 DEF TimerInv, TimerWatch, Told, timerVars
    <3>4. QED
      BY <3>1, <3>2, <3>3 DEF TimerInv
  <2>8. QED
    BY <2>3, <2>4, <2>5, <2>6, <2>7, TimerCall DEF Timer!Next
<1>3. QED
  BY <1>1, <1>2, PTL DEF ObjectsSpec, objectsVars

(***************************************************************************)
(* What is left of a number after dividing it by the period.               *)
(***************************************************************************)
LEMMA DivMod ==
  ASSUME NEW a \in Nat, NEW p \in Nat, p > 0
  PROVE  \E q \in Int : a = q * p + (a % p)
<1>1. a = p * (a \div p) + (a % p) /\ a \div p \in Int
  OBVIOUS
<1>2. p * (a \div p) = (a \div p) * p
  BY <1>1
<1>3. QED
  BY <1>1, <1>2

(***************************************************************************)
(* A multiple of the period that is at least one period is at least once   *)
(* the period.                                                             *)
(***************************************************************************)
LEMMA MulOrder ==
  ASSUME NEW i \in Int, NEW k \in Int, NEW p \in Nat, p > 0
  PROVE  /\ i * p \in Int
         /\ i < k => i * p <= k * p - p
         /\ i * p < k * p => i < k
<1>1. i * p \in Int /\ k * p \in Int
  OBVIOUS
<1>2. ASSUME i < k PROVE i * p <= k * p - p
  <2>1. PICK d \in Nat : k = i + d + 1
    <3>1. k = i + (k - i - 1) + 1 /\ k - i - 1 \in Nat
      BY <1>2
    <3>2. QED
      BY <3>1
  <2>2. k * p = i * p + d * p + p
    BY <2>1
  <2>3. d * p \in Nat
    OBVIOUS
  <2>4. QED
    BY <1>1, <2>2, <2>3
<1>3. ASSUME i * p < k * p PROVE i < k
  <2>1. SUFFICES ASSUME k <= i PROVE FALSE
    OBVIOUS
  <2>2. PICK d \in Nat : i = k + d
    <3>1. i = k + (i - k) /\ i - k \in Nat
      BY <2>1
    <3>2. QED
      BY <3>1
  <2>3. i * p = k * p + d * p
    BY <2>2
  <2>4. d * p \in Nat
    OBVIOUS
  <2>5. QED
    BY <1>1, <1>3, <2>3, <2>4
<1>4. QED
  BY <1>1, <1>2, <1>3

(***************************************************************************)
(* The division in StartTime gives the first multiple of the period after  *)
(* base, one period or more, that is not before the start.                 *)
(***************************************************************************)
LEMMA StartTimeIs ==
  ASSUME NEW s \in Nat, NEW b \in Nat, b > 0, NEW p \in Nat, p > 0
  PROVE  \E k \in Nat : /\ k >= 1 /\ Timer!StartTime(s, b, p) = b + k * p
                        /\ b + k * p >= s
                        /\ k = 1 \/ b + k * p - p < s
<1>1. CASE s < b + p
  <2>1. Timer!StartTime(s, b, p) = b + 1 * p
    BY <1>1 DEF Timer!StartTime
  <2>2. QED
    BY <1>1, <2>1
<1>2. CASE s >= b + p
  <2>1. PICK x \in Int : s = x * p + (s % p)
    BY DivMod
  <2>2. PICK y \in Int : b = y * p + (b % p)
    BY DivMod
  <2>3. /\ s % p \in Nat /\ s % p < p
        /\ b % p \in Nat /\ b % p < p
    BY ModBounds
  <2>4. x * p \in Int /\ y * p \in Int /\ (x - y) * p = x * p - y * p
    OBVIOUS
  <2>5. PICK r0 \in Int : r0 = (s - (s % p)) + (b % p)
    BY <2>3
  <2>6. r0 = b + (x - y) * p
    BY <2>1, <2>2, <2>3, <2>4, <2>5
  <2>7. Timer!StartTime(s, b, p) = IF r0 < s THEN r0 + p ELSE r0
    BY <1>2, <2>5 DEF Timer!StartTime
  <2>8. PICK k \in Int : k = IF r0 < s THEN x - y + 1 ELSE x - y
    <3>1. x - y + 1 \in Int /\ x - y \in Int
      OBVIOUS
    <3>2. QED
      BY <3>1
  <2>9. (x - y + 1) * p = (x - y) * p + p
    OBVIOUS
  <2>10. Timer!StartTime(s, b, p) = b + k * p
    BY <2>4, <2>6, <2>7, <2>8, <2>9
  <2>11. k * p \in Int /\ b + k * p = IF r0 < s THEN r0 + p ELSE r0
    BY <2>4, <2>6, <2>8, <2>9
  <2>12. b + k * p >= s /\ b + k * p - p < s
    BY <2>3, <2>5, <2>11
  <2>13. k >= 1
    <3>1. 0 * p = 0
      OBVIOUS
    <3>2. 0 * p < k * p
      BY <1>2, <2>11, <2>12, <3>1
    <3>3. QED
      BY <3>2, MulOrder
  <2>14. QED
    BY <2>10, <2>12, <2>13
<1>3. QED
  BY <1>1, <1>2

(***************************************************************************)
(* The division replaces the loop of LV2, for every start, base and period.*)
(***************************************************************************)
LEMMA StartTimeIsLoop ==
  ASSUME NEW s \in Nat, NEW b \in Nat, b > 0, NEW p \in Nat, p > 0
  PROVE  Timer!StartTime(s, b, p) = Timer!LoopTime(s, b, p)
<1> DEFINE K == {i \in 1..s + 1 : b + i * p >= s \/ i = s + 1}
           M == {b + i * p : i \in K}
<1>1. PICK k \in Nat : /\ k >= 1 /\ Timer!StartTime(s, b, p) = b + k * p
                       /\ b + k * p >= s
                       /\ k = 1 \/ b + k * p - p < s
  BY StartTimeIs
<1>2. k * p \in Nat
  OBVIOUS
<1>3. (s + 1) * p >= s + 1
  <2>1. (s + 1) * p = (s + 1) * (p - 1) + (s + 1) /\ (s + 1) * (p - 1) \in Nat
    OBVIOUS
  <2>2. QED
    BY <2>1
<1>4. k \in K
  <2>1. CASE k = 1
    BY <1>1, <2>1
  <2>2. CASE k # 1
    <3>1. b + k * p - p < s /\ k - 1 \in Nat
      BY <1>1, <2>2
    <3>2. (k - 1) * p = k * p - p
      OBVIOUS
    <3>3. (k - 1) * p = (k - 1) * (p - 1) + (k - 1) /\ (k - 1) * (p - 1) \in Nat
      BY <3>1
    <3>4. k - 1 < s
      BY <1>2, <3>1, <3>2, <3>3
    <3>5. QED
      BY <1>1, <3>4
  <2>3. QED
    BY <2>1, <2>2
<1>5. ASSUME NEW i \in K PROVE b + k * p <= b + i * p
  <2>1. i \in 1..s + 1 /\ (b + i * p >= s \/ i = s + 1) /\ i * p \in Nat
    OBVIOUS
  <2>2. b + i * p >= s
    BY <1>3, <2>1
  <2>3. CASE k <= i
    <3>1. CASE k = i
      BY <1>2, <3>1
    <3>2. CASE k < i
      BY <1>2, <2>1, <3>2, MulOrder
    <3>3. QED
      BY <2>1, <2>3, <3>1, <3>2
  <2>4. CASE i < k
    <3>1. i * p <= k * p - p /\ b + k * p - p < s
      BY <1>1, <2>1, <2>4, MulOrder
    <3>2. QED
      BY <1>2, <2>1, <2>2, <3>1
  <2>5. QED
    BY <2>1, <2>3, <2>4
<1>6. b + k * p \in M /\ \A x \in M : x \in Int /\ b + k * p <= x
  <2>1. b + k * p \in M
    BY <1>4
  <2>2. ASSUME NEW x \in M PROVE x \in Int /\ b + k * p <= x
    <3>1. PICK i \in K : x = b + i * p
      OBVIOUS
    <3>2. i \in Int /\ i * p \in Int
      OBVIOUS
    <3>3. QED
      BY <1>5, <3>1, <3>2
  <2>3. QED
    BY <2>1, <2>2
<1>7. ASSUME NEW z \in M, \A x \in M : z <= x PROVE z = b + k * p
  <2>1. z <= b + k * p /\ b + k * p <= z /\ z \in Int
    BY <1>6, <1>7
  <2>2. QED
    BY <1>2, <2>1
<1>8. Timer!LoopTime(s, b, p) = (CHOOSE z \in M : \A x \in M : z <= x)
  BY DEF Timer!LoopTime, Timer!Min, Min
<1>9. QED
  BY <1>1, <1>6, <1>7, <1>8

(***************************************************************************)
(* lv2_timer: for any number of timers, any periods and any timing of the  *)
(* calls, a running timer is watched, each expiration has one event, and   *)
(* the first expiration is that of the loop, provided that guests ask only *)
(* for timers that expire once (the other case is a finding).              *)
(***************************************************************************)
THEOREM TimersExpire ==
  ASSUME AskedOnce
  PROVE  ObjectsSpec => []TimerExpirations
<1>1. Timer!StartFollowsLoop
  BY StartTimeIsLoop DEF Timer!StartFollowsLoop
<1>2. TimerInv => Timer!RunningIsWatched
  BY DEF TimerInv, TimerWatch, Told, Timer!RunningIsWatched
<1>3. TimersInv => TimerExpirations
  BY <1>1, <1>2 DEF TimersInv, TimerInv, TimerExpirations
<1>4. QED
  BY <1>3, TimersAmongObjects, PTL
=============================================================================
