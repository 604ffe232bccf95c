--------------------------- MODULE Lv2MutexProofs ---------------------------
(***************************************************************************)
(* Proofs about Lv2Mutex without savestates, for any finite set of         *)
(* threads, any priorities and any limit of lock_count.                    *)
(*                                                                         *)
(* The inductive invariant says where every thread stands relative to the  *)
(* control word: who waits is either in the list or has been chosen to own *)
(* the mutex, who holds the internal mutex has a copy of the list that     *)
(* others can only have extended at its head, and who was told to go on is *)
(* the owner and will not be told again.                                   *)
(***************************************************************************)
EXTENDS Lv2MutexRefinement, QueueLemmas, FiniteSetTheorems

NoSaveSpec == Init /\ [][NextWithoutSave]_vars

\* The labels of calls that a savestate interrupts.
SaveLabels == {"l_redo", "a_lock", "u_redo", "a_unlock"}

\* The labels under the internal mutex.
Inside == {"t_load", "t_unqueue", "u_load", "u_schedule", "u_store", "u_awake"}

\* The labels between queueing and leaving the lock call.
Waiting == {"l_sleep", "l_wait", "t_check", "t_test", "t_over", "t_lock", "t_load",
            "t_unqueue"}

NoSave ==
  /\ stopped = {} /\ toSleep = {}
  /\ \A t \in Threads : pc[t] \notin SaveLabels

GuardInv == \A t \in Threads : guard = t <=> pc[t] \in Inside

\* u is about to be made the owner.
Elect(u) == \E t \in Threads : pc[t] = "u_store" /\ next[t] = u

\* Whom an unlocking thread will awaken.
Awaited(u) == \E t \in Threads : pc[t] \in {"u_store", "u_awake"} /\ next[t] = u

ListInv ==
  /\ Distinct(ctl.sq)
  /\ ctl.sq # <<>> => ctl.owner # NoThread
  /\ \A t \in Threads : Contains(ctl.sq, t) =>
       pc[t] \in Waiting \ {"t_over"} /\ ctl.owner # t /\ ~Elect(t)

ExistsInv ==
  /\ ctl.owner # NoThread => exists
  /\ \A t \in Threads : pc[t] \in UnderIdm => exists

OwnerInv ==
  /\ ctl.owner = NoThread => count = 0
  /\ \A t \in Threads : ctl.owner = t =>
       \/ pc[t] \in {"idle"} /\ held[t] = count + 1
       \/ pc[t] \in Waiting /\ count = 0
       \/ Unlocking(t) /\ count = 0

\* What a thread may rely on, given where it is.
ThreadInv(t) ==
  /\ pc[t] # "idle" \/ ctl.owner # t => held[t] = 0
  /\ pc[t] \in Waiting => Contains(ctl.sq, t) \/ ctl.owner = t \/ Elect(t)
  /\ pc[t] \in {"l_cas", "y_cas"} => snap[t].owner = NoThread
  /\ Unlocking(t) => ctl.owner = t
  /\ pc[t] = "u_cas" => snap[t].sq = <<>>
  /\ pc[t] \in {"u_store", "u_awake"} =>
       /\ next[t] \in Threads
       /\ pc[next[t]] \in {"l_sleep", "l_wait", "t_check", "t_test", "t_over", "t_lock"}
  /\ pc[t] = "u_awake" => ctl.owner = next[t]

\* The list is its copy s, and what was pushed since.
Extends(q, s) ==
  /\ Len(s) <= Len(q)
  /\ \A i \in 1..Len(s) : s[i] = q[i + Len(q) - Len(s)]

SnapInv(t) ==
  /\ pc[t] \in {"t_unqueue", "u_schedule"} => Extends(ctl.sq, snap[t].sq)
  /\ pc[t] = "t_unqueue" /\ Contains(ctl.sq, t) => Contains(snap[t].sq, t)

\* How the scheduler sees a thread.
SchedInv(t) ==
  /\ pc[t] \notin {"l_sleep", "l_wait", "t_check"} => sched[t] = "on"
  /\ pc[t] = "l_sleep" => sched[t] \in {"on", "cancelled"}
  /\ pc[t] \in {"l_wait", "t_check"} => sched[t] \in {"asleep", "ready", "signal"}

\* A thread was told to go on: it is the owner, once and for all.
Told(t) == \/ pc[t] = "l_sleep" /\ sched[t] = "cancelled"
           \/ pc[t] = "l_wait" /\ sched[t] # "asleep"

ToldInv(t) ==
  /\ Told(t) => ctl.owner = t /\ ~Awaited(t)
  /\ ctl.owner = t /\ pc[t] \in {"l_sleep", "l_wait"} => Told(t) \/ Awaited(t)

Inv ==
  /\ TypeOK /\ NoSave /\ GuardInv /\ ListInv /\ ExistsInv /\ OwnerInv
  /\ \A t \in Threads : ThreadInv(t) /\ SnapInv(t) /\ SchedInv(t) /\ ToldInv(t)

-----------------------------------------------------------------------------
(* The steps that leave the list alone *)

(***************************************************************************)
(* The types of what the steps read.                                       *)
(***************************************************************************)
LEMMA ControlTypes ==
  ASSUME TypeOK
  PROVE  /\ ctl.owner \in Threads \union {NoThread} /\ ctl.sq \in Seq(Threads)
         /\ \A t \in Threads : snap[t] \in Control
         /\ ctl = [owner |-> ctl.owner, sq |-> ctl.sq]
BY DEF TypeOK, Control

(***************************************************************************)
(* What a thread changes when it goes on: its own local variables.         *)
(***************************************************************************)
Only(t) == \A u \in Threads \ {t} : pc'[u] = pc[u] /\ snap'[u] = snap[u] /\ next'[u] = next[u]

(***************************************************************************)
(* The local variables of a thread after it has gone on, with their types. *)
(***************************************************************************)
LEMMA EnterIs ==
  ASSUME TypeOK, NEW t \in Threads, NEW l \in PCs, NEW s \in Control,
         NEW n \in Threads \union {NoThread}, NEW to \in BOOLEAN, Enter(t, l, s, n, to)
  PROVE  /\ pc'[t] = l /\ snap'[t] = s /\ next'[t] = n /\ Only(t)
         /\ pc' \in [Threads -> PCs] /\ timed' \in [Threads -> BOOLEAN]
         /\ snap' \in [Threads -> Control] /\ next' \in [Threads -> Threads \union {NoThread}]
BY DEF Enter, TypeOK, ObjTypeOK, Only

(***************************************************************************)
(* A control word with another owner is a control word with the same list. *)
(***************************************************************************)
LEMMA OwnerChange ==
  ASSUME NEW c \in Control, NEW o \in Threads \union {NoThread}
  PROVE  /\ [c EXCEPT !.owner = o] \in Control
         /\ [c EXCEPT !.owner = o].owner = o /\ [c EXCEPT !.owner = o].sq = c.sq
BY DEF Control

(***************************************************************************)
(* The snapshot of a thread that has none: no owner and no waiter.         *)
(***************************************************************************)
LEMMA NoSnapType == NoSnap \in Control /\ NoSnap.sq = <<>> /\ NoSnap.owner = NoThread
BY DEF NoSnap, Control

(***************************************************************************)
(* A free mutex is taken with a compare-and-swap or by try_own.            *)
(***************************************************************************)
LEMMA AcquireInv ==
  ASSUME Inv, NEW t \in Threads, pc[t] \in {"l_cas", "y_cas", "l_own"},
         ctl.owner = NoThread, ctl' = [ctl EXCEPT !.owner = t], ReturnLocked(t),
         UNCHANGED <<world, recursive, count, guard, sched>>
  PROVE  Inv'
<1> USE ThreadsAssumption, LocksAssumption
<1>1. /\ TypeOK /\ held[t] = 0 /\ count = 0 /\ ctl.sq = <<>> /\ exists /\ sched[t] = "on"
      /\ guard # t
  BY DEF Inv, ThreadInv, OwnerInv, ListInv, ExistsInv, UnderIdm, SchedInv, GuardInv, Inside
<1>2. ctl'.owner = t /\ ctl'.sq = ctl.sq /\ ctl' \in Control
  BY <1>1, OwnerChange DEF TypeOK
<1>h. /\ held'[t] = 1 /\ \A u \in Threads \ {t} : held'[u] = held[u]
      /\ held' \in [Threads -> 0..MaxLocks + 1]
  BY <1>1 DEF ReturnLocked, TypeOK
<1>3. /\ pc'[t] = "idle" /\ Only(t)
      /\ pc' \in [Threads -> PCs] /\ timed' \in [Threads -> BOOLEAN]
      /\ snap' \in [Threads -> Control] /\ next' \in [Threads -> Threads \union {NoThread}]
  <2>1. "idle" \in PCs
    BY DEF PCs
  <2>2. QED
    BY <1>1, <2>1, EnterIs, NoSnapType DEF ReturnLocked
<1>4. TypeOK'
  BY <1>1, <1>2, <1>h, <1>3 DEF TypeOK, ObjTypeOK, world
<1>5. NoSave' /\ GuardInv' /\ ExistsInv'
    BY <1>1, <1>2, <1>3 DEF Inv, NoSave, SaveLabels, GuardInv, Inside, ExistsInv,
     UnderIdm, Only, world
<1>6. OwnerInv'
    BY <1>1, <1>2, <1>h, <1>3 DEF OwnerInv
<1>7. ListInv'
    BY <1>1, <1>2, <1>3 DEF Inv, ListInv, Distinct, Contains
<1>8. ASSUME NEW u \in Threads PROVE ThreadInv(u)'
  <2>1. CASE u = t
    BY <1>1, <1>2, <1>3, <2>1 DEF ThreadInv, Waiting, Unlocking
  <2>2. CASE u # t
    <3>1. /\ pc'[u] = pc[u] /\ snap'[u] = snap[u] /\ next'[u] = next[u] /\ held'[u] = held[u]
          /\ ThreadInv(u)
      BY <1>3, <1>h, <1>8, <2>2 DEF Inv, Only
    <3>2. ~Unlocking(u) /\ pc[u] \notin {"u_store", "u_awake"}
      BY <1>1, <1>8, <3>1 DEF ThreadInv, Unlocking
    <3>3. ~Elect(u)
      BY <1>1 DEF Inv, ThreadInv, Elect, Unlocking
    <3>4. pc[u] \notin Waiting
      BY <1>1, <1>8, <3>1, <3>3 DEF ThreadInv, Contains
    <3>5. QED
      BY <1>2, <2>2, <3>1, <3>2, <3>4 DEF ThreadInv, Unlocking
  <2>3. QED
    BY <2>1, <2>2
<1>9. ASSUME NEW v \in Threads PROVE SnapInv(v)' /\ SchedInv(v)'
    BY <1>1, <1>2, <1>3, <1>9 DEF Inv, SnapInv, SchedInv, Only
<1>10. ASSUME NEW u \in Threads PROVE ToldInv(u)'
    BY <1>1, <1>2, <1>3, <1>10 DEF Inv, ToldInv, Told, Awaited, Only
<1>11. QED
  BY <1>4, <1>5, <1>6, <1>7, <1>8, <1>9, <1>10 DEF Inv

(***************************************************************************)
(* A thread outside the critical section goes from one step of try_lock to *)
(* another, or leaves with an error.                                       *)
(***************************************************************************)
LEMMA OutsideInv ==
  ASSUME Inv, NEW t \in Threads, NEW l \in {"idle", "l_cas", "l_own", "y_cas"},
         NEW s \in Control, NEW to \in BOOLEAN,
         pc[t] \in {"idle", "l_cas", "l_own", "y_cas"},
         Enter(t, l, s, NoThread, to),
         ctl.owner = t => pc[t] = "idle" /\ l = "idle",
         l \in {"l_cas", "y_cas"} => s.owner = NoThread,
         l # "idle" => exists,
         UNCHANGED <<world, recursive, ctl, count, guard, sched, held>>
  PROVE  Inv'
<1> USE ThreadsAssumption, LocksAssumption
<1>1. TypeOK /\ guard # t /\ sched[t] = "on" /\ (ctl.owner # t => held[t] = 0)
  BY DEF Inv, SchedInv, GuardInv, Inside, ThreadInv
<1>3. /\ pc'[t] = l /\ Only(t) /\ snap'[t] = s
      /\ pc' \in [Threads -> PCs] /\ timed' \in [Threads -> BOOLEAN]
      /\ snap' \in [Threads -> Control] /\ next' \in [Threads -> Threads \union {NoThread}]
  BY <1>1, EnterIs, NoSnapType DEF PCs
<1>4. TypeOK'
  BY <1>1, <1>3 DEF TypeOK, ObjTypeOK, world
<1>5. NoSave' /\ GuardInv' /\ ExistsInv'
    BY <1>1, <1>3 DEF Inv, NoSave, SaveLabels, GuardInv, Inside, ExistsInv,
     UnderIdm, Only, world
<1>6. OwnerInv'
    BY <1>1, <1>3 DEF Inv, OwnerInv, ThreadInv, Only, Waiting, Unlocking
<1>7. ListInv'
    BY <1>1, <1>3 DEF Inv, ListInv, Only, Elect, Waiting
<1>8. ASSUME NEW u \in Threads PROVE ThreadInv(u)'
    BY <1>1, <1>3, <1>8 DEF Inv, ThreadInv, Only, Waiting, Unlocking, Elect
<1>9. ASSUME NEW v \in Threads PROVE SnapInv(v)' /\ SchedInv(v)'
    BY <1>1, <1>3, <1>9 DEF Inv, SnapInv, SchedInv, Only
<1>10. ASSUME NEW u \in Threads PROVE ToldInv(u)'
    BY <1>1, <1>3, <1>10 DEF Inv, ToldInv, Told, Awaited, Only
<1>11. QED
  BY <1>4, <1>5, <1>6, <1>7, <1>8, <1>9, <1>10 DEF Inv

(***************************************************************************)
(* The owner of a recursive mutex locks it once more.                      *)
(***************************************************************************)
LEMMA RelockInv ==
  ASSUME Inv, NEW t \in Threads, pc[t] = "idle", ctl.owner = t,
         count < MaxLocks, count' = count + 1, ReturnLocked(t),
         UNCHANGED <<world, recursive, ctl, guard, sched>>
  PROVE  Inv'
<1> USE ThreadsAssumption, LocksAssumption
<1>1. TypeOK /\ guard # t /\ sched[t] = "on" /\ held[t] = count + 1 /\ count \in Nat
  BY DEF Inv, SchedInv, GuardInv, Inside, OwnerInv, Waiting, Unlocking, TypeOK
<1>h. /\ held'[t] = count + 2 /\ \A u \in Threads \ {t} : held'[u] = held[u]
      /\ held' \in [Threads -> 0..MaxLocks + 1]
  BY <1>1 DEF ReturnLocked, TypeOK
<1>3. /\ pc'[t] = "idle" /\ Only(t)
      /\ pc' \in [Threads -> PCs] /\ timed' \in [Threads -> BOOLEAN]
      /\ snap' \in [Threads -> Control] /\ next' \in [Threads -> Threads \union {NoThread}]
  <2>1. "idle" \in PCs
    BY DEF PCs
  <2>2. QED
    BY <1>1, <2>1, EnterIs, NoSnapType DEF ReturnLocked
<1>4. TypeOK'
  BY <1>1, <1>h, <1>3 DEF TypeOK, ObjTypeOK, world
<1>5. NoSave' /\ GuardInv' /\ ExistsInv'
    BY <1>1, <1>3 DEF Inv, NoSave, SaveLabels, GuardInv, Inside, ExistsInv,
     UnderIdm, Only, world
<1>6. OwnerInv'
    BY <1>1, <1>h, <1>3 DEF Inv, OwnerInv, ThreadInv, Only, Waiting, Unlocking
<1>7. ListInv'
    BY <1>1, <1>3 DEF Inv, ListInv, Only, Elect, Waiting
<1>8. ASSUME NEW u \in Threads PROVE ThreadInv(u)'
    BY <1>1, <1>h, <1>3, <1>8 DEF Inv, ThreadInv, Only, Waiting, Unlocking, Elect
<1>9. ASSUME NEW v \in Threads PROVE SnapInv(v)' /\ SchedInv(v)'
    BY <1>1, <1>3, <1>9 DEF Inv, SnapInv, SchedInv, Only
<1>10. ASSUME NEW u \in Threads PROVE ToldInv(u)'
    BY <1>1, <1>3, <1>10 DEF Inv, ToldInv, Told, Awaited, Only
<1>11. QED
  BY <1>4, <1>5, <1>6, <1>7, <1>8, <1>9, <1>10 DEF Inv

(***************************************************************************)
(* The owner unlocks a recursive mutex that it has locked more than once.  *)
(***************************************************************************)
LEMMA UnlockOnceInv ==
  ASSUME Inv, NEW t \in Threads, pc[t] = "idle", ctl.owner = t, count > 0,
         count' = count - 1, Goto(t, "idle"), held' = [held EXCEPT ![t] = count],
         UNCHANGED <<world, recursive, ctl, guard, sched>>
  PROVE  Inv'
<1> USE ThreadsAssumption, LocksAssumption
<1>1. TypeOK /\ guard # t /\ sched[t] = "on" /\ count \in 0..MaxLocks /\ timed[t] \in BOOLEAN
  BY DEF Inv, SchedInv, GuardInv, Inside, TypeOK, ObjTypeOK
<1>h. /\ held'[t] = count /\ \A u \in Threads \ {t} : held'[u] = held[u]
      /\ held' \in [Threads -> 0..MaxLocks + 1]
  BY <1>1 DEF TypeOK
<1>3. /\ pc'[t] = "idle" /\ Only(t)
      /\ pc' \in [Threads -> PCs] /\ timed' \in [Threads -> BOOLEAN]
      /\ snap' \in [Threads -> Control] /\ next' \in [Threads -> Threads \union {NoThread}]
  BY <1>1, EnterIs, NoSnapType DEF Goto, PCs
<1>4. TypeOK'
  BY <1>1, <1>h, <1>3 DEF TypeOK, ObjTypeOK, world
<1>5. NoSave' /\ GuardInv' /\ ExistsInv'
    BY <1>1, <1>3 DEF Inv, NoSave, SaveLabels, GuardInv, Inside, ExistsInv,
     UnderIdm, Only, world
<1>6. OwnerInv'
    BY <1>1, <1>h, <1>3 DEF Inv, OwnerInv, ThreadInv, Only, Waiting, Unlocking
<1>7. ListInv'
    BY <1>1, <1>3 DEF Inv, ListInv, Only, Elect, Waiting
<1>8. ASSUME NEW u \in Threads PROVE ThreadInv(u)'
    BY <1>1, <1>h, <1>3, <1>8 DEF Inv, ThreadInv, Only, Waiting, Unlocking, Elect
<1>9. ASSUME NEW v \in Threads PROVE SnapInv(v)' /\ SchedInv(v)'
    BY <1>1, <1>3, <1>9 DEF Inv, SnapInv, SchedInv, Only
<1>10. ASSUME NEW u \in Threads PROVE ToldInv(u)'
    BY <1>1, <1>3, <1>10 DEF Inv, ToldInv, Told, Awaited, Only
<1>11. QED
  BY <1>4, <1>5, <1>6, <1>7, <1>8, <1>9, <1>10 DEF Inv

(***************************************************************************)
(* The owner begins to unlock for good.                                    *)
(***************************************************************************)
LEMMA UnlockBeginInv ==
  ASSUME Inv, NEW t \in Threads, pc[t] = "idle", ctl.owner = t, count = 0, exists,
         NEW l \in {"u_cas", "u_lock"}, NEW s \in Control, NEW to \in BOOLEAN,
         Enter(t, l, s, NoThread, to), l = "u_cas" => s.sq = <<>>,
         held' = [held EXCEPT ![t] = 0],
         UNCHANGED <<world, recursive, ctl, count, guard, sched>>
  PROVE  Inv'
<1> USE ThreadsAssumption, LocksAssumption
<1>1. TypeOK /\ guard # t /\ sched[t] = "on"
  BY DEF Inv, SchedInv, GuardInv, Inside
<1>h. /\ held'[t] = 0 /\ \A u \in Threads \ {t} : held'[u] = held[u]
      /\ held' \in [Threads -> 0..MaxLocks + 1]
  BY <1>1 DEF TypeOK
<1>3. /\ pc'[t] = l /\ Only(t) /\ snap'[t] = s
      /\ pc' \in [Threads -> PCs] /\ timed' \in [Threads -> BOOLEAN]
      /\ snap' \in [Threads -> Control] /\ next' \in [Threads -> Threads \union {NoThread}]
  BY <1>1, EnterIs, NoSnapType DEF PCs
<1>4. TypeOK'
  BY <1>1, <1>h, <1>3 DEF TypeOK, ObjTypeOK, world
<1>5. NoSave' /\ GuardInv' /\ ExistsInv'
    BY <1>1, <1>3 DEF Inv, NoSave, SaveLabels, GuardInv, Inside, ExistsInv,
     UnderIdm, Only, world
<1>6. OwnerInv'
    BY <1>1, <1>h, <1>3 DEF Inv, OwnerInv, ThreadInv, Only, Waiting, Unlocking
<1>7. ListInv'
    BY <1>1, <1>3 DEF Inv, ListInv, Only, Elect, Waiting
<1>8. ASSUME NEW u \in Threads PROVE ThreadInv(u)'
    BY <1>1, <1>h, <1>3, <1>8 DEF Inv, ThreadInv, Only, Waiting, Unlocking, Elect
<1>9. ASSUME NEW v \in Threads PROVE SnapInv(v)' /\ SchedInv(v)'
    BY <1>1, <1>3, <1>9 DEF Inv, SnapInv, SchedInv, Only
<1>10. ASSUME NEW u \in Threads PROVE ToldInv(u)'
    BY <1>1, <1>3, <1>10 DEF Inv, ToldInv, Told, Awaited, Only
<1>11. QED
  BY <1>4, <1>5, <1>6, <1>7, <1>8, <1>9, <1>10 DEF Inv

(***************************************************************************)
(* A waiting thread goes on in its wait loop or its timeout path, with or  *)
(* without a change that the scheduler sees.                               *)
(***************************************************************************)
LEMMA WaitingInv ==
  ASSUME Inv, NEW t \in Threads, pc[t] \in Waiting \ Inside,
         NEW l \in Waiting \ (Inside \union {"l_sleep"}), NEW x \in SchedStates,
         NEW to \in BOOLEAN, NEW s \in Control, NEW n \in Threads \union {NoThread},
         Enter(t, l, s, n, to), sched' = [sched EXCEPT ![t] = x],
         l = "t_over" => ~Contains(ctl.sq, t),
         l = "l_wait" => pc[t] = "l_sleep" /\ ~Told(t) /\ x = "asleep",
         l = "t_check" => x \in {"asleep", "ready", "signal"},
         l \notin {"l_wait", "t_check"} => x = "on",
         UNCHANGED <<world, recursive, ctl, count, guard, held>>
  PROVE  Inv'
<1> USE ThreadsAssumption, LocksAssumption
<1>1. TypeOK /\ guard # t /\ held[t] = 0
  BY DEF Inv, GuardInv, ThreadInv, Waiting
<1>2. /\ sched'[t] = x /\ \A u \in Threads \ {t} : sched'[u] = sched[u]
      /\ sched' \in [Threads -> SchedStates]
  BY <1>1 DEF TypeOK, ObjTypeOK
<1>3. /\ pc'[t] = l /\ Only(t)
      /\ pc' \in [Threads -> PCs] /\ timed' \in [Threads -> BOOLEAN]
      /\ snap' \in [Threads -> Control] /\ next' \in [Threads -> Threads \union {NoThread}]
  BY <1>1, EnterIs, NoSnapType DEF Waiting, Inside, PCs
<1>4. TypeOK'
  BY <1>1, <1>2, <1>3 DEF TypeOK, ObjTypeOK, world
<1>5. NoSave' /\ GuardInv' /\ ExistsInv'
    BY <1>1, <1>2, <1>3 DEF Inv, NoSave, SaveLabels, GuardInv, Inside, ExistsInv,
     UnderIdm, Only, world, Waiting
<1>6. OwnerInv'
    BY <1>1, <1>2, <1>3 DEF Inv, OwnerInv, ThreadInv, Only, Waiting, Unlocking
<1>7. ListInv'
    BY <1>1, <1>2, <1>3 DEF Inv, ListInv, Only, Elect, Waiting
<1>8. ASSUME NEW u \in Threads PROVE ThreadInv(u)'
    BY <1>1, <1>2, <1>3, <1>8 DEF Inv, ThreadInv, Only, Waiting, Unlocking, Elect,
     Inside
<1>9. ASSUME NEW v \in Threads PROVE SnapInv(v)' /\ SchedInv(v)'
    BY <1>1, <1>2, <1>3, <1>9 DEF Inv, SnapInv, SchedInv, Only, Waiting, Inside
<1>10. ASSUME NEW u \in Threads PROVE ToldInv(u)'
    BY <1>1, <1>2, <1>3, <1>10 DEF Inv, ToldInv, Told, Awaited, Only, Waiting,
     Inside
<1>11. QED
  BY <1>4, <1>5, <1>6, <1>7, <1>8, <1>9, <1>10 DEF Inv

(***************************************************************************)
(* The internal mutex is taken, by a timeout or by unlock.                 *)
(***************************************************************************)
LEMMA TakeGuardInv ==
  ASSUME Inv, NEW t \in Threads, NEW from, NEW l, TakeGuard(t, from, l),
         \/ from = "t_lock" /\ l = "t_load"
         \/ from = "u_lock" /\ l = "u_load"
  PROVE  Inv'
<1> USE ThreadsAssumption, LocksAssumption
<1>1. /\ TypeOK /\ guard = NoThread /\ guard' = t /\ pc[t] = from /\ timed[t] \in BOOLEAN
      /\ held[t] = 0 /\ sched[t] = "on" /\ (from = "u_lock" => exists)
      /\ ~Awaited(t) /\ l \in PCs
      /\ UNCHANGED <<world, recursive, ctl, count, sched, held>>
  BY DEF Inv, TakeGuard, ThreadInv, SchedInv, ExistsInv, UnderIdm, TypeOK, ObjTypeOK,
         Awaited, GuardInv, Inside, PCs
<1>3. /\ pc'[t] = l /\ Only(t)
      /\ pc' \in [Threads -> PCs] /\ timed' \in [Threads -> BOOLEAN]
      /\ snap' \in [Threads -> Control] /\ next' \in [Threads -> Threads \union {NoThread}]
  BY <1>1, EnterIs, NoSnapType DEF TakeGuard, Goto, PCs
<1>4. TypeOK'
  BY <1>1, <1>3 DEF TypeOK, ObjTypeOK, world
<1>5. NoSave' /\ GuardInv' /\ ExistsInv'
    BY <1>1, <1>3 DEF Inv, NoSave, SaveLabels, GuardInv, Inside, ExistsInv,
     UnderIdm, Only, world
<1>6. OwnerInv'
    BY <1>1, <1>3 DEF Inv, OwnerInv, ThreadInv, Only, Waiting, Unlocking
<1>7. ListInv'
    BY <1>1, <1>3 DEF Inv, ListInv, Only, Elect, Waiting
<1>8. ASSUME NEW u \in Threads PROVE ThreadInv(u)'
    BY <1>1, <1>3, <1>8 DEF Inv, ThreadInv, Only, Waiting, Unlocking, Elect, Awaited
<1>9. ASSUME NEW v \in Threads PROVE SnapInv(v)' /\ SchedInv(v)'
    BY <1>1, <1>3, <1>9 DEF Inv, SnapInv, SchedInv, Only
<1>10. ASSUME NEW u \in Threads PROVE ToldInv(u)'
    BY <1>1, <1>3, <1>10 DEF Inv, ToldInv, Told, Awaited, Only
<1>11. QED
  BY <1>4, <1>5, <1>6, <1>7, <1>8, <1>9, <1>10 DEF Inv

(***************************************************************************)
(* A thread under the internal mutex reads the control word, or finds that *)
(* it has changed and reads it again; or unlock leaves its compare-and-    *)
(* swap.                                                                   *)
(***************************************************************************)
LEMMA LoadInv ==
  ASSUME Inv, NEW t \in Threads, NEW l, NEW s \in Control, NEW to \in BOOLEAN,
         Enter(t, l, s, NoThread, to),
         \/ pc[t] \in {"t_load", "t_unqueue"} /\ l \in {"t_load", "t_unqueue"}
         \/ pc[t] \in {"u_load", "u_schedule"} /\ l \in {"u_load", "u_schedule"}
         \/ pc[t] = "u_cas" /\ l = "u_lock",
         l \in {"t_unqueue", "u_schedule"} => s = ctl,
         UNCHANGED <<world, recursive, ctl, count, guard, sched, held>>
  PROVE  Inv'
<1> USE ThreadsAssumption, LocksAssumption
<1>1. /\ TypeOK /\ held[t] = 0 /\ sched[t] = "on" /\ (pc[t] # "t_load" /\ pc[t] # "t_unqueue" => exists)
      /\ l \in PCs /\ ctl.sq \in Seq(Threads)
  BY ControlTypes DEF Inv, ThreadInv, SchedInv, ExistsInv, UnderIdm, PCs
<1>2. Extends(ctl.sq, ctl.sq)
  BY <1>1 DEF Extends
<1>3. /\ pc'[t] = l /\ Only(t) /\ snap'[t] = s
      /\ pc' \in [Threads -> PCs] /\ timed' \in [Threads -> BOOLEAN]
      /\ snap' \in [Threads -> Control] /\ next' \in [Threads -> Threads \union {NoThread}]
  BY <1>1, EnterIs, NoSnapType DEF PCs
<1>4. TypeOK'
  BY <1>1, <1>3 DEF TypeOK, ObjTypeOK, world
<1>5. NoSave' /\ GuardInv' /\ ExistsInv'
    BY <1>1, <1>2, <1>3 DEF Inv, NoSave, SaveLabels, GuardInv, Inside, ExistsInv,
     UnderIdm, Only, world
<1>6. OwnerInv'
    BY <1>1, <1>2, <1>3 DEF Inv, OwnerInv, ThreadInv, Only, Waiting, Unlocking
<1>7. ListInv'
    BY <1>1, <1>2, <1>3 DEF Inv, ListInv, Only, Elect, Waiting
<1>8. ASSUME NEW u \in Threads PROVE ThreadInv(u)'
    BY <1>1, <1>2, <1>3, <1>8 DEF Inv, ThreadInv, Only, Waiting, Unlocking, Elect
<1>9. ASSUME NEW v \in Threads PROVE SnapInv(v)' /\ SchedInv(v)'
    BY <1>1, <1>2, <1>3, <1>9 DEF Inv, SnapInv, SchedInv, Only
<1>10. ASSUME NEW u \in Threads PROVE ToldInv(u)'
    BY <1>1, <1>2, <1>3, <1>10 DEF Inv, ToldInv, Told, Awaited, Only
<1>11. QED
  BY <1>4, <1>5, <1>6, <1>7, <1>8, <1>9, <1>10 DEF Inv

(***************************************************************************)
(* The new owner leaves its lock call with CELL_OK, after a signal, a      *)
(* sleep that was cancelled or a timeout.                                  *)
(***************************************************************************)
LEMMA LeaveInv ==
  ASSUME Inv, NEW t \in Threads, pc[t] \in Waiting, ctl.owner = t, ~Awaited(t),
         ReturnLocked(t), sched' = [sched EXCEPT ![t] = "on"],
         guard' = IF guard = t THEN NoThread ELSE guard,
         UNCHANGED <<world, recursive, ctl, count>>
  PROVE  Inv'
<1> USE ThreadsAssumption, LocksAssumption
<1>1. TypeOK /\ held[t] = 0 /\ count = 0 /\ ~Contains(ctl.sq, t)
  BY DEF Inv, ThreadInv, OwnerInv, Waiting, Unlocking, ListInv
<1>2. /\ sched'[t] = "on" /\ \A u \in Threads \ {t} : sched'[u] = sched[u]
      /\ sched' \in [Threads -> SchedStates]
  BY <1>1 DEF TypeOK, ObjTypeOK, SchedStates
<1>h. /\ held'[t] = 1 /\ \A u \in Threads \ {t} : held'[u] = held[u]
      /\ held' \in [Threads -> 0..MaxLocks + 1]
  BY <1>1 DEF ReturnLocked, TypeOK
<1>3. /\ pc'[t] = "idle" /\ Only(t)
      /\ pc' \in [Threads -> PCs] /\ timed' \in [Threads -> BOOLEAN]
      /\ snap' \in [Threads -> Control] /\ next' \in [Threads -> Threads \union {NoThread}]
  <2>1. "idle" \in PCs
    BY DEF PCs
  <2>2. QED
    BY <1>1, <2>1, EnterIs, NoSnapType DEF ReturnLocked
<1>4. TypeOK'
  BY <1>1, <1>2, <1>h, <1>3 DEF TypeOK, ObjTypeOK, world
<1>5. NoSave' /\ GuardInv' /\ ExistsInv'
    BY <1>1, <1>2, <1>3 DEF Inv, NoSave, SaveLabels, GuardInv, Inside, ExistsInv,
     UnderIdm, Only, world
<1>6. OwnerInv'
    BY <1>1, <1>2, <1>h, <1>3 DEF Inv, OwnerInv, ThreadInv, Only, Waiting, Unlocking
<1>7. ListInv'
    BY <1>1, <1>2, <1>3 DEF Inv, ListInv, Only, Elect, Waiting
<1>8. ASSUME NEW u \in Threads PROVE ThreadInv(u)'
    BY <1>1, <1>2, <1>h, <1>3, <1>8 DEF Inv, ThreadInv, Only, Waiting, Unlocking,
     Elect, Awaited
<1>9. ASSUME NEW v \in Threads PROVE SnapInv(v)' /\ SchedInv(v)'
    BY <1>1, <1>2, <1>3, <1>9 DEF Inv, SnapInv, SchedInv, Only
<1>10. ASSUME NEW u \in Threads PROVE ToldInv(u)'
    BY <1>1, <1>2, <1>3, <1>10 DEF Inv, ToldInv, Told, Awaited, Only
<1>11. QED
  BY <1>4, <1>5, <1>6, <1>7, <1>8, <1>9, <1>10 DEF Inv

(***************************************************************************)
(* The mutex becomes free: nobody is queued.                               *)
(***************************************************************************)
LEMMA ReleaseInv ==
  ASSUME Inv, NEW t \in Threads, pc[t] \in {"u_cas", "u_schedule"},
         ctl.sq = <<>>, ctl' = [ctl EXCEPT !.owner = NoThread],
         guard' = IF guard = t THEN NoThread ELSE guard, Goto(t, "idle"),
         UNCHANGED <<world, recursive, count, sched, held>>
  PROVE  Inv'
<1> USE ThreadsAssumption, LocksAssumption
<1>a. /\ TypeOK /\ ctl.owner = t /\ count = 0 /\ held[t] = 0 /\ timed[t] \in BOOLEAN
  BY DEF Inv, ThreadInv, OwnerInv, Unlocking, Waiting, TypeOK, ObjTypeOK
<1>b. ~Awaited(t)
  BY DEF Inv, ThreadInv, Awaited
<1>1. /\ TypeOK /\ ctl.owner = t /\ count = 0 /\ held[t] = 0 /\ timed[t] \in BOOLEAN
      /\ ~Awaited(t) /\ \A u \in Threads : pc[u] = "u_awake" => ctl.owner # t
  BY <1>a, <1>b DEF Inv, ThreadInv, Awaited
<1>2. ctl'.owner = NoThread /\ ctl'.sq = ctl.sq /\ ctl' \in Control
  BY <1>1, OwnerChange DEF TypeOK
<1>3. /\ pc'[t] = "idle" /\ Only(t)
      /\ pc' \in [Threads -> PCs] /\ timed' \in [Threads -> BOOLEAN]
      /\ snap' \in [Threads -> Control] /\ next' \in [Threads -> Threads \union {NoThread}]
  BY <1>1, EnterIs, NoSnapType DEF Goto, PCs
<1>4. TypeOK'
  BY <1>1, <1>2, <1>3 DEF TypeOK, ObjTypeOK, world
<1>5. NoSave' /\ GuardInv' /\ ExistsInv'
    BY <1>1, <1>2, <1>3 DEF Inv, NoSave, SaveLabels, GuardInv, Inside, ExistsInv,
     UnderIdm, Only, world
<1>6. OwnerInv'
    BY <1>1, <1>2, <1>3 DEF Inv, OwnerInv, ThreadInv, Only, Waiting, Unlocking
<1>7. ListInv'
    BY <1>1, <1>2, <1>3 DEF Inv, ListInv, Distinct, Contains
<1>8. ASSUME NEW u \in Threads PROVE ThreadInv(u)'
    BY <1>1, <1>2, <1>3, <1>8 DEF Inv, ThreadInv, Only, Waiting, Unlocking, Elect,
     Awaited
<1>9. ASSUME NEW v \in Threads PROVE SnapInv(v)' /\ SchedInv(v)'
    BY <1>1, <1>2, <1>3, <1>9 DEF Inv, SnapInv, SchedInv, Only
<1>10. ASSUME NEW u \in Threads PROVE ToldInv(u)'
    BY <1>1, <1>2, <1>3, <1>10 DEF Inv, ToldInv, Told, Awaited, Only
<1>11. QED
  BY <1>4, <1>5, <1>6, <1>7, <1>8, <1>9, <1>10 DEF Inv

(***************************************************************************)
(* The scheduler lets an awakened thread run.                              *)
(***************************************************************************)
LEMMA ScheduleInv ==
  ASSUME Inv, NEW t \in Threads, Schedule(t)
  PROVE  Inv'
<1> USE ThreadsAssumption, LocksAssumption
<1>1. /\ TypeOK /\ sched[t] = "ready" /\ pc[t] \in {"l_wait", "t_check"}
      /\ UNCHANGED <<guard, pc, timed, world, recursive, ctl, count, snap, next, held>>
  BY DEF Inv, SchedInv, Schedule, ObjSchedule
<1>2. /\ sched'[t] = "signal" /\ \A u \in Threads \ {t} : sched'[u] = sched[u]
      /\ sched' \in [Threads -> SchedStates]
  BY <1>1 DEF Schedule, ObjSchedule, TypeOK, ObjTypeOK, SchedStates
<1>3. Only(t)
  BY <1>1 DEF Only
<1>4. TypeOK'
  BY <1>1, <1>2 DEF TypeOK, ObjTypeOK, world
<1>5. NoSave' /\ GuardInv' /\ ExistsInv'
    BY <1>1, <1>2, <1>3 DEF Inv, NoSave, SaveLabels, GuardInv, Inside, ExistsInv,
     UnderIdm, Only, world
<1>6. OwnerInv'
    BY <1>1, <1>2, <1>3 DEF Inv, OwnerInv, ThreadInv, Only, Waiting, Unlocking
<1>7. ListInv'
    BY <1>1, <1>2, <1>3 DEF Inv, ListInv, Only, Elect, Waiting
<1>8. ASSUME NEW u \in Threads PROVE ThreadInv(u)'
    BY <1>1, <1>2, <1>3, <1>8 DEF Inv, ThreadInv, Only, Waiting, Unlocking, Elect
<1>9. ASSUME NEW v \in Threads PROVE SnapInv(v)' /\ SchedInv(v)'
    BY <1>1, <1>2, <1>3, <1>9 DEF Inv, SnapInv, SchedInv, Only
<1>10. ASSUME NEW u \in Threads PROVE ToldInv(u)'
    BY <1>1, <1>2, <1>3, <1>10 DEF Inv, ToldInv, Told, Awaited, Only
<1>11. QED
  BY <1>4, <1>5, <1>6, <1>7, <1>8, <1>9, <1>10 DEF Inv

(***************************************************************************)
(* The mutex is destroyed: nobody owns it, and nobody can be queued.       *)
(***************************************************************************)
LEMMA DestroyInv ==
  ASSUME Inv, NEW t \in Threads, Destroy(t)
  PROVE  Inv'
<1> USE ThreadsAssumption, LocksAssumption
<1>1. /\ TypeOK /\ ctl.owner = NoThread /\ \A u \in Threads : pc[u] \notin UnderIdm
      /\ UNCHANGED <<fifo, stopped, toSleep, saves, faults, guard, sched, recursive, ctl, count, held>>
      /\ UNCHANGED <<pc, timed, snap, next>> /\ exists' = FALSE
  BY DEF Inv, Destroy, local
<1>3. Only(t)
  BY <1>1 DEF Only
<1>4. TypeOK'
  BY <1>1 DEF TypeOK, ObjTypeOK
<1>5. NoSave' /\ GuardInv' /\ ExistsInv'
    BY <1>1, <1>3 DEF Inv, NoSave, SaveLabels, GuardInv, Inside, ExistsInv,
     UnderIdm, Only, world
<1>6. OwnerInv'
    BY <1>1, <1>3 DEF Inv, OwnerInv, ThreadInv, Only, Waiting, Unlocking
<1>7. ListInv'
    BY <1>1, <1>3 DEF Inv, ListInv, Only, Elect, Waiting
<1>8. ASSUME NEW u \in Threads PROVE ThreadInv(u)'
    BY <1>1, <1>3, <1>8 DEF Inv, ThreadInv, Only, Waiting, Unlocking, Elect
<1>9. ASSUME NEW v \in Threads PROVE SnapInv(v)' /\ SchedInv(v)'
    BY <1>1, <1>3, <1>9 DEF Inv, SnapInv, SchedInv, Only
<1>10. ASSUME NEW u \in Threads PROVE ToldInv(u)'
    BY <1>1, <1>3, <1>10 DEF Inv, ToldInv, Told, Awaited, Only
<1>11. QED
  BY <1>4, <1>5, <1>6, <1>7, <1>8, <1>9, <1>10 DEF Inv

-----------------------------------------------------------------------------
(* The steps that change the list *)

(***************************************************************************)
(* A copy of the list stays its older part when a thread pushes itself.    *)
(***************************************************************************)
LEMMA PushExtends ==
  ASSUME NEW q \in Seq(Threads), NEW s \in Seq(Threads), NEW t \in Threads, Extends(q, s)
  PROVE  Extends(<<t>> \o q, s)
<1> DEFINE r == <<t>> \o q
<1>1. Len(r) = Len(q) + 1 /\ \A i \in 1..Len(q) : r[i + 1] = q[i]
  BY PushIs
<1> SUFFICES Extends(r, s)
  OBVIOUS
<1> HIDE DEF r
<1>2. Len(s) <= Len(r)
  BY <1>1 DEF Extends
<1>3. ASSUME NEW i \in 1..Len(s) PROVE s[i] = r[i + Len(r) - Len(s)]
  <2> DEFINE k == i + Len(q) - Len(s)
  <2>1. k \in 1..Len(q) /\ k + 1 = i + Len(r) - Len(s)
    BY <1>1 DEF Extends
  <2>2. s[i] = q[k]
    BY DEF Extends
  <2> HIDE DEF k
  <2>3. QED
    BY <1>1, <2>1, <2>2
<1>4. QED
  BY <1>2, <1>3 DEF Extends

(***************************************************************************)
(* try_own finds an owner: the thread queues itself.                       *)
(***************************************************************************)
LEMMA EnqueueInv ==
  ASSUME Inv, NEW t \in Threads, pc[t] = "l_own", ctl.owner # NoThread,
         ctl' = [ctl EXCEPT !.sq = <<t>> \o @], Goto(t, "l_sleep"),
         UNCHANGED <<world, recursive, count, guard, sched, held>>
  PROVE  Inv'
<1> USE ThreadsAssumption, LocksAssumption
<1>1. /\ TypeOK /\ ctl.owner # t /\ exists /\ sched[t] = "on" /\ timed[t] \in BOOLEAN
      /\ ~Contains(ctl.sq, t) /\ held[t] = 0
  BY DEF Inv, ThreadInv, OwnerInv, ListInv, ExistsInv, UnderIdm, SchedInv, Waiting, Unlocking,
         TypeOK, ObjTypeOK
<1>e. ~Awaited(t) /\ ~Elect(t)
  BY DEF Inv, ThreadInv, Awaited, Elect
<1>s. ctl.sq \in Seq(Threads) /\ \A u \in Threads : snap[u].sq \in Seq(Threads)
  BY <1>1, ControlTypes DEF Control
<1>q. /\ <<t>> \o ctl.sq \in Seq(Threads)
      /\ \A u \in Threads : Contains(<<t>> \o ctl.sq, u) <=> Contains(ctl.sq, u) \/ u = t
      /\ Distinct(<<t>> \o ctl.sq)
  BY <1>1, <1>s, PushIs DEF Inv, ListInv
<1>x. \A u \in Threads : Extends(ctl.sq, snap[u].sq) => Extends(<<t>> \o ctl.sq, snap[u].sq)
  BY <1>s, PushExtends
<1>2. ctl'.owner = ctl.owner /\ ctl'.sq = <<t>> \o ctl.sq /\ ctl' \in Control
  BY <1>1, <1>q DEF TypeOK, Control
<1>3. /\ pc'[t] = "l_sleep" /\ Only(t)
      /\ pc' \in [Threads -> PCs] /\ timed' \in [Threads -> BOOLEAN]
      /\ snap' \in [Threads -> Control] /\ next' \in [Threads -> Threads \union {NoThread}]
  BY <1>1, EnterIs, NoSnapType DEF Goto, PCs
<1>4. TypeOK'
  BY <1>1, <1>2, <1>3 DEF TypeOK, ObjTypeOK, world
<1>5. NoSave' /\ GuardInv' /\ ExistsInv'
    BY <1>1, <1>e, <1>q, <1>x, <1>2, <1>3 DEF Inv, NoSave, SaveLabels, GuardInv,
     Inside, ExistsInv, UnderIdm, Only, world
<1>6. OwnerInv'
    BY <1>1, <1>e, <1>q, <1>x, <1>2, <1>3 DEF Inv, OwnerInv, ThreadInv, Only,
     Waiting, Unlocking
<1>7. ListInv'
    BY <1>1, <1>e, <1>q, <1>x, <1>2, <1>3 DEF Inv, ListInv, Only, Elect, Waiting
<1>8. ASSUME NEW u \in Threads PROVE ThreadInv(u)'
    BY <1>1, <1>e, <1>q, <1>x, <1>2, <1>3, <1>8 DEF Inv, ThreadInv, Only, Waiting,
     Unlocking, Elect, Awaited
<1>9. ASSUME NEW v \in Threads PROVE SnapInv(v)' /\ SchedInv(v)'
    BY <1>1, <1>e, <1>q, <1>x, <1>2, <1>3, <1>9 DEF Inv, SnapInv, SchedInv, Only
<1>10. ASSUME NEW u \in Threads PROVE ToldInv(u)'
    BY <1>1, <1>e, <1>q, <1>x, <1>2, <1>3, <1>10 DEF Inv, ToldInv, Told, Awaited,
     Only
<1>11. QED
  BY <1>4, <1>5, <1>6, <1>7, <1>8, <1>9, <1>10 DEF Inv

(***************************************************************************)
(* While a thread is under the internal mutex nobody else is, so nobody    *)
(* else has a copy of the list or somebody to awaken.                      *)
(***************************************************************************)
LEMMA Alone ==
  ASSUME Inv, NEW t \in Threads, pc[t] \in Inside
  PROVE  guard = t /\ \A u \in Threads \ {t} : pc[u] \notin Inside
BY ThreadsAssumption DEF Inv, GuardInv

(***************************************************************************)
(* A waiter whose time is over leaves the list.                            *)
(***************************************************************************)
LEMMA GiveUpInv ==
  ASSUME Inv, NEW t \in Threads, pc[t] = "t_unqueue", Contains(ctl.sq, t),
         ctl' = [ctl EXCEPT !.sq = Without(@, t)], guard' = NoThread, Return(t),
         UNCHANGED <<world, recursive, count, sched>>
  PROVE  Inv'
<1> USE ThreadsAssumption, LocksAssumption
<1>1. /\ TypeOK /\ ctl.owner # t /\ held[t] = 0 /\ sched[t] = "on"
      /\ guard = t /\ \A u \in Threads \ {t} : pc[u] \notin Inside
      /\ UNCHANGED held
  BY Alone DEF Inv, ThreadInv, ListInv, SchedInv, Inside, Return
<1>q. /\ Without(ctl.sq, t) \in Seq(Threads)
      /\ \A u \in Threads : Contains(Without(ctl.sq, t), u) <=> Contains(ctl.sq, u) /\ u # t
      /\ Distinct(Without(ctl.sq, t))
  BY <1>1, ControlTypes, RemoveFirstHas DEF Inv, ListInv, Without
<1>n. ctl.owner # NoThread
  BY DEF Inv, ListInv, Contains
<1>2. ctl'.owner = ctl.owner /\ ctl'.sq = Without(ctl.sq, t) /\ ctl' \in Control
  BY <1>1, <1>q DEF TypeOK, Control
<1>3. /\ pc'[t] = "idle" /\ Only(t)
      /\ pc' \in [Threads -> PCs] /\ timed' \in [Threads -> BOOLEAN]
      /\ snap' \in [Threads -> Control] /\ next' \in [Threads -> Threads \union {NoThread}]
  BY <1>1, EnterIs, NoSnapType DEF Return, PCs
<1>4. TypeOK'
  BY <1>1, <1>2, <1>3 DEF TypeOK, ObjTypeOK, world
<1>5. NoSave' /\ GuardInv' /\ ExistsInv'
    BY <1>1, <1>q, <1>n, <1>2, <1>3 DEF Inv, NoSave, SaveLabels, GuardInv, Inside,
     ExistsInv, UnderIdm, Only, world
<1>6. OwnerInv'
    BY <1>1, <1>q, <1>n, <1>2, <1>3 DEF Inv, OwnerInv, ThreadInv, Only, Waiting,
     Unlocking
<1>7. ListInv'
    BY <1>1, <1>q, <1>n, <1>2, <1>3 DEF Inv, ListInv, Only, Elect, Waiting
<1>8. ASSUME NEW u \in Threads PROVE ThreadInv(u)'
    BY <1>1, <1>q, <1>n, <1>2, <1>3, <1>8 DEF Inv, ThreadInv, Only, Waiting,
     Unlocking, Elect, Inside
<1>9. ASSUME NEW v \in Threads PROVE SnapInv(v)' /\ SchedInv(v)'
    BY <1>1, <1>q, <1>n, <1>2, <1>3, <1>9 DEF Inv, SnapInv, SchedInv, Only, Inside
<1>10. ASSUME NEW u \in Threads PROVE ToldInv(u)'
    BY <1>1, <1>q, <1>n, <1>2, <1>3, <1>10 DEF Inv, ToldInv, Told, Awaited, Only
<1>11. QED
  BY <1>4, <1>5, <1>6, <1>7, <1>8, <1>9, <1>10 DEF Inv

(***************************************************************************)
(* unlock takes the head of the list and makes it the owner in one         *)
(* compare-and-swap.                                                       *)
(***************************************************************************)
LEMMA HandHeadInv ==
  ASSUME Inv, NEW t \in Threads, NEW u \in Threads, pc[t] = "u_schedule",
         ctl.sq # <<>>, u = Head(ctl.sq), ctl' = [owner |-> u, sq |-> Tail(ctl.sq)],
         Enter(t, "u_awake", NoSnap, u, FALSE),
         UNCHANGED <<world, recursive, count, guard, sched, held>>
  PROVE  Inv'
<1> USE ThreadsAssumption, LocksAssumption
<1>1. /\ TypeOK /\ ctl.owner = t /\ held[t] = 0 /\ sched[t] = "on" /\ count = 0 /\ exists
      /\ guard = t /\ \A v \in Threads \ {t} : pc[v] \notin Inside
  BY Alone DEF Inv, ThreadInv, Unlocking, OwnerInv, Waiting, SchedInv, Inside, ExistsInv, UnderIdm
<1>s. /\ ctl.sq \in Seq(Threads) /\ Len(ctl.sq) >= 1 /\ u = ctl.sq[1]
      /\ Tail(ctl.sq) = RemoveAt(ctl.sq, 1) /\ Distinct(ctl.sq)
  BY <1>1, ControlTypes, TailIs DEF Inv, ListInv
<1>q. /\ Tail(ctl.sq) \in Seq(Threads)
      /\ \A v \in Threads : Contains(Tail(ctl.sq), v) <=> Contains(ctl.sq, v) /\ v # u
      /\ Distinct(Tail(ctl.sq))
  <2>1. 1 \in 1..Len(ctl.sq)
    BY <1>s
  <2>2. QED
    BY <1>s, <2>1, RemoveAtIs, RemoveAtHas, RemoveAtDistinct
<1>u. /\ Contains(ctl.sq, u) /\ u # t /\ pc[u] \in Waiting \ {"t_over"} /\ held[u] = 0
      /\ pc[u] \notin Inside
  <2>1. Contains(ctl.sq, u)
    BY <1>s DEF Contains
  <2>2. QED
    BY <1>1, <2>1 DEF Inv, ListInv, ThreadInv, Waiting
<1>2. ctl'.owner = u /\ ctl'.sq = Tail(ctl.sq) /\ ctl' \in Control
  BY <1>q DEF Control
<1>c. "u_awake" \in PCs /\ u \in Threads \union {NoThread}
  BY DEF PCs
<1>3. /\ pc'[t] = "u_awake" /\ Only(t) /\ next'[t] = u
      /\ pc' \in [Threads -> PCs] /\ timed' \in [Threads -> BOOLEAN]
      /\ snap' \in [Threads -> Control] /\ next' \in [Threads -> Threads \union {NoThread}]
  BY <1>1, <1>c, NoSnapType DEF Enter, TypeOK, ObjTypeOK, Only
<1>4. TypeOK'
  BY <1>1, <1>2, <1>3 DEF TypeOK, ObjTypeOK, world
<1>5. NoSave' /\ GuardInv' /\ ExistsInv'
    BY <1>1, <1>q, <1>u, <1>2, <1>3 DEF Inv, NoSave, SaveLabels, GuardInv, Inside,
     ExistsInv, UnderIdm, Only, world
<1>6. OwnerInv'
    BY <1>1, <1>q, <1>u, <1>2, <1>3 DEF Inv, OwnerInv, ThreadInv, Only, Waiting,
     Unlocking
<1>7. ListInv'
  <2>1. \A v \in Threads : ~Elect(v)'
    BY <1>1, <1>3 DEF Elect, Only, Inside
  <2>2. ASSUME NEW v \in Threads, Contains(ctl.sq, v)', v # t
        PROVE  pc'[v] \in Waiting \ {"t_over"} /\ ctl'.owner # v
    BY <1>q, <1>2, <1>3, <2>2 DEF Inv, ListInv, Only
  <2>3. ~Contains(ctl.sq, t)'
    BY <1>1, <1>q, <1>2 DEF Inv, ListInv
  <2>4. QED
    BY <1>q, <1>2, <2>1, <2>2, <2>3, ThreadsAssumption DEF ListInv
<1>8. ASSUME NEW v \in Threads PROVE ThreadInv(v)'
  <2>1. CASE v = t
    BY <1>1, <1>u, <1>2, <1>3, <2>1 DEF ThreadInv, Waiting, Unlocking, Inside, Only
  <2>2. CASE v # t
    <3>1. /\ pc'[v] = pc[v] /\ snap'[v] = snap[v] /\ next'[v] = next[v] /\ held'[v] = held[v]
          /\ pc[v] \notin Inside /\ ThreadInv(v)
      BY <1>1, <1>3, <1>8, <2>2 DEF Inv, Only
    <3>2. pc[v] \notin {"u_store", "u_awake"} /\ ~Unlocking(v) /\ ctl.owner # v
      BY <1>1, <1>8, <2>2, <3>1 DEF Inside, Unlocking, Inv, ThreadInv
    <3>3. ~Elect(v)
      BY <1>1, <1>8, <2>2 DEF Elect, Inside
    <3>4. pc[v] \in Waiting => Contains(ctl.sq, v)' \/ ctl'.owner = v
      BY <1>q, <1>2, <3>1, <3>2, <3>3 DEF ThreadInv
    <3>5. pc[v] # "idle" \/ ctl'.owner # v => held[v] = 0
      BY <1>u, <1>2, <3>1, <3>2 DEF ThreadInv
    <3>6. QED
      BY <3>1, <3>2, <3>4, <3>5 DEF ThreadInv, Unlocking
  <2>3. QED
    BY <2>1, <2>2
<1>9. ASSUME NEW v \in Threads PROVE SnapInv(v)' /\ SchedInv(v)'
    BY <1>1, <1>q, <1>u, <1>2, <1>3, <1>9 DEF Inv, SnapInv, SchedInv, Only, Inside
<1>10. ASSUME NEW v \in Threads PROVE ToldInv(v)'
  <2>1. (~Told(u) /\ ~Told(v)') \/ (v # u /\ (Told(v)' <=> Told(v)))
    BY <1>1, <1>u, <1>2, <1>3, <1>10 DEF Inv, ToldInv, Told, Only
  <2>2. v # u => ~Told(v)
    BY <1>1, <1>u, <1>10 DEF Inv, ToldInv, Told
  <2>3. Awaited(u)'
    BY <1>3 DEF Awaited
  <2>4. QED
    BY <1>2, <2>1, <2>2, <2>3 DEF ToldInv
<1>11. QED
  BY <1>4, <1>5, <1>6, <1>7, <1>8, <1>9, <1>10 DEF Inv

(***************************************************************************)
(* unlock unlinks another waiter; the owner is stored later.               *)
(***************************************************************************)
LEMMA HandNodeInv ==
  ASSUME Inv, NEW t \in Threads, NEW u \in Threads, pc[t] = "u_schedule", Contains(ctl.sq, u),
         ctl' = [ctl EXCEPT !.sq = Without(@, u)],
         Enter(t, "u_store", NoSnap, u, FALSE),
         UNCHANGED <<world, recursive, count, guard, sched, held>>
  PROVE  Inv'
<1> USE ThreadsAssumption, LocksAssumption
<1>1. /\ TypeOK /\ ctl.owner = t /\ held[t] = 0 /\ sched[t] = "on" /\ count = 0 /\ exists
      /\ guard = t /\ \A v \in Threads \ {t} : pc[v] \notin Inside
  BY Alone DEF Inv, ThreadInv, Unlocking, OwnerInv, Waiting, SchedInv, Inside, ExistsInv, UnderIdm
<1>q. /\ Without(ctl.sq, u) \in Seq(Threads)
      /\ \A v \in Threads : Contains(Without(ctl.sq, u), v) <=> Contains(ctl.sq, v) /\ v # u
      /\ Distinct(Without(ctl.sq, u))
  BY <1>1, ControlTypes, RemoveFirstHas DEF Inv, ListInv, Without
<1>u. /\ u # t /\ pc[u] \in Waiting \ {"t_over"} /\ held[u] = 0 /\ pc[u] \notin Inside
  BY <1>1 DEF Inv, ListInv, ThreadInv, Waiting
<1>2. ctl'.owner = t /\ ctl'.sq = Without(ctl.sq, u) /\ ctl' \in Control
  BY <1>1, <1>q DEF TypeOK, Control
<1>c. "u_store" \in PCs /\ u \in Threads \union {NoThread}
  BY DEF PCs
<1>3. /\ pc'[t] = "u_store" /\ Only(t) /\ next'[t] = u
      /\ pc' \in [Threads -> PCs] /\ timed' \in [Threads -> BOOLEAN]
      /\ snap' \in [Threads -> Control] /\ next' \in [Threads -> Threads \union {NoThread}]
  BY <1>1, <1>c, NoSnapType DEF Enter, TypeOK, ObjTypeOK, Only
<1>4. TypeOK'
  BY <1>1, <1>2, <1>3 DEF TypeOK, ObjTypeOK, world
<1>5. NoSave' /\ GuardInv' /\ ExistsInv'
    BY <1>1, <1>q, <1>u, <1>2, <1>3 DEF Inv, NoSave, SaveLabels, GuardInv, Inside,
     ExistsInv, UnderIdm, Only, world
<1>6. OwnerInv'
    BY <1>1, <1>q, <1>u, <1>2, <1>3 DEF Inv, OwnerInv, ThreadInv, Only, Waiting,
     Unlocking
<1>7. ListInv'
    BY <1>1, <1>q, <1>u, <1>2, <1>3 DEF Inv, ListInv, Only, Elect, Waiting
<1>8. ASSUME NEW v \in Threads PROVE ThreadInv(v)'
  <2>1. CASE v = t
    BY <1>1, <1>u, <1>2, <1>3, <2>1 DEF ThreadInv, Waiting, Unlocking, Inside, Only
  <2>2. CASE v # t
    BY <1>1, <1>q, <1>u, <1>2, <1>3, <1>8, <2>2
       DEF Inv, ThreadInv, Waiting, Unlocking, Elect, Inside, Only
  <2>3. QED
    BY <2>1, <2>2
<1>9. ASSUME NEW v \in Threads PROVE SnapInv(v)' /\ SchedInv(v)'
    BY <1>1, <1>q, <1>u, <1>2, <1>3, <1>9 DEF Inv, SnapInv, SchedInv, Only, Inside
<1>10. ASSUME NEW v \in Threads PROVE ToldInv(v)'
  <2>1. ~Told(v) /\ ~Told(v)'
    BY <1>1, <1>u, <1>2, <1>3, <1>10 DEF Inv, ToldInv, Told, Only
  <2>2. QED
    BY <1>1, <1>2, <1>3, <2>1 DEF ToldInv
<1>11. QED
  BY <1>4, <1>5, <1>6, <1>7, <1>8, <1>9, <1>10 DEF Inv

(***************************************************************************)
(* The owner is stored after the node was unlinked.                        *)
(***************************************************************************)
LEMMA ReownStoreInv ==
  ASSUME Inv, NEW t \in Threads, ReownStore(t)
  PROVE  Inv'
<1> USE ThreadsAssumption, LocksAssumption
<1>1. /\ TypeOK /\ pc[t] = "u_store" /\ ctl.owner = t /\ held[t] = 0 /\ sched[t] = "on"
      /\ count = 0 /\ exists
      /\ guard = t /\ \A v \in Threads \ {t} : pc[v] \notin Inside
  BY Alone DEF Inv, ReownStore, ThreadInv, Unlocking, OwnerInv, Waiting, SchedInv, Inside,
               ExistsInv, UnderIdm
<1>p. PICK u \in Threads : next[t] = u
  BY <1>1 DEF Inv, ThreadInv
<1>u. /\ u \in Threads /\ u # t /\ held[u] = 0
      /\ pc[u] \in {"l_sleep", "l_wait", "t_check", "t_test", "t_over", "t_lock"}
      /\ ~Contains(ctl.sq, u) /\ ~Told(u)
  <2>1. Elect(u) /\ Awaited(u)
    BY <1>1, <1>p DEF Elect, Awaited
  <2>2. QED
    BY <1>1, <1>p, <2>1 DEF Inv, ThreadInv, ListInv, ToldInv
<1>e. /\ ctl' = [ctl EXCEPT !.owner = u] /\ Enter(t, "u_awake", NoSnap, u, FALSE)
      /\ UNCHANGED <<guard, world, recursive, count, sched, held>>
  BY <1>p, <1>u DEF ReownStore, Again
<1>2. ctl'.owner = u /\ ctl'.sq = ctl.sq /\ ctl' \in Control
  BY <1>1, <1>u, <1>e, OwnerChange DEF TypeOK
<1>c. "u_awake" \in PCs /\ u \in Threads \union {NoThread}
  BY <1>u DEF PCs
<1>3. /\ pc'[t] = "u_awake" /\ Only(t) /\ next'[t] = u
      /\ pc' \in [Threads -> PCs] /\ timed' \in [Threads -> BOOLEAN]
      /\ snap' \in [Threads -> Control] /\ next' \in [Threads -> Threads \union {NoThread}]
  BY <1>1, <1>e, <1>c, NoSnapType DEF Enter, TypeOK, ObjTypeOK, Only
<1>4. TypeOK'
  BY <1>1, <1>e, <1>2, <1>3 DEF TypeOK, ObjTypeOK, world
<1>5. NoSave' /\ GuardInv' /\ ExistsInv'
    BY <1>1, <1>u, <1>e, <1>2, <1>3 DEF Inv, NoSave, SaveLabels, GuardInv, Inside,
     ExistsInv, UnderIdm, Only, world
<1>6. OwnerInv'
    BY <1>1, <1>u, <1>e, <1>2, <1>3 DEF Inv, OwnerInv, ThreadInv, Only, Waiting,
     Unlocking, Inside
<1>7. ListInv'
  <2>1. \A v \in Threads : ~Elect(v)'
    BY <1>1, <1>3 DEF Elect, Only, Inside
  <2>2. ASSUME NEW v \in Threads, Contains(ctl.sq, v)', v # t
        PROVE  pc'[v] \in Waiting \ {"t_over"} /\ ctl'.owner # v
    BY <1>u, <1>2, <1>3, <2>2 DEF Inv, ListInv, Only
  <2>3. ~Contains(ctl.sq, t)'
    BY <1>1, <1>2 DEF Inv, ListInv
  <2>4. QED
    BY <1>1, <1>u, <1>2, <2>1, <2>2, <2>3 DEF Inv, ListInv
<1>8. ASSUME NEW v \in Threads PROVE ThreadInv(v)'
  <2>1. CASE v = t
    BY <1>1, <1>u, <1>e, <1>2, <1>3, <2>1 DEF ThreadInv, Waiting, Unlocking, Inside, Only
  <2>2. CASE v # t
    <3>1. Elect(v) => v = u
      BY <1>1, <1>p, <1>8 DEF Elect, Inside
    <3>2. QED
      BY <1>1, <1>u, <1>e, <1>2, <1>3, <1>8, <2>2, <3>1
         DEF Inv, ThreadInv, Waiting, Unlocking, Inside, Only
  <2>3. QED
    BY <2>1, <2>2
<1>9. ASSUME NEW v \in Threads PROVE SnapInv(v)' /\ SchedInv(v)'
    BY <1>1, <1>u, <1>e, <1>2, <1>3, <1>9 DEF Inv, SnapInv, SchedInv, Only, Inside
<1>10. ASSUME NEW v \in Threads PROVE ToldInv(v)'
  <2>1. ~Told(v) /\ ~Told(v)'
    BY <1>1, <1>u, <1>e, <1>3, <1>10 DEF Inv, ToldInv, Told, Only
  <2>2. Awaited(u)'
    BY <1>3 DEF Awaited
  <2>3. QED
    BY <1>2, <2>1, <2>2 DEF ToldInv
<1>11. QED
  BY <1>4, <1>5, <1>6, <1>7, <1>8, <1>9, <1>10 DEF Inv

(***************************************************************************)
(* unlock awakens the new owner and ends.                                  *)
(***************************************************************************)
LEMMA UnlockAwakeInv ==
  ASSUME Inv, NEW t \in Threads, UnlockAwake(t)
  PROVE  Inv'
<1> USE ThreadsAssumption, LocksAssumption
<1> DEFINE u == next[t]
<1>1. /\ TypeOK /\ pc[t] = "u_awake" /\ ctl.owner = u /\ held[t] = 0 /\ sched[t] = "on"
      /\ guard = t /\ guard' = NoThread /\ \A v \in Threads \ {t} : pc[v] \notin Inside
      /\ timed[t] \in BOOLEAN
      /\ UNCHANGED <<world, recursive, ctl, count, held>>
  BY Alone DEF Inv, UnlockAwake, ThreadInv, SchedInv, Inside, TypeOK, ObjTypeOK
<1>u. /\ u \in Threads /\ u # t
      /\ pc[u] \in {"l_sleep", "l_wait", "t_check", "t_test", "t_over", "t_lock"}
      /\ ~Told(u)
  <2>1. Awaited(u)
    BY <1>1 DEF Awaited
  <2>2. QED
    BY <1>1, <2>1 DEF Inv, ThreadInv, ToldInv
<1>2. /\ \A v \in Threads \ {u} : sched'[v] = sched[v]
      /\ sched' \in [Threads -> SchedStates]
      /\ pc[u] = "l_sleep" => sched'[u] = "cancelled"
      /\ pc[u] = "l_wait" => sched'[u] = "ready"
      /\ pc[u] = "t_check" => sched'[u] \in {"ready", "signal"}
      /\ pc[u] \in {"t_test", "t_over", "t_lock"} => sched'[u] = "on"
  BY <1>1, <1>u DEF UnlockAwake, Inv, SchedInv, TypeOK, ObjTypeOK, SchedStates, Told
<1>3. /\ pc'[t] = "idle" /\ Only(t)
      /\ pc' \in [Threads -> PCs] /\ timed' \in [Threads -> BOOLEAN]
      /\ snap' \in [Threads -> Control] /\ next' \in [Threads -> Threads \union {NoThread}]
  BY <1>1, EnterIs, NoSnapType DEF UnlockAwake, Goto, PCs
<1>e. Awaited(u) /\ \A v \in Threads : ~Awaited(v)'
  BY <1>1, <1>3 DEF Awaited, Inside, Only
<1> HIDE DEF u
<1>4. TypeOK'
  BY <1>1, <1>2, <1>3 DEF TypeOK, ObjTypeOK, world
<1>5. NoSave' /\ GuardInv' /\ ExistsInv'
    BY <1>1, <1>u, <1>2, <1>3 DEF Inv, NoSave, SaveLabels, GuardInv, Inside,
     ExistsInv, UnderIdm, Only, world
<1>6. OwnerInv'
    BY <1>1, <1>u, <1>2, <1>3 DEF Inv, OwnerInv, ThreadInv, Only, Waiting, Unlocking
<1>7. ListInv'
    BY <1>1, <1>u, <1>2, <1>3 DEF Inv, ListInv, Only, Elect, Waiting
<1>8. ASSUME NEW v \in Threads PROVE ThreadInv(v)'
    BY <1>1, <1>u, <1>2, <1>3, <1>8 DEF Inv, ThreadInv, Only, Waiting, Unlocking,
     Elect, Inside
<1>9. ASSUME NEW v \in Threads PROVE SnapInv(v)' /\ SchedInv(v)'
    BY <1>1, <1>u, <1>2, <1>3, <1>9 DEF Inv, SnapInv, SchedInv, Only, Inside
<1>10. ASSUME NEW v \in Threads PROVE ToldInv(v)'
  <2>1. CASE v = u
    BY <1>1, <1>u, <1>2, <1>3, <1>e, <2>1 DEF ToldInv, Told, Only
  <2>2. CASE v # u
    BY <1>1, <1>u, <1>2, <1>3, <1>e, <1>10, <2>2 DEF Inv, ToldInv, Told, Only
  <2>3. QED
    BY <2>1, <2>2
<1>11. QED
  BY <1>4, <1>5, <1>6, <1>7, <1>8, <1>9, <1>10 DEF Inv

-----------------------------------------------------------------------------
(* The actions *)

(***************************************************************************)
(* The head of the list shows whether it is empty.                         *)
(***************************************************************************)
LEMMA FirstEmpty ==
  ASSUME NEW q \in Seq(Threads)
  PROVE  First(q) = NoThread <=> q = <<>>
BY ThreadsAssumption DEF First

(***************************************************************************)
(* If the head of a list is that of its copy, nothing was pushed since.    *)
(***************************************************************************)
LEMMA SameHead ==
  ASSUME NEW q \in Seq(Threads), NEW s \in Seq(Threads), Distinct(q), Extends(q, s),
         First(q) = First(s)
  PROVE  q = s
<1>1. CASE s = <<>>
  BY <1>1, FirstEmpty
<1>2. CASE s # <<>>
  <2>1. Len(s) >= 1 /\ Len(q) >= 1 /\ s[1] = q[1]
    BY <1>2, FirstEmpty DEF First
  <2> DEFINE k == 1 + Len(q) - Len(s)
  <2>2. s[1] = q[k] /\ k \in 1..Len(q)
    BY <2>1 DEF Extends
  <2>3. k = 1
    <3> HIDE DEF k
    <3>1. 1 \in 1..Len(q) /\ q[1] = q[k]
      BY <2>1, <2>2
    <3>2. QED
      BY <2>2, <3>1 DEF Distinct
  <2>4. Len(q) = Len(s)
    BY <2>3
  <2>5. \A i \in 1..Len(s) : s[i] = q[i]
    BY <2>4 DEF Extends
  <2>6. QED
    BY <2>4, <2>5, SeqEqual
<1>3. QED
  BY <1>1, <1>2

(***************************************************************************)
(* Who is in the copy is in the list.                                      *)
(***************************************************************************)
LEMMA CopyIsQueued ==
  ASSUME NEW q \in Seq(Threads), NEW s \in Seq(Threads), Extends(q, s), NEW t, Contains(s, t)
  PROVE  Contains(q, t)
<1>1. PICK i \in 1..Len(s) : s[i] = t
  BY DEF Contains
<1> DEFINE k == i + Len(q) - Len(s)
<1>2. k \in 1..Len(q) /\ q[k] = s[i]
  BY DEF Extends
<1> HIDE DEF k
<1>3. QED
  BY <1>1, <1>2 DEF Contains

(***************************************************************************)
(* try_lock keeps the invariant, from wherever it is called.               *)
(***************************************************************************)
LEMMA TryLockInv ==
  ASSUME Inv, NEW t \in Threads, NEW from \in {"idle", "l_own"},
         NEW free \in {"l_cas", "y_cas"}, NEW busy \in {"l_own", "idle"}, NEW to \in BOOLEAN,
         TryLock(t, from, free, busy, to)
  PROVE  Inv'
<1>1. /\ TypeOK /\ pc[t] = from /\ exists /\ ctl \in Control /\ NoSnap \in Control
      /\ UNCHANGED <<world, recursive, ctl, guard, sched>>
  BY NoSnapType DEF Inv, TryLock, Running, MayStep, TypeOK
<1>2. CASE ctl.owner = NoThread /\ Enter(t, free, ctl, NoThread, to) /\ UNCHANGED <<count, held>>
  BY <1>1, <1>2, ThreadsAssumption, OutsideInv
<1>3. CASE ctl.owner = t /\ recursive /\ count < MaxLocks /\ count' = count + 1 /\ ReturnLocked(t)
  <2>1. pc[t] = "idle"
    BY <1>1, <1>3 DEF Inv, OwnerInv, Waiting, Unlocking
  <2>2. QED
    BY <1>1, <1>3, <2>1, RelockInv
<1>4. CASE ctl.owner = t /\ Return(t) /\ UNCHANGED count
  <2>1. pc[t] = "idle"
    BY <1>1, <1>4 DEF Inv, OwnerInv, Waiting, Unlocking
  <2>2. Enter(t, "idle", NoSnap, NoThread, FALSE) /\ UNCHANGED held
    BY <1>4 DEF Return
  <2>3. QED
    BY <1>1, <1>4, <2>1, <2>2, OutsideInv
<1>5. CASE /\ ctl.owner \notin {t, NoThread} /\ Enter(t, busy, NoSnap, NoThread, to)
           /\ UNCHANGED <<count, held>>
  BY <1>1, <1>5, OutsideInv
<1>6. QED
  BY <1>2, <1>3, <1>4, <1>5 DEF TryLock

(***************************************************************************)
(* The two compare-and-swaps of try_lock keep it.                          *)
(***************************************************************************)
LEMMA CasInv ==
  ASSUME Inv, NEW t \in Threads, LockCas(t) \/ TryLockCas(t)
  PROVE  Inv'
<1>1. /\ TypeOK /\ pc[t] \in {"l_cas", "y_cas"} /\ exists /\ NoSnap \in Control
      /\ ctl.owner # t /\ snap[t].owner = NoThread /\ timed[t] \in BOOLEAN
      /\ UNCHANGED <<world, recursive, count, guard, sched>>
  BY NoSnapType DEF Inv, LockCas, TryLockCas, ThreadInv, OwnerInv, Waiting, Unlocking, ExistsInv,
                    UnderIdm, TypeOK, ObjTypeOK
<1>2. CASE Unchanged(t)
  <2>1. ctl.owner = NoThread
    BY <1>1, <1>2 DEF Unchanged
  <2>2. ctl' = [ctl EXCEPT !.owner = t] /\ ReturnLocked(t)
    BY <1>2 DEF LockCas, TryLockCas
  <2>3. QED
    BY <1>1, <2>1, <2>2, AcquireInv
<1>3. CASE ~Unchanged(t)
  <2>1. CASE LockCas(t)
    <3>1. Enter(t, "l_own", NoSnap, NoThread, timed[t]) /\ UNCHANGED <<ctl, held>>
      BY <1>3, <2>1 DEF LockCas, Goto
    <3>2. QED
      BY <1>1, <3>1, OutsideInv
  <2>2. CASE TryLockCas(t)
    <3>1. Enter(t, "idle", NoSnap, NoThread, FALSE) /\ UNCHANGED <<ctl, held>>
      BY <1>3, <2>2 DEF TryLockCas, Return
    <3>2. QED
      BY <1>1, <3>1, OutsideInv
  <2>3. QED
    BY <2>1, <2>2
<1>4. QED
  BY <1>2, <1>3

(***************************************************************************)
(* try_own keeps it.                                                       *)
(***************************************************************************)
LEMMA TryOwnInv ==
  ASSUME Inv, NEW t \in Threads, TryOwn(t)
  PROVE  Inv'
<1>1. CASE ctl.owner = NoThread
  BY <1>1, AcquireInv DEF TryOwn
<1>2. CASE ctl.owner # NoThread
  BY <1>2, EnqueueInv DEF TryOwn
<1>3. QED
  BY <1>1, <1>2

(***************************************************************************)
(* The wait loop keeps it: sleeping, the signal, and the timeout up to the *)
(* internal mutex.                                                         *)
(***************************************************************************)
LEMMA WaitInv ==
  ASSUME Inv, NEW t \in Threads,
         Sleep(t) \/ TakeSignal(t) \/ TimeOut(t) \/ TimeOutCheck(t) \/ TimeOutTest(t) \/ TimeOutOver(t)
  PROVE  Inv'
<1>1. /\ TypeOK /\ NoSnap \in Control /\ NoThread \in Threads \union {NoThread}
      /\ stopped = {} /\ toSleep = {} /\ timed[t] \in BOOLEAN
      /\ snap[t] \in Control /\ next[t] \in Threads \union {NoThread}
      /\ sched \in [Threads -> SchedStates] /\ fifo \in BOOLEAN
  BY NoSnapType, ControlTypes DEF Inv, NoSave, TypeOK, ObjTypeOK
<1>2. ASSUME sched[t] = "on" PROVE sched = [sched EXCEPT ![t] = "on"]
  BY <1>1, <1>2
<1>3. CASE Sleep(t) /\ sched[t] = "cancelled"
  <2>1. /\ pc[t] \in Waiting /\ ctl.owner = t /\ ~Awaited(t) /\ guard # t
    BY <1>3 DEF Inv, ToldInv, Told, Sleep, Waiting, GuardInv, Inside
  <2>2. /\ ReturnLocked(t) /\ sched' = [sched EXCEPT ![t] = "on"]
        /\ UNCHANGED <<world, recursive, ctl, count, guard>>
    BY <1>3 DEF Sleep, world
  <2>3. QED
    BY <2>1, <2>2, LeaveInv
<1>4. CASE Sleep(t) /\ sched[t] # "cancelled"
  <2>1. /\ pc[t] = "l_sleep" /\ ~Told(t) /\ Enter(t, "l_wait", NoSnap, NoThread, timed[t])
        /\ sched' = [sched EXCEPT ![t] = "asleep"]
        /\ UNCHANGED <<world, recursive, ctl, count, guard, held>>
    BY <1>1, <1>4 DEF Sleep, Goto, FallAsleep, Told, world
  <2>2. /\ "l_sleep" \in Waiting \ Inside /\ "l_wait" \in Waiting \ (Inside \union {"l_sleep"})
        /\ "asleep" \in SchedStates
    BY DEF Waiting, Inside, SchedStates
  <2>3. QED
    BY <1>1, <2>1, <2>2, WaitingInv
<1>5. CASE TakeSignal(t)
  <2>1. /\ pc[t] \in Waiting /\ ctl.owner = t /\ ~Awaited(t) /\ guard # t
    BY <1>5 DEF Inv, ToldInv, Told, TakeSignal, Signalled, Waiting, GuardInv, Inside
  <2>2. /\ ReturnLocked(t) /\ sched' = [sched EXCEPT ![t] = "on"]
        /\ UNCHANGED <<world, recursive, ctl, count, guard>>
    BY <1>5 DEF TakeSignal, Signalled
  <2>3. QED
    BY <2>1, <2>2, LeaveInv
<1>6. CASE TimeOut(t)
  <2>1. /\ pc[t] = "l_wait" /\ Enter(t, "t_check", NoSnap, NoThread, timed[t])
        /\ UNCHANGED <<world, recursive, ctl, count, guard, held>>
    BY <1>6 DEF TimeOut, TimedOut, Goto
  <2>s. UNCHANGED sched /\ sched[t] \in {"asleep", "ready", "signal"}
    BY <1>6 DEF TimeOut, TimedOut, Inv, SchedInv
  <2>2. PICK l \in {"t_check"}, x \in {"asleep", "ready", "signal"} :
          Enter(t, l, NoSnap, NoThread, timed[t]) /\ sched' = [sched EXCEPT ![t] = x]
    BY <1>1, <2>1, <2>s
  <2>3. /\ "l_wait" \in Waiting \ Inside /\ l \in Waiting \ (Inside \union {"l_sleep"})
        /\ x \in SchedStates /\ l # "t_over" /\ l # "l_wait"
    BY DEF Waiting, Inside, SchedStates
  <2>4. QED
    BY <1>1, <2>1, <2>2, <2>3, WaitingInv
<1>7. CASE TimeOutCheck(t)
  <2>1. /\ pc[t] = "t_check" /\ t \notin stopped
        /\ UNCHANGED <<world, recursive, ctl, count, guard, timed, snap, next, held>>
        /\ pc \in [Threads -> PCs] /\ timed \in [Threads -> BOOLEAN]
        /\ snap \in [Threads -> Control] /\ next \in [Threads -> Threads \union {NoThread}]
    BY <1>1, <1>7 DEF TimeOutCheck, TypeOK, ObjTypeOK
  <2>2. PICK l \in {"t_check", "t_test"}, x \in {"ready", "on"} :
          /\ l = "t_check" <=> x = "ready"
          /\ sched' = [sched EXCEPT ![t] = x]
          /\ pc' = [pc EXCEPT ![t] = l]
    BY <1>7, <2>1 DEF TimeOutCheck, CheckState
  <2>3. Enter(t, l, snap[t], next[t], timed[t])
    BY <2>1, <2>2 DEF Enter
  <2>4. /\ "t_check" \in Waiting \ Inside /\ l \in Waiting \ (Inside \union {"l_sleep"})
        /\ x \in SchedStates /\ l # "t_over" /\ l # "l_wait"
    BY DEF Waiting, Inside, SchedStates
  <2>5. QED
    BY <1>1, <2>1, <2>2, <2>3, <2>4, WaitingInv
<1>8. CASE TimeOutTest(t)
  <2> DEFINE l == IF ctl.sq = <<>> THEN "t_over" ELSE "t_lock"
  <2>1. /\ pc[t] = "t_test" /\ Enter(t, l, NoSnap, NoThread, timed[t])
        /\ UNCHANGED <<world, recursive, ctl, count, guard, held, sched>>
        /\ sched[t] = "on"
    BY <1>8 DEF TimeOutTest, Goto, Inv, SchedInv
  <2>2. l = "t_over" => ~Contains(ctl.sq, t)
    BY DEF Contains
  <2>3. /\ "t_test" \in Waiting \ Inside /\ l \in Waiting \ (Inside \union {"l_sleep"})
        /\ "on" \in SchedStates /\ l \notin {"l_wait", "t_check"}
    BY DEF Waiting, Inside, SchedStates
  <2> HIDE DEF l
  <2>4. QED
    BY <1>1, <1>2, <2>1, <2>2, <2>3, WaitingInv
<1>9. CASE TimeOutOver(t)
  <2>1. pc[t] = "t_over" /\ guard = NoThread /\ sched[t] = "on" /\ ReturnLocked(t)
        /\ UNCHANGED <<world, recursive, ctl, count, guard, sched>>
    BY <1>9 DEF TimeOutOver, Inv, SchedInv
  <2>2. ~Awaited(t) /\ ~Elect(t)
    BY <2>1, ThreadsAssumption DEF Inv, GuardInv, Inside, Awaited, Elect
  <2>3. ctl.owner = t /\ pc[t] \in Waiting /\ guard # t
    BY <2>1, <2>2, ThreadsAssumption DEF Inv, ThreadInv, ListInv, Waiting
  <2>4. QED
    BY <1>2, <2>1, <2>2, <2>3, LeaveInv
<1>10. QED
  BY <1>3, <1>4, <1>5, <1>6, <1>7, <1>8, <1>9

(***************************************************************************)
(* A timeout under the internal mutex keeps it.                            *)
(***************************************************************************)
LEMMA UnqueueInv ==
  ASSUME Inv, NEW t \in Threads, TimeOutUnqueue(t)
  PROVE  Inv'
<1>1. /\ TypeOK /\ pc[t] = "t_unqueue" /\ guard = t /\ NoSnap \in Control
      /\ timed[t] \in BOOLEAN /\ ctl.sq \in Seq(Threads) /\ Distinct(ctl.sq)
      /\ UNCHANGED <<world, recursive, count, sched>> /\ sched[t] = "on"
      /\ ctl = [owner |-> ctl.owner, sq |-> ctl.sq] /\ snap[t].sq \in Seq(Threads)
      /\ sched \in [Threads -> SchedStates]
  BY NoSnapType, ControlTypes, Alone
     DEF Inv, TimeOutUnqueue, TypeOK, ObjTypeOK, ListInv, Inside, SchedInv, Control
<1>2. Contains(snap[t].sq, t) => Contains(ctl.sq, t)
  <2>1. Extends(ctl.sq, snap[t].sq)
    BY <1>1 DEF Inv, SnapInv
  <2>2. QED
    BY <1>1, <2>1, CopyIsQueued
<1>3. Contains(ctl.sq, t) => Contains(snap[t].sq, t)
  BY <1>1 DEF Inv, SnapInv
<1>4. CASE First(snap[t].sq) = t /\ ~Unchanged(t)
  <2>1. /\ Enter(t, "t_load", NoSnap, NoThread, timed[t]) /\ UNCHANGED <<ctl, guard, held>>
    BY <1>4 DEF TimeOutUnqueue, Goto
  <2>2. QED
    BY <1>1, <2>1, LoadInv
<1>5. CASE ~(First(snap[t].sq) = t /\ ~Unchanged(t))
  <2>1. /\ guard' = NoThread /\ ctl' = [ctl EXCEPT !.sq = Without(@, t)]
        /\ IF Contains(snap[t].sq, t) THEN Return(t) ELSE ReturnLocked(t)
    BY <1>5 DEF TimeOutUnqueue
  <2>2. CASE Contains(ctl.sq, t)
    BY <1>1, <1>3, <2>1, <2>2, GiveUpInv
  <2>3. CASE ~Contains(ctl.sq, t)
    <3>1. Without(ctl.sq, t) = ctl.sq
      BY <2>3 DEF Without, RemoveFirst, Contains
    <3>2. UNCHANGED ctl /\ ReturnLocked(t)
      BY <1>1, <1>2, <2>1, <2>3, <3>1
    <3>3. ~Awaited(t) /\ ~Elect(t)
      BY <1>1 DEF Inv, ThreadInv, Awaited, Elect
    <3>4. ctl.owner = t /\ pc[t] \in Waiting
      BY <1>1, <2>3, <3>3 DEF Inv, ThreadInv, Waiting
    <3>5. sched' = [sched EXCEPT ![t] = "on"]
      BY <1>1
    <3>6. QED
      BY <1>1, <2>1, <3>2, <3>3, <3>4, <3>5, LeaveInv
  <2>4. QED
    BY <2>2, <2>3
<1>6. QED
  BY <1>4, <1>5

(***************************************************************************)
(* try_unlock keeps it, up to its compare-and-swap.                        *)
(***************************************************************************)
LEMMA UnlockInv ==
  ASSUME Inv, NEW t \in Threads, Unlock(t, "idle")
  PROVE  Inv'
<1>1. /\ TypeOK /\ pc[t] = "idle" /\ exists /\ ctl \in Control /\ NoSnap \in Control
      /\ held \in [Threads -> 0..MaxLocks + 1] /\ count \in 0..MaxLocks
      /\ timed[t] \in BOOLEAN /\ MaxLocks \in Nat
      /\ UNCHANGED <<world, recursive, ctl, guard, sched>>
      /\ held' = [held EXCEPT ![t] = IF held[t] > 0 THEN held[t] - 1 ELSE 0]
  BY NoSnapType, LocksAssumption DEF Inv, Unlock, Running, MayStep, TypeOK, ObjTypeOK
<1>2. CASE ctl.owner # t /\ Goto(t, "idle") /\ UNCHANGED count
  <2>1. held[t] = 0
    BY <1>1, <1>2 DEF Inv, ThreadInv
  <2>2. UNCHANGED held
    BY <1>1, <2>1
  <2>3. Enter(t, "idle", NoSnap, NoThread, timed[t])
    BY <1>2 DEF Goto
  <2>4. QED
    BY <1>1, <1>2, <2>2, <2>3, OutsideInv
<1>3. ASSUME ctl.owner = t PROVE held[t] = count + 1
  BY <1>1, <1>3 DEF Inv, OwnerInv, Waiting, Unlocking
<1>4. CASE ctl.owner = t /\ count > 0 /\ count' = count - 1 /\ Goto(t, "idle")
  <2>1. held' = [held EXCEPT ![t] = count]
    <3>1. (IF held[t] > 0 THEN held[t] - 1 ELSE 0) = count
      BY <1>1, <1>3, <1>4
    <3>2. QED
      BY <1>1, <3>1, Zenon
  <2>2. QED
    BY <1>1, <1>4, <2>1, UnlockOnceInv
<1>5. CASE /\ ctl.owner = t /\ count = 0 /\ UNCHANGED count
           /\ IF ctl.sq = <<>> THEN Enter(t, "u_cas", ctl, NoThread, FALSE) ELSE Goto(t, "u_lock")
  <2>1. held' = [held EXCEPT ![t] = 0]
    BY <1>1, <1>3, <1>5
  <2>2. CASE ctl.sq = <<>>
    BY <1>1, <1>5, <2>1, <2>2, UnlockBeginInv
  <2>3. CASE ctl.sq # <<>>
    <3>1. PICK l \in {"u_lock"} : Enter(t, l, NoSnap, NoThread, timed[t])
      BY <1>5, <2>3 DEF Goto
    <3>2. l \in {"u_cas", "u_lock"} /\ l # "u_cas" /\ ctl.owner = t /\ count = 0 /\ UNCHANGED count
      BY <1>5
    <3>3. /\ pc[t] = "idle" /\ exists /\ NoSnap \in Control /\ timed[t] \in BOOLEAN
          /\ l = "u_cas" => NoSnap.sq = <<>>
          /\ UNCHANGED <<world, recursive, ctl, count, guard, sched>>
      BY <1>1, <3>2
    <3>4. QED
      BY <2>1, <3>1, <3>2, <3>3, UnlockBeginInv
  <2>4. QED
    BY <2>2, <2>3
<1>6. QED
  BY <1>2, <1>4, <1>5 DEF Unlock

(***************************************************************************)
(* The compare-and-swap of unlock, and reown with nobody queued, keep it.  *)
(***************************************************************************)
LEMMA UnlockCasInv ==
  ASSUME Inv, NEW t \in Threads, UnlockCas(t) \/ ReownNobody(t)
  PROVE  Inv'
<1>1. /\ TypeOK /\ pc[t] \in {"u_cas", "u_schedule"} /\ snap[t].sq = <<>> /\ NoSnap \in Control
      /\ timed[t] \in BOOLEAN /\ ctl.sq \in Seq(Threads)
      /\ UNCHANGED <<world, recursive, count, sched, held>>
  BY NoSnapType, ControlTypes DEF Inv, UnlockCas, ReownNobody, ThreadInv, TypeOK, ObjTypeOK
<1>g. (pc[t] = "u_cas" => guard # t) /\ (pc[t] = "u_schedule" => guard = t)
  BY DEF Inv, GuardInv, Inside
<1>2. CASE Unchanged(t)
  <2>1. First(ctl.sq) = NoThread
    BY <1>1, <1>2 DEF Unchanged, First
  <2>2. ctl.sq = <<>>
    BY <1>1, <2>1, FirstEmpty
  <2>3. /\ ctl' = [ctl EXCEPT !.owner = NoThread] /\ Goto(t, "idle")
        /\ guard' = IF guard = t THEN NoThread ELSE guard
    BY <1>g, <1>2 DEF UnlockCas, ReownNobody
  <2>4. QED
    BY <1>1, <2>2, <2>3, ReleaseInv
<1>3. CASE ~Unchanged(t)
  <2>1. CASE UnlockCas(t)
    <3>1. PICK l \in {"u_lock"} : Enter(t, l, NoSnap, NoThread, timed[t]) /\ UNCHANGED <<ctl, guard>>
      BY <1>3, <2>1 DEF UnlockCas, Goto
    <3>2. pc[t] = "u_cas" /\ l = "u_lock" /\ l \notin {"t_unqueue", "u_schedule"}
      BY <2>1 DEF UnlockCas
    <3>3. QED
      BY <1>1, <3>1, <3>2, LoadInv
  <2>2. CASE ReownNobody(t)
    <3>1. PICK l \in {"u_load"} : Enter(t, l, NoSnap, NoThread, timed[t]) /\ UNCHANGED <<ctl, guard>>
      BY <1>3, <2>2 DEF ReownNobody, Goto
    <3>2. /\ pc[t] \in {"u_load", "u_schedule"} /\ l \in {"u_load", "u_schedule"}
          /\ l \notin {"t_unqueue", "u_schedule"}
      BY <2>2 DEF ReownNobody
    <3>3. QED
      BY <1>1, <3>1, <3>2, LoadInv
  <2>3. QED
    BY <2>1, <2>2
<1>4. QED
  BY <1>2, <1>3

(***************************************************************************)
(* schedule serves somebody who is in the list.                            *)
(***************************************************************************)
LEMMA ServedIsQueued ==
  ASSUME NEW q \in Seq(Threads), q # <<>>, NEW u \in ServedFirst(q)
  PROVE  Contains(q, u)
<1>1. Len(q) \in 1..Len(q)
  OBVIOUS
<1>2. QED
  BY <1>1 DEF ServedFirst, Contains, Last

(***************************************************************************)
(* reown keeps it, whichever waiter the protocol serves.                   *)
(***************************************************************************)
LEMMA ReownInv ==
  ASSUME Inv, NEW t \in Threads, NEW u \in Threads, ReownHead(t, u) \/ ReownNode(t, u)
  PROVE  Inv'
<1> DEFINE s == snap[t].sq
<1>1. /\ TypeOK /\ pc[t] = "u_schedule" /\ s # <<>> /\ u \in ServedFirst(s) /\ NoSnap \in Control
      /\ timed[t] \in BOOLEAN /\ ctl.sq \in Seq(Threads) /\ s \in Seq(Threads)
      /\ UNCHANGED <<world, recursive, count, guard, sched, held>>
  BY NoSnapType, ControlTypes DEF Inv, ReownHead, ReownNode, TypeOK, ObjTypeOK, Control
<1>2. Extends(ctl.sq, s) /\ ~Again(u) /\ Distinct(ctl.sq)
  BY <1>1 DEF Inv, SnapInv, NoSave, SaveLabels, Again, ListInv
<1> HIDE DEF s
<1>3. CASE ReownHead(t, u) /\ Unchanged(t)
  <2>1. First(ctl.sq) = First(s) /\ u = Head(s)
    BY <1>3 DEF ReownHead, Unchanged, s
  <2>2. ctl.sq = s
    BY <1>1, <1>2, <2>1, SameHead
  <2>3. ctl' = [owner |-> u, sq |-> Tail(ctl.sq)] /\ Enter(t, "u_awake", NoSnap, u, FALSE)
    BY <1>3 DEF ReownHead
  <2>4. QED
    BY <1>1, <2>1, <2>2, <2>3, HandHeadInv
<1>4. CASE ReownHead(t, u) /\ ~Unchanged(t)
  <2>1. PICK l \in {"u_load"} : Enter(t, l, NoSnap, NoThread, timed[t]) /\ UNCHANGED ctl
    BY <1>4 DEF ReownHead, Goto
  <2>2. /\ pc[t] \in {"u_load", "u_schedule"} /\ l \in {"u_load", "u_schedule"}
        /\ l \notin {"t_unqueue", "u_schedule"}
    BY <1>1
  <2>3. QED
    BY <1>1, <2>1, <2>2, LoadInv
<1>5. CASE ReownNode(t, u)
  <2>1. Contains(ctl.sq, u)
    BY <1>1, <1>2, ServedIsQueued, CopyIsQueued
  <2>2. ctl' = [ctl EXCEPT !.sq = Without(@, u)] /\ Enter(t, "u_store", NoSnap, u, FALSE)
    BY <1>2, <1>5 DEF ReownNode
  <2>3. QED
    BY <1>1, <2>1, <2>2, HandNodeInv
<1>6. QED
  BY <1>3, <1>4, <1>5

(***************************************************************************)
(* Every step without a savestate keeps the invariant.                     *)
(***************************************************************************)
LEMMA NextInv ==
  ASSUME Inv, [NextWithoutSave]_vars
  PROVE  Inv'
<1>1. CASE UNCHANGED vars
  BY <1>1 DEF Inv, vars, objVars, TypeOK, ObjTypeOK, NoSave, GuardInv, ListInv, ExistsInv, OwnerInv,
              ThreadInv, SnapInv, SchedInv, ToldInv, Told, Awaited, Elect, Unlocking
<1>2. ASSUME NEW t \in Threads, Call(t) \/ Step(t) \/ LockSpin(t) \/ TimeOut(t) \/ Schedule(t)
      PROVE  Inv'
  <2>0. timed[t] \in BOOLEAN /\ Timeouts \subseteq BOOLEAN /\ ctl \in Control
    BY DEF Inv, TypeOK, ObjTypeOK, Timeouts
  <2>1. CASE Call(t)
    <3>1. ASSUME NEW to \in Timeouts, Lock(t, to) PROVE Inv'
      BY <2>0, <3>1, TryLockInv DEF Lock
    <3>2. CASE TryLockCall(t)
      BY <3>2, TryLockInv DEF TryLockCall
    <3>3. QED
      BY <2>1, <3>1, <3>2, UnlockInv, DestroyInv DEF Call
  <2>2. CASE LockSpin(t)
    BY <2>0, <2>2, TryLockInv DEF LockSpin
  <2>3. CASE Step(t)
    <3>1. ASSUME NEW l, NEW m, LoadControl(t, l, m),
                 \/ l = "t_load" /\ m = "t_unqueue"
                 \/ l = "u_load" /\ m = "u_schedule"
          PROVE  Inv'
      BY <2>0, <3>1, LoadInv DEF LoadControl
    <3>2. CASE TimeOutLoad(t) \/ ReownLoad(t)
      BY <3>1, <3>2 DEF TimeOutLoad, ReownLoad
    <3>3. CASE TimeOutLock(t) \/ UnlockGuard(t)
      BY <3>3, TakeGuardInv DEF TimeOutLock, UnlockGuard
    <3>4. QED
      BY <2>3, <3>2, <3>3, CasInv, TryOwnInv, WaitInv, UnqueueInv, UnlockCasInv, ReownInv,
         ReownStoreInv, UnlockAwakeInv DEF Step
  <2>4. QED
    BY <1>2, <2>1, <2>2, <2>3, WaitInv, ScheduleInv
<1>3. QED
  BY <1>1, <1>2 DEF NextWithoutSave

(***************************************************************************)
(* The invariant holds initially.                                          *)
(***************************************************************************)
LEMMA InitInv == Init => Inv
<1> SUFFICES ASSUME Init PROVE Inv
  OBVIOUS
<1> USE ThreadsAssumption, LocksAssumption, SavesAssumption, NoSnapType DEF Init, ObjInit
<1>1. TypeOK
  BY DEF TypeOK, ObjTypeOK, PCs, SchedStates
<1>2. NoSave /\ GuardInv /\ ExistsInv /\ OwnerInv
  BY DEF NoSave, SaveLabels, GuardInv, Inside, ExistsInv, OwnerInv
<1>3. ListInv
  BY DEF ListInv, Distinct, Contains
<1>4. ASSUME NEW t \in Threads PROVE ThreadInv(t) /\ SnapInv(t) /\ SchedInv(t) /\ ToldInv(t)
  BY DEF ThreadInv, SnapInv, SchedInv, ToldInv, Told, Waiting, Unlocking
<1>5. QED
  BY <1>1, <1>2, <1>3, <1>4 DEF Inv

-----------------------------------------------------------------------------
(* The theorems *)

(***************************************************************************)
(* The inductive invariant holds in every behaviour without savestates,    *)
(* whatever is fair and however many threads there are.                    *)
(***************************************************************************)
THEOREM Invariance == NoSaveSpec => []Inv
BY InitInv, NextInv, PTL DEF NoSaveSpec

(***************************************************************************)
(* The fair specification, which the runs check, takes no savestates.      *)
(***************************************************************************)
LEMMA FairIsNoSave == FairSpec => NoSaveSpec
BY DEF FairSpec, NoSaveSpec

(***************************************************************************)
(* Mutual exclusion and the recursion depth: who was told CELL_OK owns the *)
(* mutex, as often as it was told so.                                      *)
(***************************************************************************)
THEOREM OwnershipIsExact == FairSpec => []Ownership
<1>1. Inv => Ownership
  <2> SUFFICES ASSUME Inv PROVE Ownership
    OBVIOUS
  <2>1. TypeOK /\ HeldIsOwned
    BY DEF Inv, HeldIsOwned, ThreadInv, TypeOK
  <2>2. DepthIsExact
    BY LocksAssumption DEF Inv, DepthIsExact, OwnerInv, ThreadInv, TypeOK, Waiting, Unlocking
  <2>3. QED
    BY <2>1, <2>2 DEF Ownership
<1>2. QED
  BY <1>1, Invariance, FairIsNoSave, PTL

(***************************************************************************)
(* The mutex is never free nor destroyed while a thread is queued, and no  *)
(* thread is queued twice.                                                 *)
(***************************************************************************)
THEOREM NobodyQueuesForNothing == FairSpec => []QueueHasOwner
<1>1. Inv => QueueHasOwner
  BY DEF Inv, QueueHasOwner, ListInv, ExistsInv, Distinct
<1>2. QED
  BY <1>1, Invariance, FairIsNoSave, PTL

(***************************************************************************)
(* A hand-over is never lost, and unlock awakens nobody who has left the   *)
(* lock call.                                                              *)
(***************************************************************************)
THEOREM HandoverIsExact == FairSpec => []WakeupsAreExact
<1>1. Inv => WakeupsAreExact
  <2> SUFFICES ASSUME Inv PROVE WakeupsAreExact
    OBVIOUS
  <2>1. AwakeIsOnTime
    BY DEF Inv, AwakeIsOnTime, ThreadInv
  <2>2. ASSUME NEW t \in Threads, ctl.owner = t, held[t] = 0, ~Unlocking(t),
               pc[t] \notin {"t_check", "t_test", "t_over", "t_lock", "t_load", "t_unqueue"}
        PROVE  \/ \E u \in Threads : pc[u] = "u_awake" /\ next[u] = t
               \/ pc[t] = "l_sleep" /\ sched[t] = "cancelled"
               \/ pc[t] = "l_wait" /\ sched[t] \in {"ready", "signal"}
    <3>1. pc[t] \in {"l_sleep", "l_wait"}
      BY <2>2 DEF Inv, OwnerInv, Waiting, TypeOK
    <3>2. CASE Told(t)
      BY <3>1, <3>2 DEF Told, Inv, SchedInv
    <3>3. CASE Awaited(t)
      <4>1. PICK u \in Threads : pc[u] \in {"u_store", "u_awake"} /\ next[u] = t
        BY <3>3 DEF Awaited
      <4>2. pc[u] # "u_store"
        BY <2>2, <3>1, <4>1 DEF Inv, ThreadInv, Unlocking
      <4>3. QED
        BY <4>1, <4>2
    <3>4. QED
      BY <2>2, <3>1, <3>2, <3>3 DEF Inv, ToldInv
  <2>3. QED
    BY <2>1, <2>2 DEF WakeupsAreExact, HandoffIsSeen
<1>2. QED
  BY <1>1, Invariance, FairIsNoSave, PTL

-----------------------------------------------------------------------------
(* The hand-over lock *)

(***************************************************************************)
(* The abstract owner, as the control word and the thread that is about to *)
(* store the owner determine it.                                           *)
(***************************************************************************)
OwnerOf(p, n, o) ==
  IF \E t \in Threads : p[t] = "u_store"
  THEN n[CHOOSE t \in Threads : p[t] = "u_store"]
  ELSE o

(***************************************************************************)
(* While a thread is about to store the owner, the abstract owner is the   *)
(* waiter it has chosen.                                                   *)
(***************************************************************************)
LEMMA OwnerOfStore ==
  ASSUME NEW p, NEW n, NEW o, NEW t \in Threads, p[t] = "u_store",
         \A u \in Threads \ {t} : p[u] # "u_store"
  PROVE  OwnerOf(p, n, o) = n[t]
<1>1. (CHOOSE v \in Threads : p[v] = "u_store") = t
  OBVIOUS
<1>2. QED
  BY <1>1 DEF OwnerOf

(***************************************************************************)
(* While nobody is about to store an owner, the abstract owner is the one  *)
(* in the word.                                                            *)
(***************************************************************************)
LEMMA OwnerOfWord ==
  ASSUME NEW p, NEW n, NEW o, \A u \in Threads : p[u] # "u_store"
  PROVE  OwnerOf(p, n, o) = o
BY DEF OwnerOf

(***************************************************************************)
(* The refinement mapping of the owner, before and after a step, in terms  *)
(* of OwnerOf.                                                             *)
(***************************************************************************)
LEMMA AbstractOwnerIs ==
  AbstractOwner = OwnerOf(pc, next, ctl.owner) /\ AbstractOwner' = OwnerOf(pc', next', ctl'.owner)
BY DEF AbstractOwner, OwnerOf

(***************************************************************************)
(* At most one thread is about to store the owner, and then the owner in   *)
(* the word is that thread.                                                *)
(***************************************************************************)
LEMMA StoreIsUnique ==
  ASSUME Inv, NEW t \in Threads, pc[t] = "u_store"
  PROVE  ctl.owner = t /\ next[t] \in Threads /\ \A u \in Threads \ {t} : pc[u] # "u_store"
<1>1. \A u \in Threads \ {t} : pc[u] \notin Inside
  BY Alone DEF Inside
<1>2. QED
  BY <1>1 DEF Inside, Inv, ThreadInv, Unlocking

(***************************************************************************)
(* The abstract lock does not see a step that leaves the owner and the     *)
(* list alone and is not the storing of an owner.                          *)
(***************************************************************************)
LEMMA OwnerKept ==
  ASSUME Inv, NEW t \in Threads, pc[t] # "u_store", pc'[t] # "u_store", Only(t),
         ctl'.owner = ctl.owner
  PROVE  AbstractOwner' = AbstractOwner
<1>1. CASE \E u \in Threads : pc[u] = "u_store"
  <2>1. PICK u \in Threads : pc[u] = "u_store"
    BY <1>1
  <2>2. \A v \in Threads \ {u} : pc[v] # "u_store"
    BY <2>1, StoreIsUnique
  <2>3. OwnerOf(pc, next, ctl.owner) = next[u]
    BY <2>1, <2>2, OwnerOfStore
  <2>4. u # t /\ pc'[u] = "u_store" /\ next'[u] = next[u] /\ \A v \in Threads \ {u} : pc'[v] # "u_store"
    BY <2>1, <2>2 DEF Only
  <2>5. OwnerOf(pc', next', ctl'.owner) = next'[u]
    BY <2>4, OwnerOfStore
  <2>6. QED
    BY <2>3, <2>4, <2>5, AbstractOwnerIs
<1>2. CASE \A u \in Threads : pc[u] # "u_store"
  <2>1. \A u \in Threads : pc'[u] # "u_store"
    BY <1>2 DEF Only
  <2>2. QED
    BY <1>2, <2>1, OwnerOfWord, AbstractOwnerIs
<1>3. QED
  BY <1>1, <1>2

(***************************************************************************)
(* A step that leaves the word and the arrival order alone, away from the  *)
(* store of the owner, is a stutter of the hand-over lock.                 *)
(***************************************************************************)
LEMMA QuietRefines ==
  ASSUME Inv, NEW t \in Threads, pc[t] # "u_store", pc'[t] # "u_store", Only(t),
         UNCHANGED <<ctl, fifo>>
  PROVE  UNCHANGED Handoff!vars
BY OwnerKept DEF Handoff!vars

(***************************************************************************)
(* When no owner is about to be stored the abstract owner is the one in    *)
(* the word; it is somebody if the one in the word is.                     *)
(***************************************************************************)
LEMMA OwnerIs ==
  ASSUME Inv
  PROVE  /\ (\A u \in Threads : pc[u] # "u_store") => AbstractOwner = ctl.owner
         /\ ctl.owner = NoThread => AbstractOwner = NoThread
         /\ ctl.owner # NoThread => AbstractOwner # NoThread
<1>1. CASE \E u \in Threads : pc[u] = "u_store"
  <2>1. PICK u \in Threads : pc[u] = "u_store"
    BY <1>1
  <2>2. /\ ctl.owner = u /\ next[u] \in Threads
        /\ \A v \in Threads \ {u} : pc[v] # "u_store"
    BY <2>1, StoreIsUnique
  <2>3. OwnerOf(pc, next, ctl.owner) = next[u]
    BY <2>1, <2>2, OwnerOfStore
  <2>4. QED
    BY <2>1, <2>2, <2>3, AbstractOwnerIs, ThreadsAssumption
<1>2. CASE \A u \in Threads : pc[u] # "u_store"
  BY <1>2, OwnerOfWord, AbstractOwnerIs
<1>3. QED
  BY <1>1, <1>2

(***************************************************************************)
(* Going on from one label to another is quiet.                            *)
(***************************************************************************)
LEMMA EnterOnly ==
  ASSUME TypeOK, NEW t \in Threads, NEW l, NEW s, NEW n, NEW to, Enter(t, l, s, n, to)
  PROVE  pc'[t] = l /\ next'[t] = n /\ Only(t)
BY DEF Enter, TypeOK, ObjTypeOK, Only

(***************************************************************************)
(* A jump changes the local variables of its thread only.                  *)
(***************************************************************************)
LEMMA GotoOnly ==
  ASSUME TypeOK, NEW t \in Threads, NEW l, Goto(t, l)
  PROVE  pc'[t] = l /\ Only(t)
BY EnterOnly DEF Goto

(***************************************************************************)
(* A return changes the local variables of its thread only.                *)
(***************************************************************************)
LEMMA ReturnOnly ==
  ASSUME TypeOK, NEW t \in Threads, Return(t) \/ ReturnLocked(t)
  PROVE  pc'[t] = "idle" /\ Only(t)
BY EnterOnly DEF Return, ReturnLocked

(***************************************************************************)
(* Taking a free mutex is an abstract Acquire.                             *)
(***************************************************************************)
LEMMA AcquireRefines ==
  ASSUME Inv, NEW t \in Threads, pc[t] \in {"l_cas", "y_cas", "l_own"}, ctl.owner = NoThread,
         ctl' = [ctl EXCEPT !.owner = t], ReturnLocked(t), UNCHANGED fifo
  PROVE  Handoff!Next
<1>1. TypeOK /\ ctl \in Control
  BY DEF Inv, TypeOK
<1>2. ctl'.owner = t /\ ctl'.sq = ctl.sq
  BY <1>1, OwnerChange
<1>3. \A u \in Threads : pc[u] # "u_store" /\ pc'[u] # "u_store"
  BY <1>1, ReturnOnly, StoreIsUnique, ThreadsAssumption DEF Only
<1>4. AbstractOwner = NoThread /\ AbstractOwner' = t
  BY <1>2, <1>3, OwnerOfWord, AbstractOwnerIs
<1>5. Handoff!Acquire(t)
  BY <1>2, <1>4 DEF Handoff!Acquire
<1>6. QED
  BY <1>5 DEF Handoff!Next

(***************************************************************************)
(* Queueing is an abstract Enqueue: somebody owns the mutex.               *)
(***************************************************************************)
LEMMA EnqueueRefines ==
  ASSUME Inv, NEW t \in Threads, pc[t] = "l_own", ctl.owner # NoThread,
         ctl' = [ctl EXCEPT !.sq = <<t>> \o @], Goto(t, "l_sleep"), UNCHANGED fifo
  PROVE  Handoff!Next
<1>1. TypeOK /\ ctl \in Control /\ ~Contains(ctl.sq, t)
  BY DEF Inv, TypeOK, ListInv, Waiting
<1>2. ctl'.owner = ctl.owner /\ ctl'.sq = <<t>> \o ctl.sq
  BY <1>1 DEF Control
<1>3. AbstractOwner' = AbstractOwner /\ AbstractOwner # NoThread
  BY <1>1, <1>2, GotoOnly, OwnerKept, OwnerIs
<1>4. Handoff!Enqueue(t)
  BY <1>1, <1>2, <1>3 DEF Handoff!Enqueue, Handoff!Contains, Contains
<1>5. QED
  BY <1>4 DEF Handoff!Next

(***************************************************************************)
(* Leaving the list is an abstract GiveUp.                                 *)
(***************************************************************************)
LEMMA GiveUpRefines ==
  ASSUME Inv, NEW t \in Threads, pc[t] = "t_unqueue", Contains(ctl.sq, t),
         ctl' = [ctl EXCEPT !.sq = Without(@, t)], pc'[t] = "idle", Only(t), UNCHANGED fifo
  PROVE  Handoff!Next
<1>1. TypeOK /\ ctl \in Control
  BY DEF Inv, TypeOK
<1>2. ctl'.owner = ctl.owner /\ ctl'.sq = RemoveFirst(ctl.sq, t)
  BY <1>1 DEF Control, Without
<1>3. AbstractOwner' = AbstractOwner
  BY <1>2, OwnerKept
<1>i. PICK i \in 1..Len(ctl.sq) : ctl.sq[i] = t
  BY DEF Contains
<1>r. RemoveFirst(ctl.sq, t) = RemoveAt(ctl.sq, i)
  BY <1>1, <1>i, ControlTypes, RemoveFirstIs DEF Inv, ListInv
<1>4. Handoff!GiveUp(t)
  BY <1>2, <1>3, <1>i, <1>r DEF Handoff!GiveUp, Handoff!RemoveAt, RemoveAt
<1>5. QED
  BY <1>4 DEF Handoff!Next

(***************************************************************************)
(* Freeing the mutex is an abstract Release: nobody is queued.             *)
(***************************************************************************)
LEMMA ReleaseRefines ==
  ASSUME Inv, NEW t \in Threads, pc[t] \in {"u_cas", "u_schedule"}, ctl.sq = <<>>,
         ctl' = [ctl EXCEPT !.owner = NoThread], Goto(t, "idle"), UNCHANGED fifo
  PROVE  Handoff!Next
<1>1. TypeOK /\ ctl \in Control /\ ctl.owner = t
  BY DEF Inv, TypeOK, ThreadInv, Unlocking
<1>2. ctl'.owner = NoThread /\ ctl'.sq = ctl.sq
  BY <1>1, OwnerChange
<1>3. \A u \in Threads : pc[u] # "u_store" /\ pc'[u] # "u_store"
  BY <1>1, GotoOnly, StoreIsUnique DEF Only
<1>4. AbstractOwner = t /\ AbstractOwner' = NoThread
  BY <1>1, <1>2, <1>3, OwnerOfWord, AbstractOwnerIs
<1>5. Handoff!Release
  BY <1>2, <1>4, ThreadsAssumption DEF Handoff!Release
<1>6. QED
  BY <1>5 DEF Handoff!Next

(***************************************************************************)
(* Whom schedule serves from the copy may be next in the list: who was     *)
(* pushed since is newer.                                                  *)
(***************************************************************************)
LEMMA ServedMayBeNext ==
  ASSUME NEW q \in Seq(Threads), NEW s \in Seq(Threads), Distinct(q), Extends(q, s), s # <<>>,
         NEW u \in ServedFirst(s)
  PROVE  \E i \in 1..Len(q) :
           q[i] = u /\ \A j \in (i + 1)..Len(q) : ~fifo /\ Prio[q[j]] > Prio[q[i]]
<1> DEFINE d == Len(q) - Len(s)
<1>1. d \in Nat /\ Len(s) \in Nat /\ Len(q) = Len(s) + d /\ \A i \in 1..Len(s) : s[i] = q[i + d]
  BY DEF Extends
<1> HIDE DEF d
<1>2. PICK k \in 1..Len(s) :
        s[k] = u /\ \A j \in 1..Len(s) : j > k => ~fifo /\ Prio[s[j]] > Prio[s[k]]
  <2>1. CASE fifo
    <3>1. u = s[Len(s)] /\ Len(s) \in 1..Len(s)
      BY <2>1 DEF ServedFirst, Last
    <3>2. QED
      BY <3>1
  <2>2. CASE ~fifo
    <3>1. PICK k \in 1..Len(s) : s[k] = u /\ \A j \in 1..Len(s) \ {k} : Better(s, k, j)
      BY <2>2 DEF ServedFirst
    <3>2. ASSUME NEW j \in 1..Len(s), j > k PROVE Prio[s[j]] > Prio[s[k]]
      <4>1. Prio[s[j]] \in Nat /\ Prio[s[k]] \in Nat
        BY PrioAssumption
      <4>2. Better(s, k, j)
        BY <3>1, <3>2
      <4>3. QED
        BY <3>2, <4>1, <4>2 DEF Better
    <3>3. QED
      BY <2>2, <3>1, <3>2
  <2>3. QED
    BY <2>1, <2>2
<1>3. k + d \in 1..Len(q) /\ q[k + d] = u
  BY <1>1, <1>2
<1>4. ASSUME NEW j \in (k + d + 1)..Len(q) PROVE ~fifo /\ Prio[q[j]] > Prio[q[k + d]]
  <2>1. j - d \in 1..Len(s) /\ j - d > k /\ (j - d) + d = j
    BY <1>1
  <2>2. s[j - d] = q[j] /\ s[k] = q[k + d]
    BY <1>1, <2>1
  <2>3. QED
    BY <1>2, <2>1, <2>2
<1>5. QED
  BY <1>3, <1>4

(***************************************************************************)
(* Handing over is an abstract PassOn, when the head is taken together     *)
(* with the owner and when a node is unlinked before the owner is stored.  *)
(***************************************************************************)
LEMMA ReownRefines ==
  ASSUME Inv, NEW t \in Threads, NEW u \in Threads, ReownHead(t, u) \/ ReownNode(t, u)
  PROVE  Handoff!Next \/ UNCHANGED Handoff!vars
<1> DEFINE s == snap[t].sq
<1>1. /\ TypeOK /\ pc[t] = "u_schedule" /\ s # <<>> /\ u \in ServedFirst(s)
      /\ ctl.sq \in Seq(Threads) /\ s \in Seq(Threads) /\ UNCHANGED fifo /\ ctl \in Control
  BY ControlTypes DEF Inv, ReownHead, ReownNode, TypeOK, Control, world
<1>2. Extends(ctl.sq, s) /\ ~Again(u) /\ Distinct(ctl.sq)
  BY <1>1 DEF Inv, SnapInv, NoSave, SaveLabels, Again, ListInv
<1> HIDE DEF s
<1>3. PICK i \in 1..Len(ctl.sq) :
        ctl.sq[i] = u /\ \A j \in (i + 1)..Len(ctl.sq) : ~fifo /\ Prio[ctl.sq[j]] > Prio[ctl.sq[i]]
  BY <1>1, <1>2, ServedMayBeNext
<1>4. Handoff!MayBeNext(i)
  BY <1>3 DEF Handoff!MayBeNext
<1>5. RemoveFirst(ctl.sq, u) = RemoveAt(ctl.sq, i)
  BY <1>1, <1>2, <1>3, RemoveFirstIs
<1>6. /\ ctl.owner = t /\ AbstractOwner # NoThread
      /\ \A v \in Threads : pc[v] # "u_store"
  <2>1. ctl.owner = t
    BY <1>1 DEF Inv, ThreadInv, Unlocking
  <2>2. QED
    BY <1>1, <2>1, StoreIsUnique, OwnerIs, ThreadsAssumption
<1>7. ASSUME AbstractOwner' = u, ctl'.sq = RemoveAt(ctl.sq, i) PROVE Handoff!Next
  <2>1. Handoff!RemoveAt(ctl.sq, i) = RemoveAt(ctl.sq, i)
    BY DEF Handoff!RemoveAt, RemoveAt
  <2>2. Handoff!PassOn
    BY <1>1, <1>3, <1>4, <1>6, <1>7, <2>1 DEF Handoff!PassOn
  <2>3. QED
    BY <2>2 DEF Handoff!Next
<1>8. CASE ReownHead(t, u) /\ Unchanged(t)
  <2>1. First(ctl.sq) = First(s) /\ u = Head(s)
    BY <1>8 DEF ReownHead, Unchanged, s
  <2>2. ctl.sq = s
    BY <1>1, <1>2, <2>1, SameHead
  <2>3. Len(ctl.sq) >= 1 /\ u = ctl.sq[1] /\ Tail(ctl.sq) = RemoveAt(ctl.sq, 1)
    BY <1>1, <2>1, <2>2, TailIs
  <2>4. i = 1
    BY <1>2, <1>3, <2>3 DEF Distinct
  <2>a. ctl' = [owner |-> u, sq |-> Tail(ctl.sq)] /\ Enter(t, "u_awake", NoSnap, u, FALSE)
    BY <1>8 DEF ReownHead
  <2>5. /\ ctl'.owner = u /\ ctl'.sq = Tail(ctl.sq) /\ Enter(t, "u_awake", NoSnap, u, FALSE)
    BY <2>a
  <2>6. \A v \in Threads : pc'[v] # "u_store"
    <3>1. pc'[t] = "u_awake" /\ Only(t)
      BY <1>1, <2>5, EnterOnly
    <3>2. QED
      BY <1>6, <3>1 DEF Only
  <2>7. AbstractOwner' = u
    BY <2>5, <2>6, OwnerOfWord, AbstractOwnerIs
  <2>8. QED
    BY <1>7, <2>3, <2>4, <2>5, <2>7
<1>9. CASE ReownHead(t, u) /\ ~Unchanged(t)
  <2>1. Goto(t, "u_load") /\ UNCHANGED ctl
    BY <1>9 DEF ReownHead
  <2>2. QED
    BY <1>1, <2>1, GotoOnly, QuietRefines
<1>10. CASE ReownNode(t, u)
  <2>1. ctl' = [ctl EXCEPT !.sq = RemoveFirst(@, u)] /\ Enter(t, "u_store", NoSnap, u, FALSE)
    BY <1>2, <1>10 DEF ReownNode, Without
  <2>2. ctl'.sq = RemoveAt(ctl.sq, i)
    BY <1>1, <1>5, <2>1 DEF Control
  <2>3. pc'[t] = "u_store" /\ next'[t] = u /\ \A v \in Threads \ {t} : pc'[v] # "u_store"
    <3>1. pc'[t] = "u_store" /\ next'[t] = u /\ Only(t)
      BY <1>1, <2>1, EnterOnly, Zenon
    <3>2. QED
      BY <1>6, <3>1 DEF Only
  <2>4. AbstractOwner' = u
    <3>1. OwnerOf(pc', next', ctl'.owner) = next'[t]
      BY <2>3, OwnerOfStore
    <3>2. QED
      BY <2>3, <3>1, AbstractOwnerIs
  <2>5. QED
    BY <1>7, <2>2, <2>4
<1>11. QED
  BY <1>8, <1>9, <1>10

(***************************************************************************)
(* Storing the owner is not seen: it was passed on when the node was       *)
(* unlinked.                                                               *)
(***************************************************************************)
LEMMA StoreRefines ==
  ASSUME Inv, NEW t \in Threads, ReownStore(t)
  PROVE  UNCHANGED Handoff!vars
<1>1. /\ TypeOK /\ ctl \in Control /\ pc[t] = "u_store" /\ next[t] \in Threads
      /\ ctl.owner = t /\ \A u \in Threads \ {t} : pc[u] # "u_store"
  BY StoreIsUnique DEF Inv, ReownStore, TypeOK
<1>2. ~Again(next[t])
  BY <1>1 DEF Inv, NoSave, SaveLabels, Again
<1>3. /\ ctl' = [ctl EXCEPT !.owner = next[t]] /\ Enter(t, "u_awake", NoSnap, next[t], FALSE)
      /\ UNCHANGED fifo
  BY <1>2 DEF ReownStore, world
<1>4. ctl'.owner = next[t] /\ ctl'.sq = ctl.sq
  BY <1>1, <1>3, OwnerChange
<1>o. pc'[t] = "u_awake" /\ Only(t)
  BY <1>1, <1>3, EnterOnly, Zenon
<1>5. \A u \in Threads : pc'[u] # "u_store"
  BY <1>1, <1>o DEF Only
<1>6. AbstractOwner = next[t]
  BY <1>1, OwnerOfStore, AbstractOwnerIs
<1>7. AbstractOwner' = next[t]
  BY <1>4, <1>5, OwnerOfWord, AbstractOwnerIs
<1>8. QED
  BY <1>3, <1>4, <1>6, <1>7 DEF Handoff!vars

(***************************************************************************)
(* Without savestates every step is an abstract step, or one that the      *)
(* abstract lock does not see.                                             *)
(***************************************************************************)
LEMMA NextRefines ==
  ASSUME Inv, [NextWithoutSave]_vars
  PROVE  Handoff!Next \/ UNCHANGED Handoff!vars
<1>0. TypeOK
  BY DEF Inv
<1>1. CASE UNCHANGED vars
  <2>1. UNCHANGED <<pc, next, ctl, fifo>>
    BY <1>1 DEF vars, objVars
  <2>2. QED
    BY <2>1, AbstractOwnerIs DEF Handoff!vars
<1>2. ASSUME NEW t \in Threads, Call(t) \/ Step(t) \/ LockSpin(t) \/ TimeOut(t) \/ Schedule(t)
      PROVE  Handoff!Next \/ UNCHANGED Handoff!vars
  <2>1. ASSUME NEW l, NEW s, NEW n, NEW to, Enter(t, l, s, n, to), l # "u_store",
               pc[t] # "u_store", UNCHANGED <<ctl, fifo>>
        PROVE  UNCHANGED Handoff!vars
    BY <1>0, <2>1, EnterOnly, QuietRefines
  <2>2. ASSUME NEW l, Goto(t, l), l # "u_store", pc[t] # "u_store", UNCHANGED <<ctl, fifo>>
        PROVE  UNCHANGED Handoff!vars
    BY <2>1, <2>2 DEF Goto
  <2>3. ASSUME Return(t) \/ ReturnLocked(t), pc[t] # "u_store", UNCHANGED <<ctl, fifo>>
        PROVE  UNCHANGED Handoff!vars
    BY <1>0, <2>3, ReturnOnly, QuietRefines
  <2>4. ASSUME UNCHANGED <<pc, next, ctl, fifo>>
        PROVE  UNCHANGED Handoff!vars
    BY <2>4, AbstractOwnerIs DEF Handoff!vars
  <2>5. ASSUME NEW from, from # "u_store", NEW free, free # "u_store", NEW busy, busy # "u_store",
               NEW to, TryLock(t, from, free, busy, to)
        PROVE  UNCHANGED Handoff!vars
    <3>1. pc[t] # "u_store" /\ UNCHANGED <<ctl, fifo>>
      BY <2>5 DEF TryLock, Running, MayStep, world
    <3>2. \/ Enter(t, free, ctl, NoThread, to) \/ ReturnLocked(t) \/ Return(t)
          \/ Enter(t, busy, NoSnap, NoThread, to)
      BY <2>5 DEF TryLock
    <3>3. QED
      BY <2>1, <2>3, <2>5, <3>1, <3>2
  <2>6. CASE Call(t) \/ LockSpin(t)
    <3>1. ASSUME NEW to, Lock(t, to) PROVE UNCHANGED Handoff!vars
      BY <2>5, <3>1 DEF Lock
    <3>2. CASE LockSpin(t) \/ TryLockCall(t)
      BY <2>5, <3>2 DEF LockSpin, TryLockCall
    <3>3. CASE Unlock(t, "idle")
      <4>1. pc[t] # "u_store" /\ UNCHANGED <<ctl, fifo>>
        BY <3>3 DEF Unlock, Running, MayStep, world
      <4>2. Goto(t, "idle") \/ Enter(t, "u_cas", ctl, NoThread, FALSE) \/ Goto(t, "u_lock")
        BY <3>3 DEF Unlock
      <4>3. QED
        BY <2>1, <2>2, <4>1, <4>2
    <3>4. CASE Destroy(t)
      BY <2>4, <3>4 DEF Destroy, local
    <3>5. QED
      BY <2>6, <3>1, <3>2, <3>3, <3>4 DEF Call
  <2>7. CASE Schedule(t)
    BY <2>4, <2>7 DEF Schedule, ObjSchedule, world
  <2>8. CASE LockCas(t) \/ TryLockCas(t) \/ TryOwn(t)
    <3>1. /\ pc[t] \in {"l_cas", "y_cas", "l_own"} /\ UNCHANGED fifo
          /\ pc[t] # "l_own" => snap[t].owner = NoThread
      BY <2>8 DEF LockCas, TryLockCas, TryOwn, world, Inv, ThreadInv
    <3>2. CASE ctl' = [ctl EXCEPT !.owner = t] /\ ReturnLocked(t) /\ ctl.owner = NoThread
      BY <3>1, <3>2, AcquireRefines
    <3>3. CASE UNCHANGED ctl /\ (Goto(t, "l_own") \/ Return(t))
      BY <2>2, <2>3, <3>1, <3>3
    <3>4. CASE /\ pc[t] = "l_own" /\ ctl.owner # NoThread
               /\ ctl' = [ctl EXCEPT !.sq = <<t>> \o @] /\ Goto(t, "l_sleep")
      BY <3>1, <3>4, EnqueueRefines
    <3>5. QED
      BY <2>8, <3>1, <3>2, <3>3, <3>4 DEF LockCas, TryLockCas, TryOwn, Unchanged
  <2>9. CASE Sleep(t) \/ TakeSignal(t) \/ TimeOut(t) \/ TimeOutTest(t) \/ TimeOutOver(t)
    <3>1. pc[t] # "u_store" /\ UNCHANGED <<ctl, fifo>>
      BY <2>9 DEF Sleep, TakeSignal, Signalled, TimeOut, TimedOut, TimeOutTest, TimeOutOver, world
    <3>2. \/ ReturnLocked(t) \/ Goto(t, "l_wait") \/ Goto(t, "t_check") \/ Goto(t, "t_over")
          \/ Goto(t, "t_lock")
      BY <2>9 DEF Sleep, TakeSignal, TimeOut, TimeOutTest, TimeOutOver
    <3>3. QED
      BY <2>2, <2>3, <3>1, <3>2
  <2>10. CASE TimeOutCheck(t)
    <3>1. /\ pc[t] = "t_check" /\ UNCHANGED <<ctl, fifo, next, snap>>
          /\ \/ UNCHANGED pc
             \/ \E l \in {"t_test", "l_wait"} : pc' = [pc EXCEPT ![t] = l]
      BY <2>10 DEF TimeOutCheck, CheckState, world
    <3>2. pc'[t] # "u_store" /\ Only(t)
      BY <1>0, <3>1 DEF Only, TypeOK, ObjTypeOK
    <3>3. QED
      BY <3>1, <3>2, QuietRefines
  <2>11. CASE TimeOutLock(t) \/ TimeOutLoad(t) \/ UnlockGuard(t) \/ ReownLoad(t)
    <3>1. pc[t] # "u_store" /\ UNCHANGED <<ctl, fifo>>
      BY <2>11 DEF TimeOutLock, TimeOutLoad, UnlockGuard, ReownLoad, TakeGuard, LoadControl, world
    <3>2. \/ Goto(t, "t_load") \/ Goto(t, "u_load")
          \/ Enter(t, "t_unqueue", ctl, NoThread, timed[t])
          \/ Enter(t, "u_schedule", ctl, NoThread, timed[t])
      BY <2>11 DEF TimeOutLock, TimeOutLoad, UnlockGuard, ReownLoad, TakeGuard, LoadControl
    <3>3. QED
      BY <2>1, <2>2, <3>1, <3>2
  <2>12. CASE TimeOutUnqueue(t)
    <3>1. pc[t] = "t_unqueue" /\ UNCHANGED fifo
      BY <2>12 DEF TimeOutUnqueue, world
    <3>2. CASE Goto(t, "t_load") /\ UNCHANGED ctl
      BY <2>2, <3>1, <3>2
    <3>3. CASE ctl' = [ctl EXCEPT !.sq = Without(@, t)] /\ (Return(t) \/ ReturnLocked(t))
      <4>1. pc'[t] = "idle" /\ Only(t)
        BY <1>0, <3>3, ReturnOnly
      <4>2. CASE Contains(ctl.sq, t)
        BY <3>1, <3>3, <4>1, <4>2, GiveUpRefines
      <4>3. CASE ~Contains(ctl.sq, t)
        <5>1. Without(ctl.sq, t) = ctl.sq
          BY <4>3 DEF Without, RemoveFirst, Contains
        <5>2. UNCHANGED ctl
          BY <1>0, <3>3, <5>1, ControlTypes
        <5>3. QED
          BY <2>3, <3>1, <3>3, <5>2
      <4>4. QED
        BY <4>2, <4>3
    <3>4. QED
      BY <2>12, <3>2, <3>3 DEF TimeOutUnqueue
  <2>13. CASE UnlockCas(t) \/ ReownNobody(t)
    <3>1. /\ pc[t] \in {"u_cas", "u_schedule"} /\ snap[t].sq = <<>> /\ UNCHANGED fifo
          /\ ctl.sq \in Seq(Threads)
      BY <1>0, <2>13, ControlTypes DEF UnlockCas, ReownNobody, world, Inv, ThreadInv
    <3>2. CASE Unchanged(t)
      <4>1. First(ctl.sq) = NoThread
        BY <3>1, <3>2 DEF Unchanged, First
      <4>2. ctl.sq = <<>>
        BY <3>1, <4>1, FirstEmpty
      <4>3. QED
        BY <2>13, <3>1, <3>2, <4>2, ReleaseRefines DEF UnlockCas, ReownNobody
    <3>3. CASE ~Unchanged(t)
      BY <2>2, <2>13, <3>1, <3>3 DEF UnlockCas, ReownNobody
    <3>4. QED
      BY <3>2, <3>3
  <2>14. CASE UnlockAwake(t)
    BY <2>2, <2>14 DEF UnlockAwake, world
  <2>15. QED
    BY <1>2, <2>6, <2>7, <2>8, <2>9, <2>10, <2>11, <2>12, <2>13, <2>14, ReownRefines, StoreRefines
       DEF Step
<1>3. QED
  BY <1>1, <1>2 DEF NextWithoutSave

(***************************************************************************)
(* Without savestates the mutex implements the hand-over lock: nobody      *)
(* barges past the queue, and no waiter is overtaken against the protocol. *)
(***************************************************************************)
THEOREM MutexIsHandoffLock == FairSpec => ImplementsHandoff
<1>1. Init => Handoff!Init
  <2> SUFFICES ASSUME Init PROVE Handoff!Init
    OBVIOUS
  <2>1. ctl.owner = NoThread /\ ctl.sq = <<>> /\ fifo \in BOOLEAN
    BY DEF Init, ObjInit, NoSnap
  <2>2. \A t \in Threads : pc[t] # "u_store"
    BY DEF Init, ObjInit
  <2>3. QED
    BY <2>1, <2>2, OwnerOfWord, AbstractOwnerIs DEF Handoff!Init
<1>2. Inv /\ [NextWithoutSave]_vars => [Handoff!Next]_(Handoff!vars)
  BY NextRefines
<1>3. QED
  BY <1>1, <1>2, Invariance, FairIsNoSave, PTL DEF NoSaveSpec, ImplementsHandoff, Handoff!Spec
=============================================================================
