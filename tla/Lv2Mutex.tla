------------------------------ MODULE Lv2Mutex ------------------------------
(***************************************************************************)
(* A mutex of the LV2 kernel (lv2_mutex and the sys_mutex_* system calls). *)
(* Owner and head of the waiter list share one 128-bit word that threads   *)
(* change with compare-and-swap: a waiter pushes itself without a lock,    *)
(* waiters are taken out only under the object's internal mutex.  unlock   *)
(* hands the mutex to a waiter and awakens it.                             *)
(*                                                                         *)
(* One step is one access to the word, one critical section of the         *)
(* scheduler, or one change of the internal mutex.  An awake that comes    *)
(* between queueing and sleeping cancels the sleep.                        *)
(***************************************************************************)
EXTENDS Lv2Obj

CONSTANT MaxLocks   \* the largest lock_count (0xffffffff in the code)

ASSUME LocksAssumption == MaxLocks \in Nat

VARIABLES
  recursive, \* fixed when the mutex is created
  ctl,       \* control: the owner and the waiters, newest first
  count,     \* lock_count
  snap,      \* snap[t]: the control word as t read it
  next,      \* next[t]: the waiter that t takes from the list
  held       \* held[t]: locks less unlocks, as the guest code of t counts

local == <<pc, timed, snap, next>>
vars == <<objVars, recursive, ctl, count, snap, next, held>>

Control == [owner : Threads \union {NoThread}, sq : Seq(Threads)]

\* "idle": guest code; "l_*": sys_mutex_lock; "t_*": its timeout path;
\* "y_cas": sys_mutex_trylock; "u_*": sys_mutex_unlock; "a_*": the call was
\* left with cpu_flag::again; "l_redo", "u_redo": it is made again.
PCs == {"idle", "y_cas",
        "l_cas", "l_own", "l_sleep", "l_wait", "l_redo", "a_lock",
        "t_check", "t_test", "t_over", "t_lock", "t_load", "t_unqueue",
        "u_cas", "u_lock", "u_load", "u_schedule", "u_store", "u_awake",
        "u_redo", "a_unlock"}

\* An identifier is resolved under the reader lock of the identifier table,
\* and these steps are taken before it is released.
UnderIdm == {"y_cas", "l_cas", "l_own", "l_sleep", "u_cas", "u_lock", "u_load",
             "u_schedule", "u_store", "u_awake"}

NoSnap == [owner |-> NoThread, sq |-> <<>>]

Init ==
  /\ ObjInit
  /\ recursive \in BOOLEAN
  /\ ctl = NoSnap
  /\ count = 0
  /\ snap = [t \in Threads |-> NoSnap]
  /\ next = [t \in Threads |-> NoThread]
  /\ held = [t \in Threads |-> 0]

-----------------------------------------------------------------------------
(* The control word *)

\* Variant for mutation: the comparison is left out.
UnchangedAlways(t) == TRUE

\* compare_and_swap sees the owner and the head of the list, not its nodes.
Unchanged(t) ==
  ctl.owner = snap[t].owner /\ First(ctl.sq) = First(snap[t].sq)

Again(t) == pc[t] = "a_lock"

\* t goes to l with these values of its local variables.
Enter(t, l, s, n, to) ==
  /\ pc' = [pc EXCEPT ![t] = l]
  /\ snap' = [snap EXCEPT ![t] = s]
  /\ next' = [next EXCEPT ![t] = n]
  /\ timed' = [timed EXCEPT ![t] = to]

Goto(t, l) == Enter(t, l, NoSnap, NoThread, timed[t])

\* A lock call returns CELL_OK.
ReturnLocked(t) ==
  /\ Enter(t, "idle", NoSnap, NoThread, FALSE)
  /\ held' = [held EXCEPT ![t] = @ + 1]

\* A call returns, with an error or from unlock.
Return(t) ==
  /\ Enter(t, "idle", NoSnap, NoThread, FALSE)
  /\ UNCHANGED held

-----------------------------------------------------------------------------
(* sys_mutex_lock and sys_mutex_trylock *)

\* Variants for mutation: the owner of a recursive mutex locks it once more
\* without counting; lock_count has no limit.
TryLockUncounted(t, from, free, busy, to) ==
  /\ Running(t, from)
  /\ \/ ctl.owner = NoThread /\ Enter(t, free, ctl, NoThread, to) /\ UNCHANGED held
     \/ ctl.owner = t /\ recursive /\ held[t] <= MaxLocks /\ ReturnLocked(t)
     \/ /\ ctl.owner \notin {t, NoThread}
        /\ Enter(t, busy, NoSnap, NoThread, to)
        /\ UNCHANGED held
  /\ UNCHANGED count
  /\ UNCHANGED <<world, recursive, ctl, guard, sched>>

TryLockUnlimited(t, from, free, busy, to) ==
  /\ Running(t, from)
  /\ \/ ctl.owner = NoThread /\ Enter(t, free, ctl, NoThread, to) /\ UNCHANGED <<count, held>>
     \/ ctl.owner = t /\ recursive /\ count' = count + 1 /\ ReturnLocked(t)
     \/ /\ ctl.owner \notin {t, NoThread}
        /\ Enter(t, busy, NoSnap, NoThread, to)
        /\ UNCHANGED <<count, held>>
  /\ UNCHANGED <<world, recursive, ctl, guard, sched>>

\* try_lock up to its compare-and-swap; free and busy are where to go on.
TryLock(t, from, free, busy, to) ==
  /\ Running(t, from)
  /\ \/ /\ ctl.owner = NoThread
        /\ Enter(t, free, ctl, NoThread, to)
        /\ UNCHANGED <<count, held>>
     \/ /\ ctl.owner = t
        /\ recursive /\ count < MaxLocks
        /\ count' = count + 1
        /\ ReturnLocked(t)
     \/ /\ ctl.owner = t
        /\ ~recursive \/ count = MaxLocks     \* EDEADLK, EKRESOURCE
        /\ Return(t)
        /\ UNCHANGED count
     \/ /\ ctl.owner \notin {t, NoThread}
        /\ Enter(t, busy, NoSnap, NoThread, to)
        /\ UNCHANGED <<count, held>>
  /\ UNCHANGED <<world, recursive, ctl, guard, sched>>

Lock(t, to) == TryLock(t, "idle", "l_cas", "l_own", to)

LockRedo(t) == TryLock(t, "l_redo", "l_cas", "l_own", timed[t])

\* The busy-waiting loop tries again as long as nobody is queued.
LockSpin(t) ==
  /\ ctl.sq = <<>>
  /\ TryLock(t, "l_own", "l_cas", "l_own", timed[t])

LockCas(t) ==
  /\ pc[t] = "l_cas"
  /\ IF Unchanged(t)
     THEN ctl' = [ctl EXCEPT !.owner = t] /\ ReturnLocked(t)
     ELSE Goto(t, "l_own") /\ UNCHANGED <<ctl, held>>
  /\ UNCHANGED <<world, recursive, count, guard, sched>>

TryLockCall(t) == TryLock(t, "idle", "y_cas", "idle", FALSE)

TryLockCas(t) ==
  /\ pc[t] = "y_cas"
  /\ IF Unchanged(t)
     THEN ctl' = [ctl EXCEPT !.owner = t] /\ ReturnLocked(t)
     ELSE Return(t) /\ UNCHANGED ctl
  /\ UNCHANGED <<world, recursive, count, guard, sched>>

\* Variant for mutation: a thread queues itself without looking at the owner.
TryOwnBlind(t) ==
  /\ pc[t] = "l_own"
  /\ ctl' = [ctl EXCEPT !.sq = <<t>> \o @]
  /\ Goto(t, "l_sleep")
  /\ UNCHANGED <<world, recursive, count, guard, sched, held>>

\* try_own: one atomic operation.
TryOwn(t) ==
  /\ pc[t] = "l_own"
  /\ IF ctl.owner = NoThread
     THEN ctl' = [ctl EXCEPT !.owner = t] /\ ReturnLocked(t)
     ELSE /\ ctl' = [ctl EXCEPT !.sq = <<t>> \o @]
          /\ Goto(t, "l_sleep")
          /\ UNCHANGED held
  /\ UNCHANGED <<world, recursive, count, guard, sched>>

\* Variant for mutation: the sleep does not notice that it was cancelled.
SleepRegardless(t) ==
  /\ pc[t] = "l_sleep"
  /\ Goto(t, "l_wait")
  /\ FallAsleep(t)
  /\ UNCHANGED <<fifo, exists, stopped, saves, faults, recursive, ctl, count, guard, held>>

\* sleep fails if it was cancelled: the mutex is ours.
Sleep(t) ==
  /\ pc[t] = "l_sleep"
  /\ IF sched[t] = "cancelled"
     THEN ReturnLocked(t) /\ sched' = [sched EXCEPT ![t] = "on"] /\ UNCHANGED toSleep
     ELSE Goto(t, "l_wait") /\ FallAsleep(t) /\ UNCHANGED held
  /\ UNCHANGED <<fifo, exists, stopped, saves, faults, recursive, ctl, count, guard>>

\* The wait loop takes the signal.
TakeSignal(t) ==
  /\ Signalled(t, "l_wait")
  /\ ReturnLocked(t)
  /\ UNCHANGED <<world, recursive, ctl, count, guard>>

\* Variants for mutation: a stopped thread does not look at the list; it
\* looks without the internal mutex.
WaitStoppedBlind(t) ==
  /\ Stopping(t, "l_wait")
  /\ ReturnLocked(t)
  /\ UNCHANGED <<world, recursive, ctl, count, guard, sched>>

WaitStoppedUnguarded(t) ==
  /\ pc[t] = "l_wait"
  /\ t \in stopped
  /\ sched[t] # "signal"
  /\ IF Contains(ctl.sq, t)
     THEN Goto(t, "a_lock") /\ UNCHANGED held
     ELSE ReturnLocked(t)
  /\ UNCHANGED <<world, recursive, ctl, count, guard, sched>>

\* The wait loop sees that the thread is stopped, and looks under the
\* internal mutex whether it is still queued.
WaitStopped(t) ==
  /\ Stopping(t, "l_wait")
  /\ IF Contains(ctl.sq, t)
     THEN Goto(t, "a_lock") /\ UNCHANGED held
     ELSE ReturnLocked(t)
  /\ UNCHANGED <<world, recursive, ctl, count, guard, sched>>

\* wait_timeout returns true.
TimeOut(t) ==
  /\ TimedOut(t, "l_wait")
  /\ Goto(t, "t_check")
  /\ UNCHANGED <<world, recursive, ctl, count, guard, sched, held>>

TimeOutCheck(t) ==
  /\ pc[t] = "t_check"
  /\ CheckState(t, "l_wait", "t_test")
  /\ UNCHANGED <<world, recursive, ctl, count, guard, timed, snap, next, held>>

TimeOutTest(t) ==
  /\ pc[t] = "t_test"
  /\ Goto(t, IF ctl.sq = <<>> THEN "t_over" ELSE "t_lock")
  /\ UNCHANGED <<world, recursive, ctl, count, guard, sched, held>>

\* Variant for mutation: the internal mutex is not awaited.
TimeOutOverAtOnce(t) ==
  /\ pc[t] = "t_over"
  /\ ReturnLocked(t)
  /\ UNCHANGED <<world, recursive, ctl, count, guard, sched>>

\* "Waiters queue is empty, so the thread must have been signaled".
TimeOutOver(t) ==
  /\ pc[t] = "t_over"
  /\ guard = NoThread
  /\ ReturnLocked(t)
  /\ UNCHANGED <<world, recursive, ctl, count, guard, sched>>

\* Take the internal mutex, then load the control word.
TakeGuard(t, from, to) ==
  /\ pc[t] = from
  /\ guard = NoThread
  /\ guard' = t
  /\ Goto(t, to)
  /\ UNCHANGED <<world, recursive, ctl, count, sched, held>>

LoadControl(t, from, to) ==
  /\ pc[t] = from
  /\ Enter(t, to, ctl, NoThread, timed[t])
  /\ UNCHANGED <<world, recursive, ctl, count, guard, sched, held>>

TimeOutLock(t) == TakeGuard(t, "t_lock", "t_load")
TimeOutLoad(t) == LoadControl(t, "t_load", "t_unqueue")

\* unqueue: a node in the list is unlinked in place, the head by replacing
\* the control word.  Who is not queued any more owns the mutex.
TimeOutUnqueue(t) ==
  /\ pc[t] = "t_unqueue"
  /\ IF First(snap[t].sq) = t /\ ~Unchanged(t)
     THEN /\ Goto(t, "t_load")
          /\ UNCHANGED <<ctl, guard, held>>
     ELSE /\ guard' = NoThread
          /\ ctl' = [ctl EXCEPT !.sq = Without(@, t)]
          /\ IF Contains(snap[t].sq, t) THEN Return(t)   \* ETIMEDOUT
             ELSE ReturnLocked(t)
  /\ UNCHANGED <<world, recursive, count, sched>>

-----------------------------------------------------------------------------
(* sys_mutex_unlock *)

\* try_unlock up to its compare-and-swap.
Unlock(t, from) ==
  /\ Running(t, from)
  /\ held' = [held EXCEPT ![t] = IF @ > 0 THEN @ - 1 ELSE 0]
  /\ \/ ctl.owner # t /\ Goto(t, "idle") /\ UNCHANGED count     \* EPERM
     \/ ctl.owner = t /\ count > 0 /\ count' = count - 1 /\ Goto(t, "idle")
     \/ /\ ctl.owner = t /\ count = 0
        /\ IF ctl.sq = <<>> THEN Enter(t, "u_cas", ctl, NoThread, FALSE)
           ELSE Goto(t, "u_lock")
        /\ UNCHANGED count
  /\ UNCHANGED <<world, recursive, ctl, guard, sched>>

UnlockCas(t) ==
  /\ pc[t] = "u_cas"
  /\ IF Unchanged(t)
     THEN ctl' = [ctl EXCEPT !.owner = NoThread] /\ Goto(t, "idle")
     ELSE Goto(t, "u_lock") /\ UNCHANGED ctl
  /\ UNCHANGED <<world, recursive, count, guard, sched, held>>

UnlockGuard(t) == TakeGuard(t, "u_lock", "u_load")
ReownLoad(t) == LoadControl(t, "u_load", "u_schedule")

\* reown when the list is empty: the mutex becomes free.
ReownNobody(t) ==
  /\ pc[t] = "u_schedule"
  /\ snap[t].sq = <<>>
  /\ IF Unchanged(t)
     THEN /\ ctl' = [ctl EXCEPT !.owner = NoThread]
          /\ guard' = NoThread
          /\ Goto(t, "idle")
     ELSE Goto(t, "u_load") /\ UNCHANGED <<ctl, guard>>
  /\ UNCHANGED <<world, recursive, count, sched, held>>

\* The waiter to serve is the head: owner and head change together.
ReownHead(t, u) ==
  /\ pc[t] = "u_schedule"
  /\ snap[t].sq # <<>> /\ u \in ServedFirst(snap[t].sq)
  /\ u = Head(snap[t].sq) /\ ~Again(u)
  /\ IF Unchanged(t)
     THEN /\ ctl' = [owner |-> u, sq |-> Tail(ctl.sq)]
          /\ Enter(t, "u_awake", NoSnap, u, FALSE)
     ELSE Goto(t, "u_load") /\ UNCHANGED ctl
  /\ UNCHANGED <<world, recursive, count, guard, sched, held>>

\* It is another node: it is unlinked in place (unless it has the again flag)
\* and the owner is stored afterwards.
ReownNode(t, u) ==
  /\ pc[t] = "u_schedule"
  /\ snap[t].sq # <<>> /\ u \in ServedFirst(snap[t].sq)
  /\ u # Head(snap[t].sq) \/ Again(u)
  /\ ctl' = [ctl EXCEPT !.sq = IF Again(u) THEN @ ELSE Without(@, u)]
  /\ Enter(t, "u_store", NoSnap, u, FALSE)
  /\ UNCHANGED <<world, recursive, count, guard, sched, held>>

ReownStore(t) ==
  /\ pc[t] = "u_store"
  /\ ctl' = [ctl EXCEPT !.owner = next[t]]
  /\ IF Again(next[t])
     THEN guard' = NoThread /\ Goto(t, "a_unlock")
     ELSE Enter(t, "u_awake", NoSnap, next[t], FALSE) /\ UNCHANGED guard
  /\ UNCHANGED <<world, recursive, count, sched, held>>

\* awake, and the end of unlock.
UnlockAwake(t) ==
  /\ pc[t] = "u_awake"
  /\ sched' = [sched EXCEPT ![next[t]] =
       IF @ = "asleep" THEN "ready"
       ELSE IF @ = "on" /\ pc[next[t]] = "l_sleep" THEN "cancelled"
       ELSE @]
  /\ guard' = NoThread
  /\ Goto(t, "idle")
  /\ UNCHANGED <<world, recursive, ctl, count, held>>

-----------------------------------------------------------------------------
(* The other calls and the environment *)

\* sys_mutex_destroy: alone with the identifier table, under the internal
\* mutex, and only if nobody owns the mutex.
Destroy(t) ==
  /\ Running(t, "idle")
  /\ \A u \in Threads : pc[u] \notin UnderIdm
  /\ guard = NoThread
  /\ ctl.owner = NoThread
  /\ exists' = FALSE
  /\ UNCHANGED <<fifo, stopped, toSleep, saves, faults, guard, sched, local>>
  /\ UNCHANGED <<recursive, ctl, count, held>>

\* A call made again finds the mutex destroyed: ESRCH.
RedoEsrch(t) ==
  /\ pc[t] \in {"l_redo", "u_redo"} /\ MayStep(t, pc[t])
  /\ ~exists
  /\ Return(t)
  /\ UNCHANGED <<world, recursive, ctl, count, guard, sched>>

Schedule(t) == ObjSchedule(t) /\ UNCHANGED <<recursive, ctl, count, snap, next, held>>

StopThread(t) == ObjStop(t) /\ UNCHANGED <<recursive, ctl, count, snap, next, held>>

Redo == [l \in {"a_lock", "a_unlock"} |-> IF l = "a_lock" THEN "l_redo" ELSE "u_redo"]

\* Variant for mutation: the list of waiters survives.
SaveAndLoadList ==
  ObjSaveAndLoad(Redo) /\ UNCHANGED <<recursive, ctl, count, snap, next, held>>

\* The owner and lock_count are saved, the list is not.
SaveAndLoad ==
  /\ ObjSaveAndLoad(Redo)
  /\ ctl' = [ctl EXCEPT !.sq = <<>>]
  /\ UNCHANGED <<recursive, count, snap, next, held>>

Call(t) ==
  \/ \E to \in Timeouts : Lock(t, to)
  \/ TryLockCall(t) \/ Unlock(t, "idle") \/ Destroy(t)

Step(t) ==
  \/ LockCas(t) \/ TryLockCas(t) \/ TryOwn(t) \/ Sleep(t) \/ TakeSignal(t)
  \/ TimeOutCheck(t) \/ TimeOutTest(t) \/ TimeOutOver(t) \/ TimeOutLock(t)
  \/ TimeOutLoad(t) \/ TimeOutUnqueue(t)
  \/ UnlockCas(t) \/ UnlockGuard(t) \/ ReownLoad(t)
  \/ ReownNobody(t) \/ ReownStore(t) \/ UnlockAwake(t)
  \/ \E u \in Threads : ReownHead(t, u) \/ ReownNode(t, u)

\* The steps that only a savestate causes.
SaveStep(t) ==
  \/ StopThread(t) \/ WaitStopped(t)
  \/ LockRedo(t) \/ Unlock(t, "u_redo") \/ RedoEsrch(t)

NextWithoutSave ==
  \E t \in Threads : Call(t) \/ Step(t) \/ LockSpin(t) \/ TimeOut(t) \/ Schedule(t)

Next == NextWithoutSave \/ (\E t \in Threads : SaveStep(t)) \/ SaveAndLoad

Spec == Init /\ [][Next]_vars

\* A thread inside the kernel goes on, and the scheduler runs whom it was
\* told to awaken.  Nobody has to make a call, and timeouts may stay away.
\* The hand-over is stated without savestates, which drop the queue.
Fairness == \A t \in Threads : WF_vars(Step(t)) /\ WF_vars(Schedule(t))

FairSpec == Init /\ [][NextWithoutSave]_vars /\ Fairness

-----------------------------------------------------------------------------
(* Properties *)

TypeOK ==
  /\ ObjTypeOK(PCs)
  /\ recursive \in BOOLEAN
  /\ ctl \in Control
  /\ count \in 0..MaxLocks
  /\ snap \in [Threads -> Control]
  /\ next \in [Threads -> Threads \union {NoThread}]
  /\ held \in [Threads -> 0..MaxLocks + 1]

(***************************************************************************)
(* Mutual exclusion: a thread that was told CELL_OK and has not begun to   *)
(* unlock is the owner in the control word, however it got there: by       *)
(* try_lock, try_own, a cancelled sleep, a signal, a late timeout or a     *)
(* stop.                                                                   *)
(***************************************************************************)
HeldIsOwned == \A t \in Threads : held[t] > 0 => ctl.owner = t

(***************************************************************************)
(* lock_count is the owner's recursion depth, and zero whenever the mutex  *)
(* changes hands.                                                          *)
(***************************************************************************)
DepthIsExact ==
  \A t \in Threads : ctl.owner = t => count = IF held[t] = 0 THEN 0 ELSE held[t] - 1

(***************************************************************************)
(* Who was told that it has the mutex owns it, and as often as it was told *)
(* so; the word and the counts keep to their types.                        *)
(***************************************************************************)
Ownership == TypeOK /\ HeldIsOwned /\ DepthIsExact

(***************************************************************************)
(* The mutex is never free, nor destroyed, while a thread is queued, and   *)
(* no thread is queued twice.                                              *)
(***************************************************************************)
QueueHasOwner ==
  /\ ctl.sq # <<>> => ctl.owner # NoThread /\ exists
  /\ \A i, j \in 1..Len(ctl.sq) : i # j => ctl.sq[i] # ctl.sq[j]

(***************************************************************************)
(* A mutex that was handed over is not lost: its new owner is still in the *)
(* lock call, and is signalled, cancelled, on its way out through the      *)
(* timeout path, or about to be awakened by the unlocking thread.          *)
(***************************************************************************)
Unlocking(t) == pc[t] \in {"u_cas", "u_lock", "u_load", "u_schedule", "u_store"}

HandoffIsSeen ==
  \A t \in Threads : ctl.owner = t /\ held[t] = 0 /\ ~Unlocking(t) =>
    \/ \E u \in Threads : pc[u] = "u_awake" /\ next[u] = t
    \/ pc[t] = "l_sleep" /\ sched[t] = "cancelled"
    \/ pc[t] = "l_wait" /\ sched[t] \in {"ready", "signal"}
    \/ pc[t] \in {"t_check", "t_test", "t_over", "t_lock", "t_load", "t_unqueue"}
    \/ pc[t] = "l_wait" /\ t \in stopped

(***************************************************************************)
(* unlock awakens nobody who has already left the lock call: a late awake  *)
(* would end a later, unrelated sleep of that thread.                      *)
(***************************************************************************)
AwakeIsOnTime ==
  \A t, u \in Threads : pc[t] \in {"u_store", "u_awake"} /\ next[t] = u =>
    \/ pc[u] \in {"l_sleep", "l_wait"}
    \/ pc[u] \in {"t_check", "t_test", "t_over", "t_lock"}
    \/ Again(u)

(***************************************************************************)
(* A hand-over awakens its new owner, and nobody else or later.            *)
(***************************************************************************)
WakeupsAreExact == HandoffIsSeen /\ AwakeIsOnTime

(***************************************************************************)
(* A thread that is made owner while it waits returns from its lock call,  *)
(* unless timeouts never cease: each takes the internal mutex, which is    *)
(* not fair, before a thread that competes for it.                         *)
(***************************************************************************)
HandoffCompletes ==
  <>[][\A t \in Threads : ~TimeOut(t)]_vars =>
    \A t \in Threads :
      (ctl.owner = t /\ pc[t] \in {"l_sleep", "l_wait"}) ~> held[t] > 0

(***************************************************************************)
(* An unlock that was deferred with cpu_flag::again can be completed after *)
(* the savestate is loaded ("Thread must complete the syscall after        *)
(* deserialization"): its thread still owns the mutex.                     *)
(***************************************************************************)
DeferredUnlockCompletes == \A t \in Threads : pc[t] = "u_redo" => ctl.owner = t
=============================================================================
