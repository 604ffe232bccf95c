----------------------------- MODULE Lv2LwMutex -----------------------------
(***************************************************************************)
(* A light-weight mutex of the PS3: a word in guest memory with the owner  *)
(* and the number of waiters, which the library functions sys_lwmutex_*    *)
(* change without a system call, and a kernel object (lv2_lwmutex) with a  *)
(* list of sleepers and one remembered signal.                             *)
(*                                                                         *)
(* An unlock that sees waiters does not free the word: it leaves it        *)
(* reserved and signals in the kernel; whom the kernel chooses, or who     *)
(* finds the signal, replaces "reserved" by itself.  With SYS_SYNC_RETRY   *)
(* the word is freed and the awakened waiter must compete for it again.    *)
(*                                                                         *)
(* A library function whose system call was left for a savestate is called *)
(* again from its beginning after loading.  Condition variables            *)
(* (lwcond_waiters) are left out.                                          *)
(***************************************************************************)
EXTENDS Lv2Obj

CONSTANT
  MaxLocks,                 \* the largest recursive_count
  Free, Reserved, Dead      \* lwmutex_free, lwmutex_reserved, lwmutex_dead: no threads

VARIABLES
  retry,     \* the protocol is SYS_SYNC_RETRY
  recursive, \* SYS_SYNC_RECURSIVE
  lock,      \* lock_var: owner and waiter
  count,     \* recursive_count
  sq,        \* the sleepers in the kernel, newest first
  signaled,  \* lv2_control.signaled: bit 0, or the sign bit with retry
  mode,      \* mode[t]: first call, aborted (called again), or retry loop
  next,      \* next[t]: the sleeper that t awakens
  lost,      \* an unlock that was called again after loading gave up
  held       \* held[t]: locks less unlocks, as the guest code of t counts

own == <<retry, recursive, lock, count, sq, signaled, mode, next, lost, held>>
vars == <<objVars, own>>

\* "l_*": sys_lwmutex_lock; "k_*": inside the kernel; "t_*": timeout of the
\* kernel's lock; "r_*": its result; "u_*": sys_lwmutex_unlock; "y_*", "d_*":
\* trylock and destroy; "a_*": left with cpu_flag::again, "*_redo": made again.
Sleeping == {"k_sleep", "k_wait", "t_check", "t_test", "t_over", "t_lock"}
PCs == Sleeping \union
  {"idle", "l_spin", "l_try", "l_dec", "l_own", "l_redo", "k_lock", "r_got", "r_err",
   "u_release", "k_unlock", "k_reown", "k_awake", "u_redo", "y_kernel", "y_own",
   "d_kernel", "d_try", "d_own", "d_dead", "d_unlock", "a_lock", "a_unlock"}

\* An identifier is resolved under the reader lock of the identifier table,
\* and these steps are taken before it is released.
UnderIdm == {"k_sleep", "k_reown", "k_awake"}

Init ==
  /\ ObjInit
  /\ retry \in BOOLEAN /\ (fifo => ~retry)
  /\ recursive \in BOOLEAN
  /\ lock = [owner |-> Free, waiter |-> 0]
  /\ count = 0
  /\ sq = <<>>
  /\ signaled = FALSE
  /\ mode = [t \in Threads |-> "first"]
  /\ next = [t \in Threads |-> NoThread]
  /\ lost = FALSE
  /\ held = [t \in Threads |-> 0]

-----------------------------------------------------------------------------
(* The word *)

Again(t) == pc[t] = "a_lock"

\* t goes to l, with this timeout and mode if the call goes on.
Enter(t, l, to, m) ==
  /\ pc' = [pc EXCEPT ![t] = l]
  /\ timed' = [timed EXCEPT ![t] = l # "idle" /\ to]
  /\ mode' = [mode EXCEPT ![t] = IF l = "idle" THEN "first" ELSE m]

Goto(t, l) == Enter(t, l, timed[t], mode[t])

\* The guest is told that it has locked the mutex, if this is the end.
Told(t, l) == held' = IF l = "idle" THEN [held EXCEPT ![t] = @ + 1] ELSE held

Take(t, l, to) ==
  /\ lock' = [lock EXCEPT !.owner = t]
  /\ Enter(t, l, to, mode[t])
  /\ Told(t, l)

Waiters(n) == lock' = [lock EXCEPT !.waiter = @ + n]

\* The compare-and-swap at the beginning of lock, trylock and destroy: where
\* to go on when the word was free, reserved, or another thread's.
Acquire(t, from, free, reserved, busy, to) ==
  /\ MayStep(t, from)
  /\ \/ lock.owner = Free /\ Take(t, free, to) /\ UNCHANGED count
     \/ /\ lock.owner = t
        /\ IF free = "idle" /\ recursive /\ count < MaxLocks
           THEN count' = count + 1 /\ Goto(t, "idle") /\ Told(t, "idle")
           ELSE UNCHANGED <<count, held>> /\ Goto(t, "idle")   \* EDEADLK, EKRESOURCE, EBUSY
        /\ UNCHANGED lock
     \/ /\ lock.owner \notin {Free, t}
        /\ Enter(t, CASE lock.owner = Dead -> "idle"           \* EINVAL
                      [] lock.owner = Reserved -> reserved
                      [] OTHER -> busy, to, mode[t])
        /\ UNCHANGED <<lock, count, held>>
  /\ UNCHANGED <<world, guard, sched, retry, recursive, sq, signaled, next, lost>>

-----------------------------------------------------------------------------
(* sys_lwmutex_lock and sys_lwmutex_trylock *)

Lock(t, to) == Acquire(t, "idle", "idle", "l_spin", "l_spin", to)

LockRedo(t) == Acquire(t, "l_redo", "idle", "l_spin", "l_spin", timed[t])

\* The busy-waiting loop takes the word when it is free.
LockSpin(t) ==
  /\ pc[t] = "l_spin"
  /\ lock.owner = Free
  /\ Take(t, "idle", FALSE)
  /\ UNCHANGED <<world, guard, sched, retry, recursive, count, sq, signaled, next, lost>>

\* The loop ends; the thread is counted, unless it was before the savestate.
LockCount(t) ==
  /\ pc[t] = "l_spin"
  /\ Waiters(IF mode[t] = "aborted" THEN 0 ELSE 1)
  /\ Goto(t, "l_try")
  /\ UNCHANGED <<world, guard, sched, retry, recursive, count, sq, signaled, next, lost, held>>

LockTry(t) ==
  /\ pc[t] = "l_try"
  /\ IF lock.owner = Free THEN Take(t, "l_dec", timed[t])
     ELSE Goto(t, "k_lock") /\ UNCHANGED <<lock, held>>
  /\ UNCHANGED <<world, guard, sched, retry, recursive, count, sq, signaled, next, lost>>

LockUncount(t) ==
  /\ pc[t] = "l_dec"
  /\ Waiters(-1)
  /\ Goto(t, "idle") /\ Told(t, "idle")
  /\ UNCHANGED <<world, guard, sched, retry, recursive, count, sq, signaled, next, lost>>

\* The system call has returned: CELL_OK, or EBUSY with retry, after which the
\* loop begins again unless the time is up; or ETIMEDOUT or ESRCH.
LockResult(t) ==
  /\ pc[t] \in {"r_got", "r_err"}
  /\ Waiters(-1)
  /\ \/ pc[t] = "r_err" /\ Goto(t, "idle")
     \/ pc[t] = "r_got" /\ ~retry /\ Goto(t, "l_own")
     \/ pc[t] = "r_got" /\ retry /\ Enter(t, "l_spin", timed[t], "loop")
     \/ pc[t] = "r_got" /\ retry /\ mode[t] = "loop" /\ timed[t] /\ Goto(t, "idle")
  /\ UNCHANGED <<world, guard, sched, retry, recursive, count, sq, signaled, next, lost, held>>

\* owner.exchange: the word must have been reserved.
OwnReserved(t, from, to) ==
  /\ pc[t] = from
  /\ Take(t, to, FALSE)
  /\ UNCHANGED <<world, guard, sched, retry, recursive, count, sq, signaled, next, lost>>

LockOwn(t) == OwnReserved(t, "l_own", "idle")

TryLock(t) == Acquire(t, "idle", "idle", "y_kernel", "idle", FALSE)

\* Variant for mutation: the signal stays.
KTryLockKeeps(t, from, got) ==
  /\ pc[t] = from
  /\ Goto(t, IF exists /\ signaled THEN got ELSE "idle")
  /\ UNCHANGED <<world, guard, sched, retry, recursive, lock, count, sq, signaled, next, lost, held>>

\* _sys_lwmutex_trylock
KTryLock(t, from, got) ==
  /\ pc[t] = from
  /\ Goto(t, IF exists /\ signaled THEN got ELSE "idle")
  /\ signaled' = (signaled /\ ~exists)
  /\ UNCHANGED <<world, guard, sched, retry, recursive, lock, count, sq, next, lost, held>>

TryLockKernel(t) == KTryLock(t, "y_kernel", "y_own")
TryLockOwn(t) == OwnReserved(t, "y_own", "idle")

-----------------------------------------------------------------------------
(* _sys_lwmutex_lock *)

\* A signal is taken, or the thread queued: try_own.
KLock(t) ==
  /\ pc[t] = "k_lock"
  /\ Goto(t, IF ~exists THEN "r_err" ELSE IF signaled THEN "r_got" ELSE "k_sleep")
  /\ signaled' = (signaled /\ ~exists)
  /\ sq' = IF exists /\ ~signaled THEN <<t>> \o sq ELSE sq
  /\ UNCHANGED <<world, guard, sched, retry, recursive, lock, count, next, lost, held>>

\* sleep fails if it was cancelled.
KSleep(t) ==
  /\ pc[t] = "k_sleep"
  /\ IF sched[t] = "cancelled"
     THEN Goto(t, "r_got") /\ sched' = [sched EXCEPT ![t] = "on"] /\ UNCHANGED toSleep
     ELSE Goto(t, "k_wait") /\ FallAsleep(t)
  /\ UNCHANGED <<fifo, exists, stopped, saves, faults, guard>>
  /\ UNCHANGED <<retry, recursive, lock, count, sq, signaled, next, lost, held>>

KSignal(t) ==
  /\ Signalled(t, "k_wait")
  /\ Goto(t, "r_got")
  /\ UNCHANGED <<world, guard, retry, recursive, lock, count, sq, signaled, next, lost, held>>

KStopped(t) ==
  /\ Stopping(t, "k_wait")
  /\ Goto(t, IF Contains(sq, t) THEN "a_lock" ELSE "r_got")
  /\ UNCHANGED <<world, guard, sched, retry, recursive, lock, count, sq, signaled, next, lost, held>>

TimeOut(t) ==
  /\ TimedOut(t, "k_wait")
  /\ Goto(t, "t_check")
  /\ UNCHANGED <<world, guard, sched, retry, recursive, lock, count, sq, signaled, next, lost, held>>

TimeOutCheck(t) ==
  /\ pc[t] = "t_check"
  /\ CheckState(t, "k_wait", "t_test")
  /\ UNCHANGED <<world, guard, timed, own>>

TimeOutTest(t) ==
  /\ pc[t] = "t_test"
  /\ Goto(t, IF sq = <<>> THEN "t_over" ELSE "t_lock")
  /\ UNCHANGED <<world, guard, sched, retry, recursive, lock, count, sq, signaled, next, lost, held>>

\* "Sleep queue is empty, so the thread must have been signaled": the internal
\* mutex is awaited.  Or the thread unqueues itself, if it is still queued.
TimeOutUnqueue(t) ==
  /\ pc[t] \in {"t_over", "t_lock"}
  /\ guard = NoThread
  /\ Goto(t, IF pc[t] = "t_lock" /\ Contains(sq, t) THEN "r_err" ELSE "r_got")
  /\ sq' = IF pc[t] = "t_lock" THEN Without(sq, t) ELSE sq
  /\ UNCHANGED <<world, guard, sched, retry, recursive, lock, count, signaled, next, lost, held>>

-----------------------------------------------------------------------------
(* sys_lwmutex_unlock, _sys_lwmutex_unlock and _sys_lwmutex_unlock2 *)

\* Variant for mutation: the word is freed without a look at the waiters.
UnlockFree(t, from) ==
  /\ MayStep(t, from)
  /\ held' = [held EXCEPT ![t] = IF from = "idle" /\ @ > 0 THEN @ - 1 ELSE @]
  /\ \/ /\ lock.owner # t
        /\ lost' = (lost \/ from = "u_redo")
        /\ Goto(t, "idle") /\ UNCHANGED <<lock, count>>
     \/ lock.owner = t /\ count > 0 /\ count' = count - 1 /\ Goto(t, "idle") /\ UNCHANGED <<lock, lost>>
     \/ /\ lock.owner = t /\ count = 0
        /\ lock' = [lock EXCEPT !.owner = Free] /\ Goto(t, "idle")
        /\ UNCHANGED <<count, lost>>
  /\ UNCHANGED <<world, guard, sched, retry, recursive, sq, signaled, next>>

\* The word is freed only if nobody is counted as waiting.  A call that is
\* made again finds the word reserved or free and gives up: EPERM.
Unlock(t, from) ==
  /\ MayStep(t, from)
  /\ held' = [held EXCEPT ![t] = IF from = "idle" /\ @ > 0 THEN @ - 1 ELSE @]
  /\ \/ /\ lock.owner # t
        /\ lost' = (lost \/ from = "u_redo")
        /\ Goto(t, "idle")
        /\ UNCHANGED <<lock, count>>
     \/ /\ lock.owner = t /\ count > 0
        /\ count' = count - 1
        /\ Goto(t, "idle")
        /\ UNCHANGED <<lock, lost>>
     \/ /\ lock.owner = t /\ count = 0
        /\ IF lock.waiter = 0
           THEN lock' = [lock EXCEPT !.owner = Free] /\ Goto(t, "idle")
           ELSE UNCHANGED lock /\ Goto(t, "u_release")
        /\ UNCHANGED <<count, lost>>
  /\ UNCHANGED <<world, guard, sched, retry, recursive, sq, signaled, next>>

UnlockRelease(t) ==
  /\ pc[t] = "u_release"
  /\ lock' = [lock EXCEPT !.owner = IF retry THEN Free ELSE Reserved]
  /\ Goto(t, "k_unlock")
  /\ UNCHANGED <<world, guard, sched, retry, recursive, count, sq, signaled, next, lost, held>>

\* try_unlock: the signal is left when nobody sleeps.
KUnlock(t) ==
  /\ pc[t] = "k_unlock"
  /\ signaled' = (signaled \/ (exists /\ sq = <<>>))
  /\ Goto(t, IF exists /\ sq # <<>> THEN "k_reown" ELSE "idle")
  /\ UNCHANGED <<world, guard, sched, retry, recursive, lock, count, sq, next, lost, held>>

\* reown under the internal mutex.  A sleeper that has left with the again
\* flag stays in the list, and the call is left too.
KReown(t) ==
  /\ pc[t] = "k_reown"
  /\ guard = NoThread
  /\ \/ /\ sq = <<>>
        /\ signaled' = TRUE
        /\ Goto(t, "idle")
        /\ UNCHANGED <<guard, sq, next>>
     \/ \E u \in IF sq = <<>> THEN {} ELSE ServedFirst(sq) :
          IF Again(u) THEN Goto(t, "a_unlock") /\ UNCHANGED <<guard, sq, next, signaled>>
          ELSE /\ sq' = Without(sq, u)
               /\ guard' = t
               /\ next' = [next EXCEPT ![t] = u]
               /\ Goto(t, "k_awake")
               /\ UNCHANGED signaled
  /\ UNCHANGED <<world, sched, retry, recursive, lock, count, lost, held>>

KAwake(t) ==
  /\ pc[t] = "k_awake"
  /\ sched' = [sched EXCEPT ![next[t]] =
       IF @ = "asleep" THEN "ready"
       ELSE IF @ = "on" /\ pc[next[t]] = "k_sleep" THEN "cancelled"
       ELSE @]
  /\ guard' = NoThread
  /\ next' = [next EXCEPT ![t] = NoThread]
  /\ Goto(t, "idle")
  /\ UNCHANGED <<world, retry, recursive, lock, count, sq, signaled, lost, held>>

-----------------------------------------------------------------------------
(* sys_lwmutex_destroy, the scheduler, savestates *)

Destroy(t) == Acquire(t, "idle", "d_kernel", "d_try", "idle", FALSE)

DestroyTry(t) == KTryLock(t, "d_try", "d_own")
DestroyOwn(t) == OwnReserved(t, "d_own", "d_kernel")

\* _sys_lwmutex_destroy: alone with the identifier table.
DestroyKernel(t) ==
  /\ pc[t] = "d_kernel"
  /\ \A u \in Threads : pc[u] \notin UnderIdm
  /\ guard = NoThread
  /\ exists' = (sq # <<>>)
  /\ Goto(t, IF sq = <<>> THEN "d_dead" ELSE "d_unlock")
  /\ UNCHANGED <<fifo, stopped, toSleep, saves, faults, guard, sched>>
  /\ UNCHANGED <<retry, recursive, lock, count, sq, signaled, next, lost, held>>

DestroyDead(t) ==
  /\ pc[t] = "d_dead"
  /\ lock' = [lock EXCEPT !.owner = Dead]
  /\ Goto(t, "idle")
  /\ UNCHANGED <<world, guard, sched, retry, recursive, count, sq, signaled, next, lost, held>>

Schedule(t) == ObjSchedule(t) /\ UNCHANGED own

StopThread(t) == ObjStop(t) /\ UNCHANGED own

\* The word is in guest memory, the signal is saved, the list is not.
Redo == [l \in {"a_lock", "a_unlock"} |-> IF l = "a_lock" THEN "l_redo" ELSE "u_redo"]

SaveAndLoad ==
  /\ ObjSaveAndLoad(Redo)
  /\ sq' = <<>>
  /\ mode' = [t \in Threads |-> IF Again(t) THEN "aborted" ELSE "first"]
  /\ UNCHANGED <<retry, recursive, lock, count, signaled, next, lost, held>>

Call(t) ==
  \/ \E to \in Timeouts : Lock(t, to)
  \/ TryLock(t) \/ Unlock(t, "idle") \/ Destroy(t)

Step(t) ==
  \/ LockRedo(t) \/ LockSpin(t) \/ LockCount(t) \/ LockTry(t) \/ LockUncount(t)
  \/ LockResult(t) \/ LockOwn(t) \/ TryLockKernel(t) \/ TryLockOwn(t)
  \/ KLock(t) \/ KSleep(t) \/ KSignal(t) \/ KStopped(t)
  \/ TimeOut(t) \/ TimeOutCheck(t) \/ TimeOutTest(t) \/ TimeOutUnqueue(t)
  \/ Unlock(t, "u_redo") \/ Unlock(t, "d_unlock") \/ UnlockRelease(t) \/ KUnlock(t)
  \/ KReown(t) \/ KAwake(t)
  \/ DestroyTry(t) \/ DestroyOwn(t) \/ DestroyKernel(t) \/ DestroyDead(t)

Next ==
  \/ \E t \in Threads : Call(t) \/ Step(t) \/ Schedule(t) \/ StopThread(t)
  \/ SaveAndLoad

Spec == Init /\ [][Next]_vars

-----------------------------------------------------------------------------
(* Properties *)

TypeOK ==
  /\ ObjTypeOK(PCs)
  /\ retry \in BOOLEAN /\ recursive \in BOOLEAN
  /\ lock \in [owner : Threads \union {Free, Reserved, Dead}, waiter : Nat]
  /\ count \in 0..MaxLocks
  /\ sq \in Seq(Threads)
  /\ signaled \in BOOLEAN
  /\ mode \in [Threads -> {"first", "aborted", "loop"}]
  /\ next \in [Threads -> Threads \union {NoThread}]
  /\ lost \in BOOLEAN
  /\ held \in [Threads -> 0..MaxLocks + 1]

(***************************************************************************)
(* Mutual exclusion: who was told that it has locked the mutex is in the   *)
(* word, and recursive_count is its depth.                                 *)
(***************************************************************************)
HeldIsOwned ==
  \A t \in Threads : held[t] > 0 => lock.owner = t /\ count = held[t] - 1

\* t has been given the reserved word, or has still to give it away.
Right(t) ==
  \/ pc[t] \in {"r_got", "l_own", "y_own", "d_own"}
  \/ pc[t] \in {"k_unlock", "k_reown", "a_unlock", "u_redo"}
  \/ pc[t] \in Sleeping /\ ~Contains(sq, t)

(***************************************************************************)
(* A reserved word belongs to exactly one: the signal in the kernel, the   *)
(* unlocking thread, or the thread that was chosen.  So the exception      *)
(* "Locking failed" is never thrown, and the mutex is not lost either,     *)
(* unless an unlock gave up after a savestate.                             *)
(***************************************************************************)
ReservedForOne ==
  ~retry =>
    Cardinality({t \in Threads : Right(t)}) + (IF signaled THEN 1 ELSE 0)
      = IF lock.owner = Reserved /\ ~lost THEN 1 ELSE 0

(***************************************************************************)
(* A word that an unlock has left reserved is never abandoned, savestate   *)
(* or not: the call that was to signal completes after loading ("Thread    *)
(* must complete the syscall after deserialization").                      *)
(***************************************************************************)
ReservedHasTaker ==
  ~retry /\ lock.owner = Reserved => signaled \/ \E t \in Threads : Right(t)

\* The threads that have added themselves to waiter.
Counted ==
  {t \in Threads : \/ pc[t] \in Sleeping \union {"l_try", "l_dec", "k_lock", "r_got", "r_err",
                                                 "a_lock", "l_redo"}
                   \/ pc[t] = "l_spin" /\ mode[t] = "aborted"}

(***************************************************************************)
(* Nobody is overlooked by an unlock that frees the word without a system  *)
(* call: waiter counts all who will sleep, and exactly them unless a       *)
(* retrying lock was called again after a savestate.                       *)
(***************************************************************************)
WaitersAreCounted ==
  /\ lock.waiter >= Cardinality(Counted)
  /\ (retry /\ saves > 0) \/ lock.waiter = Cardinality(Counted)

(***************************************************************************)
(* With SYS_SYNC_RETRY nobody sleeps in front of a free word: somebody is  *)
(* about to awaken a sleeper, or to take the word.  Timeouts are excluded: *)
(* a thread that is awakened late returns ETIMEDOUT without awakening the  *)
(* next one.                                                               *)
(***************************************************************************)
RetryIsAwakened ==
  retry /\ "timeout" \notin faults /\ lock.owner = Free /\ sq # <<>> =>
    \E t \in Threads : Right(t) \/ pc[t] \in {"k_awake", "l_spin", "l_try", "l_redo"}

(***************************************************************************)
(* A lock call that was awakened is still in the kernel: a late awake      *)
(* would end a later, unrelated sleep of its thread.                       *)
(***************************************************************************)
AwakeIsOnTime ==
  \A t \in Threads : pc[t] = "k_awake" => pc[next[t]] \in Sleeping
=============================================================================
