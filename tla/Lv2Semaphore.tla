---------------------------- MODULE Lv2Semaphore ----------------------------
(***************************************************************************)
(* A counting semaphore of the LV2 kernel (lv2_sema and the sys_semaphore  *)
(* system calls).  val counts the available permits and, when negative,    *)
(* the waiters.  Threads change val without a lock while it is and stays   *)
(* nonnegative; whatever concerns the waiters happens under the object's   *)
(* internal mutex.                                                         *)
(*                                                                         *)
(* One step is one access to val, one critical section of the scheduler,   *)
(* or one change of the waiter list or the internal mutex.  The values     *)
(* stay below 2^31: max - val, the largest, is compared as unsigned.       *)
(***************************************************************************)
EXTENDS Lv2Obj

CONSTANTS
  MaxVal,     \* max
  MaxPost     \* bound: the largest count given to post

ASSUME SemaAssumption == MaxVal \in Nat \ {0} /\ MaxPost \in Nat

VARIABLES
  val,       \* val
  sq,        \* the waiters, newest first
  seen,      \* seen[t]: val as t read it
  amount,    \* amount[t]: the count of its post call
  left,      \* how many waiters the posting thread still has to take out
  toAwake,   \* the waiters it has taken out (g_to_awake)
  credit     \* initial value plus permits posted less permits taken

local == <<pc, timed, seen, amount>>
vars == <<objVars, val, sq, seen, amount, left, toAwake, credit>>

\* "idle": guest code; "w_*": wait; "t_*": its timeout path; "p_*": post;
\* "a_*": the call was left with cpu_flag::again; "*_redo": it is made again.
PCs == {"idle", "w_cas", "w_lock", "w_dec", "w_sleep", "w_queue", "w_wait",
        "t_check", "t_lock", "t_unqueue", "t_undo", "a_wait", "w_redo",
        "p_cas", "p_lock", "p_op", "p_wake", "a_post", "p_redo"}

\* These steps are taken under the reader lock of the identifier table.
UnderIdm == {"w_cas", "w_lock", "w_dec", "w_sleep", "w_queue", "p_cas"}

Init ==
  /\ ObjInit
  /\ val \in 0..MaxVal
  /\ credit = val
  /\ sq = <<>>
  /\ seen = [t \in Threads |-> 0]
  /\ amount = [t \in Threads |-> 0]
  /\ left = 0
  /\ toAwake = {}

-----------------------------------------------------------------------------
Min2(a, b) == IF a < b THEN a ELSE b
Max2(a, b) == IF a > b THEN a ELSE b

Again(t) == pc[t] = "a_wait"

Enter(t, l, v, n, to) ==
  /\ pc' = [pc EXCEPT ![t] = l]
  /\ seen' = [seen EXCEPT ![t] = v]
  /\ amount' = [amount EXCEPT ![t] = n]
  /\ timed' = [timed EXCEPT ![t] = to]

Goto(t, l) == Enter(t, l, 0, amount[t], timed[t])

Return(t) == Enter(t, "idle", 0, 0, FALSE)

\* A wait call returns CELL_OK: its thread has a permit.
ReturnTaken(t) == Return(t) /\ credit' = credit - 1

TakeGuard(t, from, to) ==
  /\ pc[t] = from
  /\ guard = NoThread
  /\ guard' = t
  /\ Goto(t, to)
  /\ UNCHANGED <<world, val, sq, left, toAwake, sched, credit>>

-----------------------------------------------------------------------------
(* sys_semaphore_wait and sys_semaphore_trywait *)

Wait(t, from, to) ==
  /\ Running(t, from)
  /\ IF val > 0 THEN Enter(t, "w_cas", val, 0, to) ELSE Enter(t, "w_lock", 0, 0, to)
  /\ UNCHANGED <<world, val, sq, guard, left, toAwake, sched, credit>>

WaitCas(t) ==
  /\ pc[t] = "w_cas"
  /\ IF val = seen[t]
     THEN val' = val - 1 /\ ReturnTaken(t)
     ELSE Goto(t, "w_lock") /\ UNCHANGED <<val, credit>>
  /\ UNCHANGED <<world, sq, guard, left, toAwake, sched>>

WaitLock(t) == TakeGuard(t, "w_lock", "w_dec")

\* A permit came in the meantime, or the thread is one more waiter.
WaitDec(t) ==
  /\ pc[t] = "w_dec"
  /\ val' = val - 1
  /\ IF val <= 0
     THEN Goto(t, "w_sleep") /\ UNCHANGED <<guard, credit>>
     ELSE ReturnTaken(t) /\ guard' = NoThread
  /\ UNCHANGED <<world, sq, left, toAwake, sched>>

WaitSleep(t) ==
  /\ pc[t] = "w_sleep"
  /\ FallAsleep(t)
  /\ Goto(t, "w_queue")
  /\ UNCHANGED <<fifo, exists, stopped, saves, faults, val, sq, guard, left, toAwake, credit>>

WaitQueue(t) ==
  /\ pc[t] = "w_queue"
  /\ sq' = <<t>> \o sq
  /\ guard' = NoThread
  /\ Goto(t, "w_wait")
  /\ UNCHANGED <<world, val, left, toAwake, sched, credit>>

TakeSignal(t) ==
  /\ Signalled(t, "w_wait")
  /\ ReturnTaken(t)
  /\ UNCHANGED <<world, val, sq, guard, left, toAwake>>

\* Variant for mutation: the thread does not look whether it was served.
WaitStoppedAgain(t) ==
  /\ Stopping(t, "w_wait")
  /\ Goto(t, "a_wait")
  /\ UNCHANGED <<world, val, sq, guard, left, toAwake, sched, credit>>

\* A stopped thread looks under the internal mutex whether it is queued.
WaitStopped(t) ==
  /\ Stopping(t, "w_wait")
  /\ IF Contains(sq, t) THEN Goto(t, "a_wait") /\ UNCHANGED credit ELSE ReturnTaken(t)
  /\ UNCHANGED <<world, val, sq, guard, left, toAwake, sched>>

\* wait_timeout returns true.
TimeOut(t) ==
  /\ TimedOut(t, "w_wait")
  /\ Goto(t, "t_check")
  /\ UNCHANGED <<world, val, sq, guard, left, toAwake, sched, credit>>

TimeOutCheck(t) ==
  /\ pc[t] = "t_check"
  /\ CheckState(t, "w_wait", "t_lock")
  /\ UNCHANGED <<world, timed, seen, amount, val, sq, guard, left, toAwake, credit>>

\* Variant for mutation: the list is looked at before the mutex is taken.
TimeOutLockEarly(t) ==
  \/ Contains(sq, t) /\ TakeGuard(t, "t_lock", "t_unqueue")
  \/ /\ pc[t] = "t_lock" /\ ~Contains(sq, t)
     /\ ReturnTaken(t)
     /\ UNCHANGED <<world, val, sq, guard, left, toAwake, sched>>

TimeOutLock(t) == TakeGuard(t, "t_lock", "t_unqueue")

\* Variant for mutation: the thread gives up even if it was served.
TimeOutUnqueueBlind(t) ==
  /\ pc[t] = "t_unqueue"
  /\ sq' = Without(sq, t)
  /\ Goto(t, "t_undo")
  /\ UNCHANGED <<world, val, guard, left, toAwake, sched, credit>>

\* Who is not queued any more has been served.
TimeOutUnqueue(t) ==
  /\ pc[t] = "t_unqueue"
  /\ IF Contains(sq, t)
     THEN sq' = Without(sq, t) /\ Goto(t, "t_undo") /\ UNCHANGED <<guard, credit>>
     ELSE ReturnTaken(t) /\ guard' = NoThread /\ UNCHANGED sq
  /\ UNCHANGED <<world, val, left, toAwake, sched>>

\* ETIMEDOUT: there is one waiter less.
TimeOutUndo(t) ==
  /\ pc[t] = "t_undo"
  /\ val' = IF val < 0 THEN val + 1 ELSE val
  /\ guard' = NoThread
  /\ Return(t)
  /\ UNCHANGED <<world, sq, left, toAwake, sched, credit>>

\* trywait: one atomic try_dec.
TryWait(t) ==
  /\ Running(t, "idle")
  /\ val > 0
  /\ val' = val - 1
  /\ credit' = credit - 1
  /\ UNCHANGED <<local, world, sq, guard, left, toAwake, sched>>

-----------------------------------------------------------------------------
(* sys_semaphore_post *)

Post(t, from, n) ==
  /\ Running(t, from)
  /\ IF val >= 0 /\ n <= MaxVal - val
     THEN Enter(t, "p_cas", val, n, FALSE)
     ELSE Enter(t, "p_lock", 0, n, FALSE)
  /\ UNCHANGED <<world, val, sq, guard, left, toAwake, sched, credit>>

PostCas(t) ==
  /\ pc[t] = "p_cas"
  /\ IF val = seen[t]
     THEN /\ val' = val + amount[t]
          /\ credit' = credit + amount[t]
          /\ Return(t)
     ELSE Goto(t, "p_lock") /\ UNCHANGED <<val, credit>>
  /\ UNCHANGED <<world, sq, guard, left, toAwake, sched>>

\* If a waiter has left its call for a savestate, post is put off too.
PostLock(t) ==
  /\ pc[t] = "p_lock"
  /\ guard = NoThread
  /\ IF \E i \in 1..Len(sq) : Again(sq[i])
     THEN Goto(t, "a_post") /\ UNCHANGED guard
     ELSE Goto(t, "p_op") /\ guard' = t
  /\ UNCHANGED <<world, val, sq, left, toAwake, sched, credit>>

\* Variant for mutation: the limit is not checked.
PostOpUnlimited(t) ==
  /\ pc[t] = "p_op"
  /\ val' = val + amount[t]
  /\ credit' = credit + amount[t]
  /\ left' = Min2(-Min2(val, 0), amount[t])
  /\ Goto(t, "p_wake")
  /\ UNCHANGED <<world, sq, guard, toAwake, sched>>

\* The permits are added, or EBUSY.
PostOp(t) ==
  /\ pc[t] = "p_op"
  /\ IF amount[t] <= MaxVal - val
     THEN /\ val' = val + amount[t]
          /\ credit' = credit + amount[t]
          /\ left' = Min2(-Min2(val, 0), amount[t])
          /\ Goto(t, "p_wake")
          /\ UNCHANGED guard
     ELSE Return(t) /\ guard' = NoThread /\ UNCHANGED <<val, credit, left>>
  /\ UNCHANGED <<world, sq, toAwake, sched>>

PostSchedule(t) ==
  /\ pc[t] = "p_wake"
  /\ left > 0 /\ sq # <<>>
  /\ \E u \in ServedFirst(sq) : sq' = Without(sq, u) /\ toAwake' = toAwake \union {u}
  /\ left' = left - 1
  /\ UNCHANGED <<local, world, val, guard, sched, credit>>

\* awake_all, and the end of the call.
PostAwake(t) ==
  /\ pc[t] = "p_wake"
  /\ left = 0
  /\ Awaken(toAwake)
  /\ toAwake' = {}
  /\ guard' = NoThread
  /\ Return(t)
  /\ UNCHANGED <<world, val, sq, left, credit>>

-----------------------------------------------------------------------------
(* The other calls and the environment *)

\* Variant for mutation: waiters do not keep the semaphore alive.
DestroyBusy(t) ==
  /\ Running(t, "idle")
  /\ \A u \in Threads : pc[u] \notin UnderIdm
  /\ exists' = FALSE
  /\ UNCHANGED <<local, fifo, stopped, toSleep, saves, faults, val, sq, guard, left,
                 toAwake, sched, credit>>

\* sys_semaphore_destroy: alone with the identifier table, but without the
\* internal mutex; EBUSY if there are waiters.
Destroy(t) ==
  /\ Running(t, "idle")
  /\ \A u \in Threads : pc[u] \notin UnderIdm
  /\ val >= 0
  /\ exists' = FALSE
  /\ UNCHANGED <<local, fifo, stopped, toSleep, saves, faults, val, sq, guard, left,
                 toAwake, sched, credit>>

\* A call made again finds the semaphore destroyed: ESRCH.
RedoEsrch(t) ==
  /\ pc[t] \in {"w_redo", "p_redo"} /\ MayStep(t, pc[t])
  /\ ~exists
  /\ Return(t)
  /\ UNCHANGED <<world, val, sq, guard, left, toAwake, sched, credit>>

Schedule(t) ==
  ObjSchedule(t) /\ UNCHANGED <<val, sq, seen, amount, left, toAwake, credit>>

StopThread(t) ==
  ObjStop(t) /\ UNCHANGED <<val, sq, seen, amount, left, toAwake, credit>>

Redo == [l \in {"a_wait", "a_post"} |-> IF l = "a_wait" THEN "w_redo" ELSE "p_redo"]

\* Variant for mutation: a negative val is saved as it is.
SaveAndLoadRaw ==
  /\ ObjSaveAndLoad(Redo)
  /\ sq' = <<>>
  /\ UNCHANGED <<val, seen, amount, left, toAwake, credit>>

\* val is saved without its waiters, who wait anew.
SaveAndLoad ==
  /\ ObjSaveAndLoad(Redo)
  /\ val' = Max2(val, 0)
  /\ sq' = <<>>
  /\ UNCHANGED <<seen, amount, left, toAwake, credit>>

Call(t) ==
  \/ \E to \in Timeouts : Wait(t, "idle", to)
  \/ \E n \in 1..MaxPost : Post(t, "idle", n)
  \/ TryWait(t) \/ Destroy(t)

Step(t) ==
  \/ Wait(t, "w_redo", timed[t]) \/ WaitCas(t) \/ WaitLock(t) \/ WaitDec(t)
  \/ WaitSleep(t) \/ WaitQueue(t) \/ TakeSignal(t) \/ WaitStopped(t)
  \/ TimeOutCheck(t) \/ TimeOutLock(t) \/ TimeOutUnqueue(t) \/ TimeOutUndo(t)
  \/ Post(t, "p_redo", amount[t]) \/ PostCas(t) \/ PostLock(t) \/ PostOp(t)
  \/ PostSchedule(t) \/ PostAwake(t) \/ RedoEsrch(t)

Next ==
  \/ \E t \in Threads : Call(t) \/ Step(t) \/ TimeOut(t) \/ Schedule(t) \/ StopThread(t)
  \/ SaveAndLoad

Spec == Init /\ [][Next]_vars

-----------------------------------------------------------------------------
(* Properties *)

TypeOK ==
  /\ ObjTypeOK(PCs)
  /\ val \in -Cardinality(Threads)..MaxVal
  /\ sq \in Seq(Threads)
  /\ seen \in [Threads -> 0..MaxVal]
  /\ amount \in [Threads -> 0..MaxPost]
  /\ left \in 0..Cardinality(Threads)
  /\ toAwake \subseteq Threads
  /\ credit \in 0..MaxVal + Cardinality(Threads)

\* Threads that have given up their place in val and have not returned.
Waiters == {t \in Threads : pc[t] \in {"w_sleep", "w_queue", "w_wait", "t_check",
                                       "t_lock", "t_unqueue", "t_undo", "a_wait"}}

(***************************************************************************)
(* No permit is lost or made up, whatever fast and slow paths, timeouts,   *)
(* stops and savestates interleave: the permits posted and not yet taken   *)
(* are in val or belong to a thread that is about to return.               *)
(***************************************************************************)
PermitsConserved == credit = val + Cardinality(Waiters)

(***************************************************************************)
(* When the internal mutex is free, a negative val counts the queue: no    *)
(* thread waits while a permit is available.                               *)
(***************************************************************************)
QueueIsCounted == guard = NoThread => Len(sq) = Max2(-val, 0)

(***************************************************************************)
(* The two "ensure" of the code hold: a thread that unqueued itself finds  *)
(* val negative, and post finds a waiter for every one it must awaken.     *)
(***************************************************************************)
EnsuresHold ==
  \A t \in Threads :
    /\ pc[t] = "t_undo" => val < 0
    /\ pc[t] = "p_wake" /\ left > 0 => sq # <<>>

(***************************************************************************)
(* A served waiter gets to know: it is signalled, will be, or looks at the *)
(* queue on its way out.                                                   *)
(***************************************************************************)
ServedIsSeen ==
  \A t \in Threads :
    pc[t] = "w_wait" /\ ~Contains(sq, t) /\ t \notin toAwake =>
      sched[t] \in {"ready", "signal"} \/ t \in stopped

(***************************************************************************)
(* post awakens only threads that are still in the wait call that it       *)
(* serves, and none that has left for a savestate.                         *)
(***************************************************************************)
AwakeIsOnTime == \A t \in toAwake : pc[t] \in {"w_wait", "t_check", "t_lock"}

(***************************************************************************)
(* destroy, which looks at val without the internal mutex, strands nobody. *)
(***************************************************************************)
DestroyedIsEmpty == ~exists /\ guard = NoThread => sq = <<>>
=============================================================================
