------------------------------- MODULE Lv2Cond -------------------------------
(***************************************************************************)
(* A condition variable of the LV2 kernel (lv2_cond and the sys_cond       *)
(* system calls) together with its mutex.  wait queues the thread, gives   *)
(* the mutex to its next waiter and sleeps; signal takes threads out of    *)
(* the queue and makes each the owner of the mutex or, if it has one, a    *)
(* waiter of the mutex, still asleep.  A wait that times out does the same *)
(* for itself.  All of it uses the internal mutex of the mutex.            *)
(*                                                                         *)
(* The mutex is the abstract one that Lv2Mutex implements: its word        *)
(* changes in one step, lock is called without a timeout, and what is done *)
(* under the internal mutex is one step up to awake.                       *)
(***************************************************************************)
EXTENDS Lv2Obj

CONSTANT MaxLocks   \* the largest lock_count

ASSUME LocksAssumption == MaxLocks \in Nat

VARIABLES
  owner,     \* the owner of the mutex
  mq,        \* the waiters of the mutex, newest first
  count,     \* lock_count
  sq,        \* the waiters of the condition variable, newest first
  batch,     \* waiters that signal_all has taken out and not yet served
  toAwake,   \* whom the holder of the internal mutex will awaken
  saved,     \* saved[t]: lock_count while t waits
  inMutex,   \* inMutex[t]: t was saved as a waiter of the mutex
  redoLoaded,\* the threads whose call is made with loaded_from_savestate
  held       \* held[t]: locks less unlocks, as the guest code of t counts

own == <<owner, mq, count, sq, batch, toAwake, saved, inMutex, redoLoaded, held>>
vars == <<objVars, own>>

\* "l_*": sys_mutex_lock; "u_*": sys_mutex_unlock; "c_*": sys_cond_wait;
\* "t_*": its timeout path; "c_done": before its last check; "s_*": signal,
\* "b_*": signal_all, "d_*": signal_to; "wake": before awake; "a_*": left with
\* cpu_flag::again, "*_redo": made again.
PCs == {"idle", "l_sleep", "l_wait", "u_lock", "c_lock", "c_wait", "c_done",
        "t_check", "t_lock", "s_look", "s_lock", "b_look", "b_lock", "b_own",
        "d_look", "d_lock", "empty", "wake",
        "a_lock", "a_unlock", "a_cond", "a_signal", "a_all", "a_to",
        "l_redo", "u_redo", "c_redo"}

Init ==
  /\ ObjInit
  /\ owner = NoThread
  /\ mq = <<>>
  /\ count = 0
  /\ sq = <<>>
  /\ batch = <<>>
  /\ toAwake = {}
  /\ saved = [t \in Threads |-> 0]
  /\ inMutex = [t \in Threads |-> FALSE]
  /\ redoLoaded = {}
  /\ held = [t \in Threads |-> 0]

-----------------------------------------------------------------------------
Again(t) == pc[t] \in {"a_lock", "a_cond"}

Enter(t, l, to) ==
  /\ pc' = [pc EXCEPT ![t] = l]
  /\ timed' = [timed EXCEPT ![t] = to]

Goto(t, l) == Enter(t, l, timed[t])

ReturnWith(t, n) == Enter(t, "idle", FALSE) /\ held' = [held EXCEPT ![t] = n]

Return(t) == Enter(t, "idle", FALSE) /\ UNCHANGED held

\* try_own for thread u: it owns the mutex or is queued in it.
TryOwn(u) ==
  IF owner = NoThread THEN owner' = u /\ UNCHANGED mq
  ELSE mq' = <<u>> \o mq /\ UNCHANGED owner

-----------------------------------------------------------------------------
(* The mutex *)

\* sys_mutex_lock up to try_own.
Lock(t, from) ==
  /\ MayStep(t, from)
  /\ \/ /\ owner = NoThread
        /\ TryOwn(t)
        /\ ReturnWith(t, held[t] + 1)
        /\ UNCHANGED count
     \/ /\ owner = t /\ count < MaxLocks
        /\ count' = count + 1
        /\ ReturnWith(t, held[t] + 1)
        /\ UNCHANGED <<owner, mq>>
     \/ /\ owner = t /\ count = MaxLocks           \* EKRESOURCE
        /\ Return(t)
        /\ UNCHANGED <<owner, mq, count>>
     \/ /\ owner \notin {t, NoThread}
        /\ TryOwn(t)
        /\ Goto(t, "l_sleep")
        /\ UNCHANGED <<count, held>>
  /\ UNCHANGED <<world, guard, sched, sq, batch, toAwake, saved, inMutex, redoLoaded>>

LockSleep(t) ==
  /\ pc[t] = "l_sleep"
  /\ IF sched[t] = "cancelled"
     THEN /\ ReturnWith(t, 1)
          /\ sched' = [sched EXCEPT ![t] = "on"]
          /\ UNCHANGED toSleep
     ELSE Goto(t, "l_wait") /\ FallAsleep(t) /\ UNCHANGED held
  /\ UNCHANGED <<fifo, exists, stopped, saves, faults, guard, owner, mq, count, sq, batch,
                 toAwake, saved, inMutex, redoLoaded>>

LockSignal(t) ==
  /\ Signalled(t, "l_wait")
  /\ ReturnWith(t, 1)
  /\ UNCHANGED <<world, guard, owner, mq, count, sq, batch, toAwake, saved, inMutex,
                 redoLoaded>>

LockStopped(t) ==
  /\ Stopping(t, "l_wait")
  /\ IF Contains(mq, t) THEN Goto(t, "a_lock") /\ UNCHANGED held ELSE ReturnWith(t, 1)
  /\ UNCHANGED <<world, guard, sched, owner, mq, count, sq, batch, toAwake, saved,
                 inMutex, redoLoaded>>

\* sys_mutex_unlock up to the internal mutex.
Unlock(t, from) ==
  /\ MayStep(t, from)
  /\ from = "idle" => held[t] > 0
  /\ held' = [held EXCEPT ![t] = IF @ > 0 THEN @ - 1 ELSE 0]
  /\ \/ owner # t /\ Goto(t, "idle") /\ UNCHANGED <<owner, count>>     \* EPERM
     \/ owner = t /\ count > 0 /\ count' = count - 1 /\ Goto(t, "idle") /\ UNCHANGED owner
     \/ /\ owner = t /\ count = 0
        /\ IF mq = <<>> THEN owner' = NoThread /\ Goto(t, "idle")
           ELSE Goto(t, "u_lock") /\ UNCHANGED owner
        /\ UNCHANGED count
  /\ UNCHANGED <<world, guard, sched, mq, sq, batch, toAwake, saved, inMutex, redoLoaded>>

\* reown and what follows: u is the next owner.  A waiter with cpu_flag::again
\* stays queued but becomes the owner nevertheless.
UnlockReown(t) ==
  /\ pc[t] = "u_lock"
  /\ guard = NoThread
  /\ IF mq = <<>>
     THEN owner' = NoThread /\ Goto(t, "idle") /\ UNCHANGED <<guard, mq, toAwake>>
     ELSE \E u \in ServedFirst(mq) :
            /\ owner' = u
            /\ IF Again(u)
               THEN Goto(t, "a_unlock") /\ UNCHANGED <<guard, mq, toAwake>>
               ELSE /\ mq' = Without(mq, u)
                    /\ toAwake' = {u}
                    /\ guard' = t
                    /\ Goto(t, "wake")
  /\ UNCHANGED <<world, sched, count, sq, batch, saved, inMutex, redoLoaded, held>>

\* awake cancels the sleep of a thread that has only announced it.
AwakenOrCancel(ts) ==
  sched' = [t \in Threads |->
    CASE t \in ts /\ sched[t] = "asleep" -> "ready"
      [] t \in ts /\ sched[t] = "on" /\ pc[t] = "l_sleep" -> "cancelled"
      [] OTHER -> sched[t]]

\* awake, and the end of unlock or of a signal call.
Wake(t) ==
  /\ pc[t] = "wake"
  /\ AwakenOrCancel(toAwake)
  /\ toAwake' = {}
  /\ guard' = NoThread
  /\ Return(t)
  /\ UNCHANGED <<world, owner, mq, count, sq, batch, saved, inMutex, redoLoaded>>

-----------------------------------------------------------------------------
(* sys_cond_wait *)

\* The first look at the owner, before the internal mutex; a call that was
\* loaded as sleeping leaves it out.
Wait(t, from, to) ==
  /\ MayStep(t, from) /\ exists
  /\ from = "idle" => held[t] > 0
  /\ IF owner # t /\ t \notin redoLoaded
     THEN Return(t)                                           \* EPERM
     ELSE Enter(t, "c_lock", to) /\ held' = [held EXCEPT ![t] = 0]
  /\ UNCHANGED <<world, guard, sched, owner, mq, count, sq, batch, toAwake, saved,
                 inMutex, redoLoaded>>

\* t sleeps, and the threads in ts are awakened in the same critical section.
SleepAndAwaken(t, ts) ==
  /\ sched' = [u \in Threads |->
       CASE u = t -> "asleep"
         [] u \in ts /\ sched[u] = "asleep" -> "ready"
         [] u \in ts /\ sched[u] = "on" /\ pc[u] = "l_sleep" -> "cancelled"
         [] OTHER -> sched[u]]
  /\ toSleep' = toSleep \ {t}

\* Variant for mutation: the mutex is freed instead of handed over.
WaitSleepFreeing(t) ==
  /\ pc[t] = "c_lock" /\ t \notin redoLoaded
  /\ guard = NoThread
  /\ saved' = [saved EXCEPT ![t] = count]
  /\ count' = 0
  /\ owner' = NoThread
  /\ sq' = <<t>> \o sq
  /\ SleepAndAwaken(t, {})
  /\ Goto(t, "c_wait")
  /\ UNCHANGED <<fifo, exists, stopped, saves, faults, guard, mq, batch, toAwake, inMutex,
                 redoLoaded, held>>

\* The thread is queued, the mutex passed on, lock_count put aside.  If the
\* next owner has cpu_flag::again the call is put off, unqueued again.
WaitSleep(t) ==
  /\ pc[t] = "c_lock" /\ t \notin redoLoaded
  /\ guard = NoThread
  /\ count' = 0
  /\ \/ /\ mq = <<>>
        /\ owner' = NoThread
        /\ SleepAndAwaken(t, {})
        /\ UNCHANGED mq
        /\ sq' = <<t>> \o sq
        /\ saved' = [saved EXCEPT ![t] = count]
        /\ Goto(t, "c_wait")
     \/ /\ mq # <<>>
        /\ \E u \in ServedFirst(mq) :
             /\ owner' = u
             /\ IF Again(u)
                THEN Goto(t, "a_cond") /\ UNCHANGED <<sched, toSleep, mq, sq, saved>>
                ELSE /\ mq' = Without(mq, u)
                     /\ SleepAndAwaken(t, {u})
                     /\ sq' = <<t>> \o sq
                     /\ saved' = [saved EXCEPT ![t] = count]
                     /\ Goto(t, "c_wait")
  /\ UNCHANGED <<fifo, exists, stopped, saves, faults, guard, batch, toAwake, inMutex,
                 redoLoaded, held>>

\* A call loaded as sleeping queues itself where it was.
WaitReload(t) ==
  /\ pc[t] = "c_lock" /\ t \in redoLoaded
  /\ guard = NoThread
  /\ IF inMutex[t] THEN TryOwn(t) /\ UNCHANGED sq
     ELSE sq' = <<t>> \o sq /\ UNCHANGED <<owner, mq>>
  /\ SleepAndAwaken(t, {})
  /\ inMutex' = [inMutex EXCEPT ![t] = FALSE]
  /\ redoLoaded' = redoLoaded \ {t}
  /\ Goto(t, "c_wait")
  /\ UNCHANGED <<fifo, exists, stopped, saves, faults, guard, count, batch, toAwake,
                 saved, held>>

WaitSignal(t) ==
  /\ Signalled(t, "c_wait")
  /\ Goto(t, "c_done")
  /\ UNCHANGED <<world, guard, own>>

\* Variant for mutation: it is not told apart where the thread was queued.
WaitStoppedAnywhere(t) ==
  /\ Stopping(t, "c_wait")
  /\ Goto(t, IF Contains(sq, t) \/ Contains(mq, t) THEN "a_cond" ELSE "c_done")
  /\ inMutex' = [inMutex EXCEPT ![t] = Contains(sq \o mq, t)]
  /\ UNCHANGED <<world, guard, sched, owner, mq, count, sq, batch, toAwake, saved,
                 redoLoaded, held>>

\* A stopped thread looks for itself in both queues.
WaitStopped(t) ==
  /\ Stopping(t, "c_wait")
  /\ Goto(t, IF Contains(sq, t) \/ Contains(mq, t) THEN "a_cond" ELSE "c_done")
  /\ inMutex' = [inMutex EXCEPT ![t] = Contains(mq, t)]
  /\ UNCHANGED <<world, guard, sched, owner, mq, count, sq, batch, toAwake, saved,
                 redoLoaded, held>>

TimeOut(t) ==
  /\ TimedOut(t, "c_wait")
  /\ Goto(t, "t_check")
  /\ UNCHANGED <<world, guard, sched, own>>

TimeOutCheck(t) ==
  /\ pc[t] = "t_check"
  /\ CheckState(t, "c_wait", "t_lock")
  /\ UNCHANGED <<world, guard, timed, own>>

\* Variant for mutation: who was signalled returns without the mutex.
TimeOutLockUnowned(t) ==
  /\ pc[t] = "t_lock"
  /\ guard = NoThread
  /\ IF Contains(sq, t)
     THEN /\ sq' = Without(sq, t)
          /\ TryOwn(t)
          /\ IF owner = NoThread
             THEN Goto(t, "c_done") /\ UNCHANGED <<sched, toSleep>>
             ELSE FallAsleep(t) /\ Enter(t, "c_wait", FALSE)
     ELSE Goto(t, "c_done") /\ UNCHANGED <<owner, mq, sq, sched, toSleep>>
  /\ UNCHANGED <<fifo, exists, stopped, saves, faults, guard, count, batch, toAwake, saved,
                 inMutex, redoLoaded, held>>

\* The wait is cancelled, and the mutex owned or waited for; who has been
\* signalled meanwhile owns it or goes on waiting for it.
TimeOutLock(t) ==
  /\ pc[t] = "t_lock"
  /\ guard = NoThread
  /\ sq' = Without(sq, t)
  /\ IF Contains(sq, t) THEN TryOwn(t) ELSE UNCHANGED <<owner, mq>>
  /\ IF owner' = t
     THEN Goto(t, "c_done") /\ UNCHANGED <<sched, toSleep>>
     ELSE FallAsleep(t) /\ Enter(t, "c_wait", FALSE)
  /\ UNCHANGED <<fifo, exists, stopped, saves, faults, guard, count, batch, toAwake, saved,
                 inMutex, redoLoaded, held>>

\* Variant for mutation: lock_count stays as the last owner left it.
WaitReturnLoses(t) ==
  /\ pc[t] = "c_done"
  /\ saved' = [saved EXCEPT ![t] = 0]
  /\ ReturnWith(t, saved[t] + 1)
  /\ UNCHANGED <<world, guard, sched, owner, mq, count, sq, batch, toAwake, inMutex,
                 redoLoaded>>

\* lock_count is restored and the call returns.
WaitReturn(t) ==
  /\ pc[t] = "c_done"
  /\ count' = saved[t]
  /\ saved' = [saved EXCEPT ![t] = 0]
  /\ ReturnWith(t, saved[t] + 1)
  /\ UNCHANGED <<world, guard, sched, owner, mq, sq, batch, toAwake, inMutex, redoLoaded>>

-----------------------------------------------------------------------------
(* sys_cond_signal, sys_cond_signal_all, sys_cond_signal_to *)

\* A signal call begins, or is put off because its thread is stopped.
Signal(t, look) ==
  /\ MayStep(t, "idle") /\ exists
  /\ Goto(t, look)
  /\ UNCHANGED <<world, guard, sched, own>>

SignalStopped(t, look, again) ==
  /\ pc[t] = look
  /\ t \in stopped
  /\ Goto(t, again)
  /\ UNCHANGED <<world, guard, sched, own>>

\* The queue is looked at before the internal mutex is taken.
SignalLook(t, look, lock) ==
  /\ MayStep(t, look)
  /\ IF ~exists THEN Goto(t, "idle")                             \* ESRCH
     ELSE Goto(t, IF sq = <<>> THEN "empty" ELSE lock)
  /\ UNCHANGED <<world, guard, sched, own>>

\* Nobody waits: whoever has the internal mutex is awaited.
SignalEmpty(t) ==
  /\ pc[t] = "empty"
  /\ guard = NoThread
  /\ Goto(t, "idle")
  /\ UNCHANGED <<world, guard, sched, own>>

\* Variant for mutation: the signalled thread is not queued in the mutex.
ServeForget(t, u) ==
  /\ sq' = Without(sq, u)
  /\ IF owner = NoThread
     THEN TryOwn(u) /\ toAwake' = {u} /\ guard' = t /\ Goto(t, "wake")
     ELSE Goto(t, "idle") /\ UNCHANGED <<owner, mq, toAwake, guard>>

\* u becomes owner or waiter of the mutex; the owner will be awakened.
Serve(t, u) ==
  /\ sq' = Without(sq, u)
  /\ TryOwn(u)
  /\ IF owner = NoThread
     THEN toAwake' = {u} /\ guard' = t /\ Goto(t, "wake")
     ELSE Goto(t, "idle") /\ UNCHANGED <<toAwake, guard>>

SignalOne(t) ==
  /\ pc[t] = "s_lock"
  /\ guard = NoThread
  /\ \/ sq = <<>> /\ Goto(t, "idle") /\ UNCHANGED <<sq, owner, mq, toAwake, guard>>
     \/ /\ sq # <<>>
        /\ \E u \in ServedFirst(sq) :
             IF Again(u) THEN Goto(t, "a_signal") /\ UNCHANGED <<sq, owner, mq, toAwake, guard>>
             ELSE Serve(t, u)
  /\ UNCHANGED <<world, sched, count, batch, saved, inMutex, redoLoaded, held>>

\* signal_to: one thread, if it waits.
SignalTo(t, u) ==
  /\ pc[t] = "d_lock"
  /\ guard = NoThread
  /\ IF ~Contains(sq, u) THEN Goto(t, "idle") /\ UNCHANGED <<sq, owner, mq, toAwake, guard>>
     ELSE IF Again(u) THEN Goto(t, "a_to") /\ UNCHANGED <<sq, owner, mq, toAwake, guard>>
     ELSE Serve(t, u)
  /\ UNCHANGED <<world, sched, count, batch, saved, inMutex, redoLoaded, held>>

\* signal_all takes the whole queue ...
SignalAll(t) ==
  /\ pc[t] = "b_lock"
  /\ guard = NoThread
  /\ IF \E i \in 1..Len(sq) : Again(sq[i])
     THEN Goto(t, "a_all") /\ UNCHANGED <<sq, batch, guard>>
     ELSE sq' = <<>> /\ batch' = sq /\ guard' = t /\ Goto(t, "b_own")
  /\ UNCHANGED <<world, sched, owner, mq, count, toAwake, saved, inMutex, redoLoaded, held>>

\* Always by priority.
MostUrgent(q) ==
  {q[i] : i \in {k \in 1..Len(q) : \A j \in 1..Len(q) \ {k} : Better(q, k, j)}}

\* Variant for mutation: every thread that is taken out is awakened.
SignalAllOwnWake(t) ==
  /\ pc[t] = "b_own" /\ batch # <<>>
  /\ \E u \in MostUrgent(batch) :
       /\ batch' = Without(batch, u)
       /\ TryOwn(u)
       /\ toAwake' = toAwake \union {u}
  /\ UNCHANGED <<world, guard, pc, timed, sched, count, sq, saved, inMutex, redoLoaded, held>>

\* ... and serves its threads one by one.
SignalAllOwn(t) ==
  /\ pc[t] = "b_own" /\ batch # <<>>
  /\ \E u \in MostUrgent(batch) :
       /\ batch' = Without(batch, u)
       /\ TryOwn(u)
       /\ toAwake' = IF owner = NoThread THEN toAwake \union {u} ELSE toAwake
  /\ UNCHANGED <<world, guard, pc, timed, sched, count, sq, saved, inMutex, redoLoaded, held>>

SignalAllEnd(t) ==
  /\ pc[t] = "b_own" /\ batch = <<>>
  /\ Goto(t, "wake")
  /\ UNCHANGED <<world, guard, sched, own>>

-----------------------------------------------------------------------------
(* The other calls and the environment *)

\* sys_cond_destroy: alone with the identifier table and under the internal
\* mutex; EBUSY if anybody waits.
Destroy(t) ==
  /\ MayStep(t, "idle") /\ exists
  /\ \A u \in Threads : pc[u] \notin {"c_lock", "s_lock", "b_lock", "d_lock", "empty", "b_own"}
  /\ guard = NoThread
  /\ sq = <<>>
  /\ exists' = FALSE
  /\ UNCHANGED <<fifo, stopped, toSleep, saves, faults, guard, pc, timed, sched, own>>

RedoEsrch(t) ==
  /\ MayStep(t, "c_redo")
  /\ ~exists
  /\ Return(t)
  /\ UNCHANGED <<world, guard, sched, owner, mq, count, sq, batch, toAwake, saved,
                 inMutex, redoLoaded>>

Schedule(t) == ObjSchedule(t) /\ UNCHANGED own
StopThread(t) == ObjStop(t) /\ UNCHANGED own

Redo == [l \in {"a_lock", "a_unlock", "a_cond", "a_signal", "a_all", "a_to"} |->
           CASE l = "a_lock" -> "l_redo" [] l = "a_unlock" -> "u_redo"
             [] l = "a_cond" -> "c_redo" [] l = "a_signal" -> "s_look"
             [] l = "a_all" -> "b_look" [] l = "a_to" -> "d_look"]

\* Owner and lock_count are saved, the queues are not.
SaveAndLoad ==
  /\ ObjSaveAndLoad(Redo)
  /\ mq' = <<>> /\ sq' = <<>>
  /\ redoLoaded' = {t \in toSleep' : pc[t] = "a_cond"}
  /\ UNCHANGED <<owner, count, batch, toAwake, saved, inMutex, held>>

Call(t) ==
  \/ Lock(t, "idle") \/ Unlock(t, "idle") \/ Destroy(t)
  \/ \E to \in Timeouts : Wait(t, "idle", to)
  \/ \E look \in {"s_look", "b_look", "d_look"} : Signal(t, look)

Step(t) ==
  \/ Lock(t, "l_redo") \/ LockSleep(t) \/ LockSignal(t) \/ LockStopped(t)
  \/ Unlock(t, "u_redo") \/ UnlockReown(t) \/ Wake(t)
  \/ Wait(t, "c_redo", timed[t]) \/ WaitSleep(t) \/ WaitReload(t) \/ WaitSignal(t)
  \/ WaitStopped(t) \/ TimeOutCheck(t) \/ TimeOutLock(t) \/ WaitReturn(t) \/ RedoEsrch(t)
  \/ SignalStopped(t, "s_look", "a_signal") \/ SignalLook(t, "s_look", "s_lock")
  \/ SignalStopped(t, "b_look", "a_all") \/ SignalLook(t, "b_look", "b_lock")
  \/ SignalStopped(t, "d_look", "a_to") \/ SignalLook(t, "d_look", "d_lock")
  \/ SignalEmpty(t) \/ SignalOne(t)
  \/ SignalAll(t) \/ SignalAllOwn(t) \/ SignalAllEnd(t)
  \/ \E u \in Threads \ {t} : SignalTo(t, u)

Next ==
  \/ \E t \in Threads : Call(t) \/ Step(t) \/ TimeOut(t) \/ Schedule(t) \/ StopThread(t)
  \/ SaveAndLoad

Spec == Init /\ [][Next]_vars

-----------------------------------------------------------------------------
(* Properties *)

TypeOK ==
  /\ ObjTypeOK(PCs)
  /\ owner \in Threads \union {NoThread}
  /\ mq \in Seq(Threads) /\ sq \in Seq(Threads) /\ batch \in Seq(Threads)
  /\ count \in 0..MaxLocks
  /\ toAwake \subseteq Threads
  /\ saved \in [Threads -> 0..MaxLocks]
  /\ inMutex \in [Threads -> BOOLEAN]
  /\ redoLoaded \subseteq Threads
  /\ held \in [Threads -> 0..MaxLocks + 1]

(***************************************************************************)
(* Mutual exclusion through the condition variable: a thread that has been *)
(* told CELL_OK or ETIMEDOUT, and has not begun to unlock or wait, owns    *)
(* the mutex.                                                              *)
(***************************************************************************)
HeldIsOwned == \A t \in Threads : held[t] > 0 => owner = t

(***************************************************************************)
(* lock_count is the owner's recursion depth, which a wait puts aside and  *)
(* restores whatever the owners in between did.  (A savestate breaks this: *)
(* see DeferredUnlockCompletes of Lv2Mutex.)                               *)
(***************************************************************************)
DepthIsRestored ==
  saves = 0 => \A t \in Threads : held[t] > 0 => count = held[t] - 1

(***************************************************************************)
(* "Verify ownership": wait returns only to the owner of the mutex (the    *)
(* ensure at its end).                                                     *)
(***************************************************************************)
OwnershipVerified == \A t \in Threads : pc[t] = "c_done" => owner = t

(***************************************************************************)
(* A loaded waiter of the mutex finds the mutex owned (the ensure with     *)
(* which wait queues it again): it must not run before the guest does.     *)
(***************************************************************************)
ReloadFindsOwner ==
  \A t \in Threads : pc[t] = "c_lock" /\ t \in redoLoaded /\ inMutex[t] => owner # NoThread

(***************************************************************************)
(* Nobody waits for a mutex that is free, in whichever way it came to its  *)
(* queue, and nobody is in two queues.                                     *)
(***************************************************************************)
QueueHasOwner ==
  /\ mq # <<>> => owner # NoThread
  /\ \A i, j \in 1..Len(mq \o sq \o batch) :
       i # j => (mq \o sq \o batch)[i] # (mq \o sq \o batch)[j]

(***************************************************************************)
(* No wakeup is lost between the two queues: a sleeping waiter is in one   *)
(* of them, being served, or owner and about to be awakened.               *)
(***************************************************************************)
NobodyStranded ==
  \A t \in Threads :
    pc[t] \in {"c_wait", "l_wait"} /\ sched[t] = "asleep" /\ t \notin stopped =>
      Contains(mq \o sq \o batch, t) \/ t \in toAwake

(***************************************************************************)
(* At most one of the threads that signal_all serves becomes the owner     *)
(* (its ensure), and only the owner is awakened.                           *)
(***************************************************************************)
OneIsAwakened == toAwake \subseteq {owner}
=============================================================================
