------------------------------ MODULE Lv2Rwlock ------------------------------
(***************************************************************************)
(* A reader-writer lock of the LV2 kernel (lv2_rwlock and the sys_rwlock   *)
(* system calls).  The word owner holds the writer or the number of        *)
(* readers, and a bit that says that somebody is queued.  While the bit is *)
(* clear threads enter and leave with one compare-and-swap; with the bit   *)
(* set everything goes through the internal mutex, and a leaving thread    *)
(* hands the lock to a queued writer or to all queued readers.             *)
(*                                                                         *)
(* The bit keeps every compare-and-swap from succeeding, so what is done   *)
(* under the internal mutex is one step; only awakening is a step of its   *)
(* own, the threads being off the queues by then.  Guests release only     *)
(* what they hold, and take the lock when they hold nothing, except that a *)
(* writer may call wlock again.                                            *)
(***************************************************************************)
EXTENDS Lv2Obj

VARIABLES
  owner,     \* [writer, readers, waiters]: the word owner
  rq,        \* queued readers, newest first
  wq,        \* queued writers, newest first
  toAwake,   \* taken off the queues, not yet awakened
  held       \* held[t]: what the guest code of t holds

own == <<owner, rq, wq, toAwake, held>>
vars == <<objVars, own>>

Free == [writer |-> NoThread, readers |-> 0, waiters |-> FALSE]

\* "r_*": rlock, "w_*": wlock; "rt_*", "wt_*": their timeout paths; "ru_*":
\* runlock, "wu_*": wunlock; "wake": before awake; "a_*": left with
\* cpu_flag::again, "*_redo": made again; "wt_spin": the loop never ends.
PCs == {"idle", "r_lock", "r_wait", "rt_check", "rt_test", "rt_over", "rt_lock",
        "w_lock", "w_wait", "wt_check", "wt_lock", "wt_spin",
        "ru_lock", "wu_lock", "wake",
        "a_r", "a_w", "a_ru", "a_wu", "r_redo", "w_redo", "ru_redo", "wu_redo"}

Init ==
  /\ ObjInit
  /\ owner = Free
  /\ rq = <<>>
  /\ wq = <<>>
  /\ toAwake = {}
  /\ held = [t \in Threads |-> "none"]

-----------------------------------------------------------------------------
Again(t) == pc[t] \in {"a_r", "a_w"}

Enter(t, l, to) ==
  /\ pc' = [pc EXCEPT ![t] = l]
  /\ timed' = [timed EXCEPT ![t] = to]

Goto(t, l) == Enter(t, l, timed[t])

\* The call returns; its thread then holds h.
Return(t, h) == Enter(t, "idle", FALSE) /\ held' = [held EXCEPT ![t] = h]

ReadersMayEnter == owner.writer = NoThread /\ ~owner.waiters

-----------------------------------------------------------------------------
(* sys_rwlock_rlock and sys_rwlock_tryrlock *)

\* The fast path, or its compare-and-swap fails.
RLock(t, from, to) ==
  /\ Running(t, from)
  /\ held[t] = "none"
  /\ \/ /\ ReadersMayEnter
        /\ owner' = [owner EXCEPT !.readers = @ + 1]
        /\ Return(t, "read")
     \/ Enter(t, "r_lock", to) /\ UNCHANGED <<owner, held>>
  /\ UNCHANGED <<world, guard, sched, rq, wq, toAwake>>

RLockSlow(t) ==
  /\ pc[t] = "r_lock"
  /\ guard = NoThread
  /\ IF ReadersMayEnter
     THEN /\ owner' = [owner EXCEPT !.readers = @ + 1]
          /\ Return(t, "read")
          /\ UNCHANGED <<sched, toSleep, rq>>
     ELSE /\ owner' = [owner EXCEPT !.waiters = TRUE]
          /\ FallAsleep(t)
          /\ rq' = <<t>> \o rq
          /\ Goto(t, "r_wait") /\ UNCHANGED held
  /\ UNCHANGED <<fifo, exists, stopped, saves, faults, guard, wq, toAwake>>

TryRLock(t) ==
  /\ Running(t, "idle")
  /\ held[t] = "none"
  /\ ReadersMayEnter
  /\ owner' = [owner EXCEPT !.readers = @ + 1]
  /\ Return(t, "read")
  /\ UNCHANGED <<world, guard, sched, rq, wq, toAwake>>

\* The wait loops of rlock and wlock: the signal, a stop, the timeout.
TakeSignal(t, wait, h) ==
  /\ Signalled(t, wait)
  /\ Return(t, h)
  /\ UNCHANGED <<world, guard, owner, rq, wq, toAwake>>

WaitStopped(t, wait, q, again, h) ==
  /\ Stopping(t, wait)
  /\ IF Contains(q, t) THEN Goto(t, again) /\ UNCHANGED held ELSE Return(t, h)
  /\ UNCHANGED <<world, guard, sched, owner, rq, wq, toAwake>>

TimeOut(t, wait, check) ==
  /\ TimedOut(t, wait)
  /\ Goto(t, check)
  /\ UNCHANGED <<world, guard, sched, own>>

TimeOutCheck(t, check, wait, go) ==
  /\ pc[t] = check
  /\ CheckState(t, wait, go)
  /\ UNCHANGED <<world, guard, timed, own>>

\* The queue is looked at without the internal mutex.
RTimeOutTest(t) ==
  /\ pc[t] = "rt_test"
  /\ Goto(t, IF rq = <<>> THEN "rt_over" ELSE "rt_lock")
  /\ UNCHANGED <<world, guard, sched, own>>

\* Variant for mutation: the internal mutex is not awaited.
RTimeOutOverAtOnce(t) ==
  /\ pc[t] = "rt_over"
  /\ Return(t, "read")
  /\ UNCHANGED <<world, guard, sched, owner, rq, wq, toAwake>>

\* "the thread must have been signaled": wait for who did it.
RTimeOutOver(t) ==
  /\ pc[t] = "rt_over"
  /\ guard = NoThread
  /\ Return(t, "read")
  /\ UNCHANGED <<world, guard, sched, owner, rq, wq, toAwake>>

\* ETIMEDOUT, unless the thread has been let in meanwhile.
RTimeOutLock(t) ==
  /\ pc[t] = "rt_lock"
  /\ guard = NoThread
  /\ Return(t, IF Contains(rq, t) THEN "none" ELSE "read")
  /\ rq' = Without(rq, t)
  /\ UNCHANGED <<world, guard, sched, owner, wq, toAwake>>

-----------------------------------------------------------------------------
(* sys_rwlock_wlock and sys_rwlock_trywlock *)

WLock(t, from, to) ==
  /\ Running(t, from)
  /\ held[t] # "read"
  /\ \/ /\ owner = Free
        /\ owner' = [Free EXCEPT !.writer = t]
        /\ Return(t, "write")
     \/ owner.writer = t /\ Return(t, held[t]) /\ UNCHANGED owner    \* EDEADLK
     \/ owner.writer # t /\ Enter(t, "w_lock", to) /\ UNCHANGED <<owner, held>>
  /\ UNCHANGED <<world, guard, sched, rq, wq, toAwake>>

WLockSlow(t) ==
  /\ pc[t] = "w_lock"
  /\ guard = NoThread
  /\ IF owner = Free
     THEN /\ owner' = [Free EXCEPT !.writer = t]
          /\ Return(t, "write")
          /\ UNCHANGED <<sched, toSleep, wq>>
     ELSE /\ owner' = [owner EXCEPT !.waiters = TRUE]
          /\ FallAsleep(t)
          /\ wq' = <<t>> \o wq
          /\ Goto(t, "w_wait") /\ UNCHANGED held
  /\ UNCHANGED <<fifo, exists, stopped, saves, faults, guard, rq, toAwake>>

TryWLock(t) ==
  /\ Running(t, "idle")
  /\ held[t] = "none"
  /\ owner = Free
  /\ owner' = [Free EXCEPT !.writer = t]
  /\ Return(t, "write")
  /\ UNCHANGED <<world, guard, sched, rq, wq, toAwake>>

\* Variant for mutation: the readers behind the last writer are forgotten.
WTimeOutLockAlone(t) ==
  /\ pc[t] = "wt_lock"
  /\ guard = NoThread
  /\ IF ~Contains(wq, t)
     THEN Return(t, "write") /\ UNCHANGED <<owner, wq>>
     ELSE /\ wq' = Without(wq, t)
          /\ owner' = IF rq = <<>> /\ wq' = <<>> THEN [owner EXCEPT !.waiters = FALSE]
                      ELSE owner
          /\ Return(t, "none")
  /\ UNCHANGED <<world, guard, sched, rq, toAwake>>

\* The last queued writer that gives up lets in the readers behind it, if
\* readers hold the lock.  schedule does not unlink a reader that has
\* cpu_flag::again, and the loop that empties the queue does not end then.
WTimeOutLock(t) ==
  /\ pc[t] = "wt_lock"
  /\ guard = NoThread
  /\ \/ /\ ~Contains(wq, t)
        /\ Return(t, "write")
        /\ UNCHANGED <<guard, owner, rq, wq, toAwake>>
     \/ /\ Contains(wq, t)
        /\ wq' = Without(wq, t)
        /\ IF rq # <<>> /\ wq' = <<>> /\ owner.readers > 0
           THEN /\ guard' = t
                /\ UNCHANGED held
                /\ IF \E i \in 1..Len(rq) : Again(rq[i])
                   THEN Goto(t, "wt_spin") /\ UNCHANGED <<owner, rq, toAwake>>
                   ELSE /\ owner' = [owner EXCEPT !.readers = @ + Len(rq), !.waiters = FALSE]
                        /\ toAwake' = Range(rq)
                        /\ rq' = <<>>
                        /\ Goto(t, "wake")
           ELSE /\ owner' = [owner EXCEPT !.waiters =
                               @ /\ ~(rq = <<>> /\ wq' = <<>>)]
                /\ Return(t, "none")
                /\ UNCHANGED <<guard, rq, toAwake>>
  /\ UNCHANGED <<world, sched>>

-----------------------------------------------------------------------------
(* sys_rwlock_runlock and sys_rwlock_wunlock *)

\* Variant for mutation: the bit is cleared at the hand-over.
HandToWriterClean(t, again) ==
  \E u \in ServedFirst(wq) :
    IF Again(u)
    THEN Goto(t, again) /\ UNCHANGED <<guard, owner, wq, toAwake>>
    ELSE /\ wq' = Without(wq, u)
         /\ owner' = [writer |-> u, readers |-> 0, waiters |-> FALSE]
         /\ toAwake' = {u}
         /\ guard' = t
         /\ Goto(t, "wake")

\* The lock goes to a queued writer; it is put off if that writer has left
\* for a savestate.
HandToWriter(t, again) ==
  \E u \in ServedFirst(wq) :
    IF Again(u)
    THEN Goto(t, again) /\ UNCHANGED <<guard, owner, wq, toAwake>>
    ELSE /\ wq' = Without(wq, u)
         /\ owner' = [writer |-> u, readers |-> 0, waiters |-> wq' # <<>> \/ rq # <<>>]
         /\ toAwake' = {u}
         /\ guard' = t
         /\ Goto(t, "wake")

RUnlock(t) ==
  /\ Running(t, "idle")
  /\ held[t] = "read"
  /\ \/ /\ owner.readers > 0 /\ ~owner.waiters
        /\ owner' = [owner EXCEPT !.readers = @ - 1]
        /\ Return(t, "none")
     \/ Goto(t, "ru_lock") /\ held' = [held EXCEPT ![t] = "none"] /\ UNCHANGED owner
  /\ UNCHANGED <<world, guard, sched, rq, wq, toAwake>>

RUnlockRedo(t) ==
  /\ Running(t, "ru_redo")
  /\ Goto(t, "ru_lock")
  /\ UNCHANGED <<world, guard, sched, own>>

\* Variant for mutation: any reader hands the lock over.
RUnlockSlowEarly(t) ==
  /\ pc[t] = "ru_lock"
  /\ guard = NoThread
  /\ IF wq # <<>> THEN HandToWriter(t, "a_ru")
     ELSE /\ owner' = [owner EXCEPT !.readers = @ - 1]
          /\ Goto(t, "idle")
          /\ UNCHANGED <<guard, wq, toAwake>>
  /\ UNCHANGED <<world, sched, rq, held>>

\* The last reader hands the lock over.
RUnlockSlow(t) ==
  /\ pc[t] = "ru_lock"
  /\ guard = NoThread
  /\ \/ /\ owner.readers > 1 \/ (owner.readers = 1 /\ ~owner.waiters)
        /\ owner' = [owner EXCEPT !.readers = @ - 1]
        /\ Goto(t, "idle")
        /\ UNCHANGED <<guard, wq, toAwake>>
     \/ /\ owner.readers = 0                                  \* EPERM
        /\ Goto(t, "idle")
        /\ UNCHANGED <<guard, owner, wq, toAwake>>
     \/ /\ owner.readers = 1 /\ owner.waiters /\ wq # <<>>
        /\ HandToWriter(t, "a_ru")
     \/ /\ owner.readers = 1 /\ owner.waiters /\ wq = <<>>
        /\ owner' = Free
        /\ Goto(t, "idle")
        /\ UNCHANGED <<guard, wq, toAwake>>
  /\ UNCHANGED <<world, sched, rq, held>>

WUnlock(t) ==
  /\ Running(t, "idle")
  /\ held[t] = "write"
  /\ IF owner.waiters
     THEN Goto(t, "wu_lock") /\ held' = [held EXCEPT ![t] = "none"] /\ UNCHANGED owner
     ELSE owner' = Free /\ Return(t, "none")
  /\ UNCHANGED <<world, guard, sched, rq, wq, toAwake>>

WUnlockRedo(t) ==
  /\ Running(t, "wu_redo")
  /\ IF owner.writer # t THEN Goto(t, "idle") /\ UNCHANGED owner     \* EPERM
     ELSE IF owner.waiters THEN Goto(t, "wu_lock") /\ UNCHANGED owner
     ELSE Goto(t, "idle") /\ owner' = Free
  /\ UNCHANGED <<world, guard, sched, rq, wq, toAwake, held>>

\* A queued writer is next, else all queued readers.
WUnlockSlow(t) ==
  /\ pc[t] = "wu_lock"
  /\ guard = NoThread
  /\ \/ /\ wq # <<>>
        /\ HandToWriter(t, "a_wu")
        /\ UNCHANGED rq
     \/ /\ wq = <<>> /\ rq # <<>>
        /\ IF \E i \in 1..Len(rq) : Again(rq[i])
           THEN Goto(t, "a_wu") /\ UNCHANGED <<guard, owner, rq, toAwake>>
           ELSE /\ owner' = [Free EXCEPT !.readers = Len(rq)]
                /\ toAwake' = Range(rq)
                /\ rq' = <<>>
                /\ guard' = t
                /\ Goto(t, "wake")
        /\ UNCHANGED wq
     \/ /\ wq = <<>> /\ rq = <<>>
        /\ owner' = Free
        /\ Goto(t, "idle")
        /\ UNCHANGED <<guard, rq, wq, toAwake>>
  /\ UNCHANGED <<world, sched, held>>

\* Variant for mutation: one of the readers is awakened.
WakeOne(t) ==
  /\ pc[t] = "wake"
  /\ \E u \in toAwake : Awaken({u})
  /\ toAwake' = {}
  /\ guard' = NoThread
  /\ Enter(t, "idle", FALSE)
  /\ UNCHANGED <<world, owner, rq, wq, held>>

\* awake or awake_all, and the end of the call.
Wake(t) ==
  /\ pc[t] = "wake"
  /\ Awaken(toAwake)
  /\ toAwake' = {}
  /\ guard' = NoThread
  /\ Enter(t, "idle", FALSE)
  /\ UNCHANGED <<world, owner, rq, wq, held>>

-----------------------------------------------------------------------------
(* The other calls and the environment *)

\* sys_rwlock_destroy, without the internal mutex: EBUSY unless owner is 0.
\* "r_lock" and "w_lock" are under the lock of the identifier table.
Destroy(t) ==
  /\ Running(t, "idle")
  /\ \A u \in Threads : pc[u] \notin {"r_lock", "w_lock"}
  /\ owner = Free
  /\ exists' = FALSE
  /\ UNCHANGED <<fifo, stopped, toSleep, saves, faults, guard, pc, timed, sched, own>>

RedoEsrch(t) ==
  /\ pc[t] \in {"r_redo", "w_redo", "ru_redo", "wu_redo"} /\ MayStep(t, pc[t])
  /\ ~exists
  /\ Return(t, "none")
  /\ UNCHANGED <<world, guard, sched, owner, rq, wq, toAwake>>

Schedule(t) == ObjSchedule(t) /\ UNCHANGED own
StopThread(t) == ObjStop(t) /\ UNCHANGED own

Redo == [l \in {"a_r", "a_w", "a_ru", "a_wu"} |->
           CASE l = "a_r" -> "r_redo" [] l = "a_w" -> "w_redo"
             [] l = "a_ru" -> "ru_redo" [] l = "a_wu" -> "wu_redo"]

\* Variant for mutation: the lock is loaded free.
SaveAndLoadFree ==
  /\ ObjSaveAndLoad(Redo)
  /\ owner' = Free
  /\ rq' = <<>> /\ wq' = <<>>
  /\ UNCHANGED <<toAwake, held>>

\* owner is saved with its bit, the queues are not.
SaveAndLoad ==
  /\ ObjSaveAndLoad(Redo)
  /\ rq' = <<>> /\ wq' = <<>>
  /\ UNCHANGED <<owner, toAwake, held>>

Call(t) ==
  \/ \E to \in Timeouts : RLock(t, "idle", to) \/ WLock(t, "idle", to)
  \/ TryRLock(t) \/ TryWLock(t) \/ RUnlock(t) \/ WUnlock(t) \/ Destroy(t)

Step(t) ==
  \/ RLock(t, "r_redo", timed[t]) \/ RLockSlow(t)
  \/ TakeSignal(t, "r_wait", "read") \/ WaitStopped(t, "r_wait", rq, "a_r", "read")
  \/ TimeOutCheck(t, "rt_check", "r_wait", "rt_test")
  \/ RTimeOutTest(t) \/ RTimeOutOver(t) \/ RTimeOutLock(t)
  \/ WLock(t, "w_redo", timed[t]) \/ WLockSlow(t)
  \/ TakeSignal(t, "w_wait", "write") \/ WaitStopped(t, "w_wait", wq, "a_w", "write")
  \/ TimeOutCheck(t, "wt_check", "w_wait", "wt_lock") \/ WTimeOutLock(t)
  \/ RUnlockRedo(t) \/ RUnlockSlow(t) \/ WUnlockRedo(t) \/ WUnlockSlow(t)
  \/ Wake(t) \/ RedoEsrch(t)

Next ==
  \/ \E t \in Threads :
       \/ Call(t) \/ Step(t) \/ Schedule(t) \/ StopThread(t)
       \/ TimeOut(t, "r_wait", "rt_check") \/ TimeOut(t, "w_wait", "wt_check")
  \/ SaveAndLoad

Spec == Init /\ [][Next]_vars

-----------------------------------------------------------------------------
(* Properties *)

TypeOK ==
  /\ ObjTypeOK(PCs)
  /\ owner \in [writer : Threads \union {NoThread}, readers : 0..Cardinality(Threads),
                waiters : BOOLEAN]
  /\ rq \in Seq(Threads)
  /\ wq \in Seq(Threads)
  /\ toAwake \subseteq Threads
  /\ held \in [Threads -> {"none", "read", "write"}]

(***************************************************************************)
(* The writer is alone: a thread that was told CELL_OK by wlock is the     *)
(* writer in owner and no other thread reads or writes, whether it came in *)
(* by itself, was handed the lock, timed out late or was stopped.          *)
(***************************************************************************)
WriterIsAlone ==
  \A t \in Threads : held[t] = "write" =>
    owner.writer = t /\ \A u \in Threads \ {t} : held[u] = "none"

\* Threads that have been let in as readers and have not begun to return.
LetIn == {t \in Threads : /\ pc[t] \in {"r_wait", "rt_check", "rt_test", "rt_over", "rt_lock"}
                          /\ ~Contains(rq, t)}
Leaving == {t \in Threads : pc[t] \in {"ru_lock", "a_ru", "ru_redo"}}

(***************************************************************************)
(* The number of readers in owner is the number of threads that read, have *)
(* been let in, or are about to leave: none is lost when a batch of queued *)
(* readers is let in, and none counted twice.                              *)
(***************************************************************************)
ReadersAreCounted ==
  owner.readers =
    Cardinality({t \in Threads : held[t] = "read"} \union LetIn \union Leaving)

(***************************************************************************)
(* Readers wait only for a writer: none is queued while other readers hold *)
(* the lock and no writer is queued before them, also after the last       *)
(* queued writer has timed out.  It implies the ensure(!rq) of runlock.    *)
(***************************************************************************)
ReadersWaitForWriter ==
  guard = NoThread /\ toSleep = {} /\ rq # <<>> => owner.writer # NoThread \/ wq # <<>>

(***************************************************************************)
(* Who is queued can be found: while anybody is queued the lock is held    *)
(* and its bit is set, so that the holder will look at the queues.         *)
(***************************************************************************)
QueuedIsAnnounced ==
  guard = NoThread /\ (rq # <<>> \/ wq # <<>>) =>
    owner.waiters /\ (owner.writer # NoThread \/ owner.readers > 0)

(***************************************************************************)
(* Who was taken off a queue will know: it is awakened, about to be, or on *)
(* its way out through the timeout path or a stop.                         *)
(***************************************************************************)
LetInIsSeen ==
  \A t \in Threads :
    (/\ pc[t] \in {"r_wait", "w_wait"} /\ sched[t] = "asleep"
     /\ ~Contains(rq \o wq, t) /\ t \notin toAwake) => t \in stopped

(***************************************************************************)
(* awake comes while the thread it is meant for is still in its call.      *)
(***************************************************************************)
AwakeIsOnTime ==
  \A t \in toAwake : pc[t] \in {"r_wait", "w_wait", "rt_check", "rt_test", "rt_over",
                                "rt_lock", "wt_check", "wt_lock"}

(***************************************************************************)
(* The loop with which a timed-out writer empties the readers' queue ends: *)
(* every call of schedule in it unlinks a reader.                          *)
(***************************************************************************)
ReaderLoopEnds == \A t \in Threads : pc[t] # "wt_spin"
=============================================================================
