---------------------------- MODULE Lv2EventFlag ----------------------------
(***************************************************************************)
(* An event flag of the LV2 kernel (lv2_event_flag and the sys_event_flag  *)
(* system calls): a set of bits that threads wait for, all or any of some, *)
(* and that a satisfied wait may clear.  wait, trywait and clear change    *)
(* the bits with one atomic operation and no lock.  set goes through the   *)
(* waiters under the internal mutex, but works out on a copy of the bits   *)
(* whom it satisfies and what is left of them; it then commits with one    *)
(* atomic operation, which fails if the bits that it depended on changed.  *)
(*                                                                         *)
(* Bits are elements of a set.  The pattern that wait stores for the guest *)
(* (gpr[6]) is left out.                                                   *)
(***************************************************************************)
EXTENDS Lv2Obj

CONSTANTS
  Bits,       \* the bits of the flag
  Requests,   \* Requests[t]: what t may wait for
  Sets,       \* Sets[t]: what t may set
  Keeps       \* Keeps[t]: the arguments with which t may call clear

VARIABLES
  pattern,   \* pattern
  single,    \* type: SYS_SYNC_WAITER_SINGLE
  sq,        \* the waiters, newest first
  req,       \* req[t]: bitptn and mode of the wait of t (gpr[4], gpr[5])
  bitptn,    \* the bits of the set call that holds the internal mutex
  view,      \* the copy of pattern it works with
  ok,        \* the waiters whose gpr[3] it has set to CELL_OK
  toAwake    \* taken off the list, not yet awakened

own == <<pattern, single, sq, req, bitptn, view, ok, toAwake>>
vars == <<objVars, own>>

Request == [bits : SUBSET Bits, all : BOOLEAN, clear : {"none", "bits", "all"}]

\* "w_*": wait; "t_*": its timeout path; "s_*": set; "c_lock": cancel; "wake":
\* before awake_all; "a_*": left with cpu_flag::again, "*_redo": made again.
PCs == {"idle", "w_lock", "w_wait", "t_check", "t_test", "t_over", "t_lock",
        "s_lock", "s_try", "c_lock", "wake", "a_wait", "a_set", "a_cancel",
        "w_redo", "s_redo", "c_redo"}

NoRequest == [bits |-> {}, all |-> FALSE, clear |-> "none"]

Init ==
  /\ ObjInit
  /\ pattern \in SUBSET Bits
  /\ single \in BOOLEAN
  /\ sq = <<>>
  /\ req = [t \in Threads |-> NoRequest]
  /\ bitptn = [t \in Threads |-> {}]
  /\ view = {}
  /\ ok = {}
  /\ toAwake = {}

-----------------------------------------------------------------------------
Again(t) == pc[t] = "a_wait"

Enter(t, l, to) ==
  /\ pc' = [pc EXCEPT ![t] = l]
  /\ timed' = [timed EXCEPT ![t] = to]

Goto(t, l) == Enter(t, l, timed[t])

\* check_pattern: is the request satisfied, and what is left of the bits?
Satisfied(p, r) == IF r.all THEN r.bits \subseteq p ELSE r.bits \cap p # {}

Rest(p, r) ==
  CASE r.clear = "none" -> p
    [] r.clear = "bits" -> p \ r.bits
    [] r.clear = "all"  -> {}

-----------------------------------------------------------------------------
(* sys_event_flag_wait and sys_event_flag_trywait *)

\* The call returns and its arguments are forgotten.
Return(t) ==
  /\ Enter(t, "idle", FALSE)
  /\ req' = [req EXCEPT ![t] = NoRequest]
  /\ bitptn' = [bitptn EXCEPT ![t] = {}]

\* The first check, before the internal mutex.
Wait(t, from, r, to) ==
  /\ Running(t, from)
  /\ IF Satisfied(pattern, r)
     THEN pattern' = Rest(pattern, r) /\ Return(t)
     ELSE /\ Enter(t, "w_lock", to)
          /\ req' = [req EXCEPT ![t] = r]
          /\ UNCHANGED <<pattern, bitptn>>
  /\ UNCHANGED <<world, guard, sched, single, sq, view, ok, toAwake>>

\* Variant for mutation: the bits are not looked at again.
WaitSleepUnchecked(t) ==
  /\ pc[t] = "w_lock"
  /\ guard = NoThread
  /\ IF single /\ sq # <<>>
     THEN Return(t) /\ UNCHANGED <<sched, toSleep, sq>>
     ELSE /\ FallAsleep(t)
          /\ sq' = <<t>> \o sq
          /\ Goto(t, "w_wait")
          /\ UNCHANGED <<req, bitptn>>
  /\ UNCHANGED <<fifo, exists, stopped, saves, faults, guard, pattern, single, view, ok,
                 toAwake>>

\* The second check, under it; EPERM if the flag is for a single waiter.
WaitSleep(t) ==
  /\ pc[t] = "w_lock"
  /\ guard = NoThread
  /\ \/ /\ Satisfied(pattern, req[t])
        /\ pattern' = Rest(pattern, req[t])
        /\ Return(t)
        /\ UNCHANGED <<sched, toSleep, sq>>
     \/ /\ ~Satisfied(pattern, req[t])
        /\ UNCHANGED pattern
        /\ IF single /\ sq # <<>>
           THEN Return(t) /\ UNCHANGED <<sched, toSleep, sq>>       \* EPERM
           ELSE /\ FallAsleep(t)
                /\ sq' = <<t>> \o sq
                /\ Goto(t, "w_wait")
                /\ UNCHANGED <<req, bitptn>>
  /\ UNCHANGED <<fifo, exists, stopped, saves, faults, guard, single, view, ok, toAwake>>

TakeSignal(t) ==
  /\ Signalled(t, "w_wait")
  /\ Return(t)
  /\ UNCHANGED <<world, guard, pattern, single, sq, view, ok, toAwake>>

WaitStopped(t) ==
  /\ Stopping(t, "w_wait")
  /\ IF Contains(sq, t) THEN Goto(t, "a_wait") /\ UNCHANGED <<req, bitptn>> ELSE Return(t)
  /\ UNCHANGED <<world, guard, sched, pattern, single, sq, view, ok, toAwake>>

TimeOut(t) ==
  /\ TimedOut(t, "w_wait")
  /\ Goto(t, "t_check")
  /\ UNCHANGED <<world, guard, sched, own>>

TimeOutCheck(t) ==
  /\ pc[t] = "t_check"
  /\ CheckState(t, "w_wait", "t_test")
  /\ UNCHANGED <<world, guard, timed, own>>

\* The list is looked at without the internal mutex.
TimeOutTest(t) ==
  /\ pc[t] = "t_test"
  /\ Goto(t, IF sq = <<>> THEN "t_over" ELSE "t_lock")
  /\ UNCHANGED <<world, guard, sched, own>>

\* Variant for mutation: the internal mutex is not awaited.
TimeOutOverAtOnce(t) ==
  /\ pc[t] = "t_over"
  /\ Return(t)
  /\ UNCHANGED <<world, guard, sched, pattern, single, sq, view, ok, toAwake>>

\* "the thread must have been signaled"
TimeOutOver(t) ==
  /\ pc[t] = "t_over"
  /\ guard = NoThread
  /\ Return(t)
  /\ UNCHANGED <<world, guard, sched, pattern, single, sq, view, ok, toAwake>>

\* ETIMEDOUT, unless the thread is off the list.
TimeOutLock(t) ==
  /\ pc[t] = "t_lock"
  /\ guard = NoThread
  /\ sq' = Without(sq, t)
  /\ Return(t)
  /\ UNCHANGED <<world, guard, sched, pattern, single, view, ok, toAwake>>

TryWait(t, r) ==
  /\ Running(t, "idle")
  /\ Satisfied(pattern, r)
  /\ pattern' = Rest(pattern, r)
  /\ UNCHANGED <<world, guard, pc, timed, sched, single, sq, req, bitptn, view, ok, toAwake>>

-----------------------------------------------------------------------------
(* sys_event_flag_set *)

\* Nothing is done if the bits are set already.
Set(t, from, b) ==
  /\ Running(t, from)
  /\ IF b \subseteq pattern THEN Return(t)
     ELSE /\ Goto(t, "s_lock")
          /\ bitptn' = [bitptn EXCEPT ![t] = b]
          /\ UNCHANGED req
  /\ UNCHANGED <<world, guard, sched, pattern, single, sq, view, ok, toAwake>>

SetLock(t) ==
  /\ pc[t] = "s_lock"
  /\ guard = NoThread
  /\ IF \E i \in 1..Len(sq) : Again(sq[i])
     THEN Goto(t, "a_set") /\ UNCHANGED <<guard, view>>
     ELSE Goto(t, "s_try") /\ guard' = t /\ view' = pattern
  /\ UNCHANGED <<world, sched, pattern, single, sq, req, bitptn, ok, toAwake>>

\* get_next: the waiters in the order in which they are processed.
Ahead(q, i, j) == IF fifo THEN i > j ELSE Better(q, i, j)

InOrder(q) ==
  [k \in 1..Len(q) |->
     q[CHOOSE i \in 1..Len(q) : Cardinality({j \in 1..Len(q) \ {i} : Ahead(q, j, i)}) = k - 1]]

\* One waiter: p are the bits left for it (to_write), dep the old bits on
\* which those before it depended (dependant_mask).  Who waits for any bit
\* was satisfied by one of the new ones b.
Process(st, u, b) ==
  LET r == req[u]
  IN IF st.p = {} THEN st                        \* the loop has been left
     ELSE IF ~Satisfied(st.p, r) THEN [st EXCEPT !.ok = @ \ {u}]
     ELSE [st EXCEPT !.p = Rest(st.p, r),
                     !.ok = @ \union {u},
                     !.n = @ + 1,
                     !.dep = IF ~r.all \/ r.bits \subseteq b \cap st.p THEN @
                             ELSE @ \union r.bits]

\* All waiters, given the bits p and those with gpr[3] = CELL_OK before.
ProcessAll(p, b, before) ==
  LET it == InOrder(sq)
      st[k \in 0..Len(sq)] ==
        IF k = 0 THEN [p |-> p \union b, ok |-> before, n |-> 0, dep |-> {}]
        ELSE Process(st[k - 1], it[k], b)
  IN st[Len(sq)]

\* The list without those whose gpr[3] is CELL_OK.
Unserved(q, served) ==
  LET keep[k \in 0..Len(q)] ==
        IF k = 0 THEN <<>>
        ELSE IF q[k] \in served THEN keep[k - 1] ELSE Append(keep[k - 1], q[k])
  IN keep[Len(q)]

\* Variant for mutation: the commit does not look at what has changed.
SetTryBlind(t) ==
  /\ pc[t] = "s_try"
  /\ LET b == bitptn[t]
         out == ProcessAll(view, b, ok)
     IN /\ pattern' = (pattern \union b) \ ((view \union b) \ out.p)
        /\ sq' = Unserved(sq, out.ok)
        /\ toAwake' = out.ok
        /\ ok' = {}
        /\ view' = {}
        /\ Goto(t, "wake")
  /\ UNCHANGED <<world, guard, sched, single, req, bitptn>>

\* The commit, or another round with the changed bits.
SetTry(t) ==
  /\ pc[t] = "s_try"
  /\ LET b == bitptn[t]
         out == ProcessAll(view, b, ok)
     IN IF SymDiff(pattern, view) \cap (out.dep \ b) # {}
        THEN /\ view' = pattern
             /\ ok' = out.ok
             /\ UNCHANGED <<pc, timed, pattern, sq, toAwake>>
        ELSE /\ pattern' = (pattern \union b) \ ((view \union b) \ out.p)
             /\ sq' = IF out.n = 0 THEN sq ELSE Unserved(sq, out.ok)
             /\ toAwake' = IF out.n = 0 THEN {} ELSE out.ok
             /\ ok' = {}
             /\ view' = {}
             /\ Goto(t, "wake")
  /\ UNCHANGED <<world, guard, sched, single, req, bitptn>>

\* awake_all, and the end of set or cancel.
Wake(t) ==
  /\ pc[t] = "wake"
  /\ Awaken(toAwake)
  /\ toAwake' = {}
  /\ guard' = NoThread
  /\ Return(t)
  /\ UNCHANGED <<world, pattern, single, sq, view, ok>>

-----------------------------------------------------------------------------
(* The other calls and the environment *)

\* sys_event_flag_clear keeps the bits in b.
Clear(t, b) ==
  /\ Running(t, "idle")
  /\ pattern' = pattern \cap b
  /\ UNCHANGED <<world, guard, pc, timed, sched, single, sq, req, bitptn, view, ok, toAwake>>

Cancel(t, from) ==
  /\ Running(t, from)
  /\ Goto(t, "c_lock")
  /\ UNCHANGED <<world, guard, sched, own>>

\* All waiters will return ECANCELED.
CancelLock(t) ==
  /\ pc[t] = "c_lock"
  /\ guard = NoThread
  /\ IF \E i \in 1..Len(sq) : Again(sq[i])
     THEN Goto(t, "a_cancel") /\ UNCHANGED <<guard, sq, toAwake>>
     ELSE /\ toAwake' = Range(sq)
          /\ sq' = <<>>
          /\ guard' = t
          /\ Goto(t, "wake")
  /\ UNCHANGED <<world, sched, pattern, single, req, bitptn, view, ok>>

\* Variant for mutation: the lock of the identifier table is not taken.
DestroyRacing(t) ==
  /\ Running(t, "idle")
  /\ sq = <<>>
  /\ exists' = FALSE
  /\ UNCHANGED <<fifo, stopped, toSleep, saves, faults, guard, pc, timed, sched, own>>

\* sys_event_flag_destroy: EBUSY if there are waiters.  wait is under the
\* lock of the identifier table up to its place in the list.
Destroy(t) ==
  /\ Running(t, "idle")
  /\ \A u \in Threads : pc[u] # "w_lock"
  /\ sq = <<>>
  /\ exists' = FALSE
  /\ UNCHANGED <<fifo, stopped, toSleep, saves, faults, guard, pc, timed, sched, own>>

RedoEsrch(t) ==
  /\ pc[t] \in {"w_redo", "s_redo", "c_redo"} /\ MayStep(t, pc[t])
  /\ ~exists
  /\ Return(t)
  /\ UNCHANGED <<world, guard, sched, pattern, single, sq, view, ok, toAwake>>

Schedule(t) == ObjSchedule(t) /\ UNCHANGED own
StopThread(t) == ObjStop(t) /\ UNCHANGED own

Redo == [l \in {"a_wait", "a_set", "a_cancel"} |->
           CASE l = "a_wait" -> "w_redo" [] l = "a_set" -> "s_redo" [] l = "a_cancel" -> "c_redo"]

\* The bits are saved, the list is not.
SaveAndLoad ==
  /\ ObjSaveAndLoad(Redo)
  /\ sq' = <<>>
  /\ UNCHANGED <<pattern, single, req, bitptn, view, ok, toAwake>>

Call(t) ==
  \/ \E r \in Requests[t] : TryWait(t, r) \/ \E to \in Timeouts : Wait(t, "idle", r, to)
  \/ \E b \in Sets[t] : Set(t, "idle", b)
  \/ \E b \in Keeps[t] : Clear(t, b)
  \/ Cancel(t, "idle") \/ Destroy(t)

Step(t) ==
  \/ Wait(t, "w_redo", req[t], timed[t]) \/ WaitSleep(t) \/ TakeSignal(t) \/ WaitStopped(t)
  \/ TimeOutCheck(t) \/ TimeOutTest(t) \/ TimeOutOver(t) \/ TimeOutLock(t)
  \/ Set(t, "s_redo", bitptn[t]) \/ SetLock(t) \/ SetTry(t) \/ Wake(t)
  \/ Cancel(t, "c_redo") \/ CancelLock(t) \/ RedoEsrch(t)

Next ==
  \/ \E t \in Threads : Call(t) \/ Step(t) \/ TimeOut(t) \/ Schedule(t) \/ StopThread(t)
  \/ SaveAndLoad

Spec == Init /\ [][Next]_vars

-----------------------------------------------------------------------------
(* Properties *)

TypeOK ==
  /\ ObjTypeOK(PCs)
  /\ pattern \subseteq Bits /\ view \subseteq Bits
  /\ single \in BOOLEAN
  /\ sq \in Seq(Threads)
  /\ req \in [Threads -> Request \union {NoRequest}]
  /\ bitptn \in [Threads -> SUBSET Bits]
  /\ ok \subseteq Threads /\ toAwake \subseteq Threads

\* The step of t commits its set, and has the result of processing the waiters,
\* in their order, on the bits as they are.
Commits(t) == pc[t] = "s_try" /\ pc'[t] = "wake"

AsOne(t) ==
  LET out == ProcessAll(pattern, bitptn[t], {})
  IN pattern' = out.p /\ toAwake' = out.ok

(***************************************************************************)
(* "Process all waiters in single atomic op": whatever trywait, wait and   *)
(* clear did while set worked on its copy, the waiters it awakens and the  *)
(* bits it leaves are those of processing the waiters on the bits as they  *)
(* are when it commits.                                                    *)
(***************************************************************************)
SetIsAtomic == [][\A t \in Threads : Commits(t) => AsOne(t)]_vars

(***************************************************************************)
(* The same of a round of set that finds no waiter with a result left over *)
(* from a round that could not be committed: to compare the bits that the  *)
(* results depended on is enough.                                          *)
(***************************************************************************)
CleanRoundIsAtomic == \A t \in Threads : Commits(t) /\ ok = {} => AsOne(t)

(***************************************************************************)
(* Nobody sleeps in front of its bits: when the internal mutex is free no  *)
(* queued request is satisfied.  set relies on it: it takes for granted    *)
(* that a waiter for any bit was satisfied by the new ones.                *)
(***************************************************************************)
NobodyOverlooked ==
  guard = NoThread => \A i \in 1..Len(sq) : ~Satisfied(pattern, req[sq[i]])

(***************************************************************************)
(* Who was taken off the list gets to know: it is signalled, will be, or   *)
(* looks at the list on its way out.                                       *)
(***************************************************************************)
ServedIsSeen ==
  \A t \in Threads :
    pc[t] = "w_wait" /\ ~Contains(sq, t) /\ t \notin toAwake =>
      sched[t] \in {"ready", "signal"} \/ t \in stopped

(***************************************************************************)
(* awake comes while its thread is still in the wait that was satisfied,   *)
(* and not to one that has left for a savestate.                           *)
(***************************************************************************)
AwakeIsOnTime == \A t \in toAwake : pc[t] \in {"w_wait", "t_check", "t_test", "t_over", "t_lock"}

(***************************************************************************)
(* destroy, which looks at the list without the internal mutex, strands    *)
(* nobody.                                                                 *)
(***************************************************************************)
DestroyedIsEmpty == ~exists => sq = <<>>
=============================================================================
