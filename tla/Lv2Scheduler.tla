---------------------------- MODULE Lv2Scheduler ----------------------------
(***************************************************************************)
(* The PPU scheduler of the LV2 kernel (lv2_obj in cellos/src/lv2.cpp) and *)
(* the part of cpu_thread::check_state that answers it.  Guest threads run *)
(* on host threads; the scheduler lets at most HwThreads of them proceed   *)
(* by setting and clearing flags in their state words.  A thread that is   *)
(* told to suspend has to acknowledge (ack_suspend, g_pending) before      *)
(* anybody is started in its place.                                        *)
(*                                                                         *)
(* sleep, awake, yield and set_priority run under g_mutex and are one step *)
(* each.  Time is abstracted: a registered timeout may expire whenever     *)
(* somebody looks at g_waiting.                                            *)
(***************************************************************************)
EXTENDS Integers, FiniteSets, Sequences, SequencesExt

CONSTANTS
  Threads,     \* PPU threads
  Main,        \* the thread that runs first
  Host,        \* a host thread that is no PPU thread (RSX, timers, SPUs)
  HwThreads,   \* g_cfg.core.ppu_threads
  Prios        \* priorities, smaller is more urgent

ASSUME HwAssumption == HwThreads \in Nat \ {0}
ASSUME ThreadsAssumption == /\ IsFiniteSet(Threads)
                            /\ Main \in Threads /\ Host \notin Threads
ASSUME PriosAssumption == Prios \subseteq Nat /\ Prios # {}

VARIABLES
  sch,      \* what g_mutex protects, see Sched
  prio,     \* prio[t]: ppu_thread::prio
  pc,       \* pc[t]: where thread t is
  timed,    \* timed[t]: the wait of t has a timeout
  queued    \* queued[t]: t is in the wait queue of a kernel object

vars == <<sch, prio, pc, timed, queued>>

Flags == {"suspend", "signal", "notify"}

Sched == [ppu : Seq(Threads),                  \* g_ppu, most urgent first
          state : [Threads -> SUBSET Flags],   \* cpu_thread::state
          ack : [Threads -> BOOLEAN],          \* ack_suspend
          pending : Nat,                       \* g_pending
          waiting : [Threads -> Nat],          \* entries of t in g_waiting
          cancel : [Threads -> 0..2]]          \* cancel_sleep

\* "guest": guest code, or a system call before it blocks;
\* "presleep": in an object's queue with cancel_sleep = 1, not yet asleep;
\* "wait": the loop of a blocking system call;  "check": check_state;
\* "cpusleep": check_state saw suspend and calls cpu_sleep;
\* "parked": check_state after cpu_sleep, in cpu_wait;
\* the "t_" labels are the same inside the timeout path of a wait loop, which
\* at "t_ret" takes t out of the object's queue.
CheckPCs == {"check", "cpusleep", "parked"}
TimeoutPCs == {"t_check", "t_cpusleep", "t_parked", "t_ret"}
PCs == {"guest", "presleep", "wait"} \union CheckPCs \union TimeoutPCs

Init ==
  /\ sch = [ppu |-> <<Main>>,
            state |-> [t \in Threads |-> IF t = Main THEN {} ELSE {"suspend"}],
            ack |-> [t \in Threads |-> FALSE],
            pending |-> 0,
            waiting |-> [t \in Threads |-> 0],
            cancel |-> [t \in Threads |-> 0]]
  /\ prio \in [Threads -> Prios]
  /\ pc = [t \in Threads |-> IF t = Main THEN "guest" ELSE "wait"]
  /\ timed = [t \in Threads |-> FALSE]
  /\ queued = [t \in Threads |-> t # Main]   \* not started yet

-----------------------------------------------------------------------------
(* Pieces of awake_unlocked, sleep_unlocked and schedule_all: functions of *)
(* the state under g_mutex.                                                *)

InQueue(q, t) == \E i \in 1..Len(q) : q[i] = t

\* The threads that may proceed: the first HwThreads of g_ppu.
OnProc(q) == {q[i] : i \in 1..(IF Len(q) < HwThreads THEN Len(q) ELSE HwThreads)}

\* Variant for mutation: one thread too many may proceed.
ExtraOffByOne(q) == {q[i] : i \in (HwThreads + 2)..Len(q)}

Extra(q) == {q[i] : i \in (HwThreads + 1)..Len(q)}

\* Variant for mutation: first come, first served.
StopsAtEnd(q, pr, t) == {i \in 1..Len(q) : q[i] = t}

\* emplace_thread walks the queue up to the first thread that is t itself or
\* less urgent than t, and puts t there.
StopsAt(q, pr, t) == {i \in 1..Len(q) : q[i] = t \/ pr[q[i]] > pr[t]}

Position(q, pr, t) ==
  IF StopsAt(q, pr, t) = {} THEN Len(q) + 1
  ELSE CHOOSE i \in StopsAt(q, pr, t) : \A j \in StopsAt(q, pr, t) : i <= j

\* Variants for mutation: a sleep that was announced is not cancelled; the
\* timeout of an awakened thread stays registered.
EmplaceIgnoresCancel(S, pr, t) ==
  LET i == Position(S.ppu, pr, t)
  IN  IF i <= Len(S.ppu) /\ S.ppu[i] = t THEN S
      ELSE [S EXCEPT !.ppu = InsertAt(@, i, t),
                     !.waiting[t] = IF @ > 0 THEN @ - 1 ELSE 0]

EmplaceKeepsTimeout(S, pr, t) ==
  LET i == Position(S.ppu, pr, t)
  IN  IF i <= Len(S.ppu) /\ S.ppu[i] = t
      THEN [S EXCEPT !.cancel[t] = IF @ = 1 THEN 2 ELSE @]
      ELSE [S EXCEPT !.ppu = InsertAt(@, i, t)]

EmplaceThread(S, pr, t) ==
  LET i == Position(S.ppu, pr, t)
  IN  IF i <= Len(S.ppu) /\ S.ppu[i] = t
      THEN [S EXCEPT !.cancel[t] = IF @ = 1 THEN 2 ELSE @]
      ELSE [S EXCEPT !.ppu = InsertAt(@, i, t),
                     !.waiting[t] = IF @ > 0 THEN @ - 1 ELSE 0]

\* The loop that suspends the threads beyond HwThreads.
SuspendExtra(S) ==
  LET hit == {t \in Extra(S.ppu) : "suspend" \notin S.state[t]}
  IN  [S EXCEPT
        !.state = [t \in Threads |->
                     IF t \in hit THEN @[t] \union {"suspend"} ELSE @[t]],
        !.ack = [t \in Threads |-> @[t] \/ t \in hit],
        !.pending = @ + Cardinality(hit)]

\* Variants for mutation: acknowledge what was not asked; forget g_pending.
AckAlways(S, t) ==
  IF t \in Threads THEN [S EXCEPT !.ack[t] = FALSE, !.pending = @ - 1] ELSE S

AckWithoutPending(S, t) ==
  IF t \in Threads THEN [S EXCEPT !.ack[t] = FALSE] ELSE S

\* The calling thread acknowledges its own suspension.
AckSelf(S, t) ==
  IF t \in Threads /\ S.ack[t]
  THEN [S EXCEPT !.ack[t] = FALSE, !.pending = @ - 1]
  ELSE S

\* Variant for mutation: released threads are not signalled.
ScheduleAllSilent(S, me, expired) ==
  LET go == IF S.pending = 0 THEN OnProc(S.ppu) ELSE {}
  IN  [S EXCEPT
        !.state = [t \in Threads |->
                     IF t \in go THEN @[t] \ {"suspend"} ELSE @[t]],
        !.waiting = [t \in Threads |-> IF t \in expired THEN @[t] - 1 ELSE @[t]]]

\* The threads in OnProc are released once nothing is pending, and the
\* timeouts in expired are taken off g_waiting; the caller is not notified.
ScheduleAll(S, me, expired) ==
  LET go == IF S.pending = 0
            THEN {t \in OnProc(S.ppu) : "suspend" \in S.state[t]} ELSE {}
  IN  [S EXCEPT
        !.state = [t \in Threads |->
          LET f == IF t \in go THEN (@[t] \ {"suspend"}) \union {"signal"}
                   ELSE @[t]
          IN  IF t \in expired /\ t # me THEN f \union {"notify"} ELSE f],
        !.waiting = [t \in Threads |-> IF t \in expired THEN @[t] - 1 ELSE @[t]]]

\* Timeouts that may have run out when schedule_all looks.
Expirable(S) == SUBSET {t \in Threads : S.waiting[t] > 0}

\* awake(u, enqueue_cmd) called by me.
Awake(S, pr, me, u) == AckSelf(SuspendExtra(EmplaceThread(S, pr, u)), me)

\* sleep_unlocked(t, timeout), to: a timeout is given.
SleepUnlocked(S, t, to) ==
  LET A == [AckSelf(S, t) EXCEPT !.cancel[t] = 0]
      B == [A EXCEPT !.state[t] = @ \union {"suspend"}]
  IN  IF "signal" \in A.state[t] THEN A            \* "sleep() failed"
      ELSE IF ~InQueue(A.ppu, t) THEN B            \* already sleeping
      ELSE [B EXCEPT !.ppu = RemoveFirst(@, t), !.waiting[t] = IF to THEN @ + 1 ELSE @]

\* What it returns: the thread sleeps and was not awakened meanwhile.
SleepResult(S, t) ==
  S.cancel[t] # 2 /\ "signal" \notin S.state[t] /\ InQueue(S.ppu, t)

\* yield_cmd: rotate t behind the threads of its priority.
SamePrio(q, pr, t) == {i \in 1..Len(q) : pr[q[i]] = pr[t]}

Rotate(q, pr, t) ==
  LET last == CHOOSE i \in SamePrio(q, pr, t) : \A j \in SamePrio(q, pr, t) : j <= i
  IN  InsertAt(RemoveFirst(q, t), last, t)

\* No context switch when t stays among the first HwThreads.
YieldTakes(q, pr, t) ==
  /\ InQueue(q, t)
  /\ q # Rotate(q, pr, t)
  /\ t \notin OnProc(Rotate(q, pr, t))

YieldQueue(S, pr, t) ==
  LET R == [S EXCEPT !.ppu = IF InQueue(@, t) THEN Rotate(@, pr, t) ELSE @]
  IN  IF YieldTakes(S.ppu, pr, t) THEN AckSelf(SuspendExtra(R), t) ELSE R

\* set_priority: pr is the new assignment; only a queued thread is moved.
Reprioritise(S, pr, me, u) ==
  IF InQueue(S.ppu, u)
  THEN Awake([S EXCEPT !.ppu = RemoveFirst(@, u)], pr, me, u)
  ELSE S

-----------------------------------------------------------------------------
(* Calls of a thread in guest code.  They end at "check": the state word is *)
(* tested before the next guest instruction.                                *)

Goto(t, l) == pc' = [pc EXCEPT ![t] = l]

\* Variant for mutation: schedule_all is forgotten.
FinishUnscheduled(S, me) == sch' = S

\* S is the state after the call's own work; schedule_all ends every call.
Finish(S, me) == \E e \in Expirable(S) : sch' = ScheduleAll(S, me, e)

\* A system call blocks: t enters an object's queue and sleeps under the
\* object's lock; it may have appended one thread to g_to_awake before.
Sleep(t, to) ==
  /\ pc[t] = "guest"
  /\ LET S == SleepUnlocked(sch, t, to)
     IN  \/ /\ Finish(S, t)
            /\ queued' = [queued EXCEPT ![t] = TRUE]
         \/ \E u \in Threads \ {t} :
              /\ queued[u]
              /\ Finish(Awake(S, prio, t, u), t)
              /\ queued' = [queued EXCEPT ![t] = TRUE, ![u] = FALSE]
  /\ Goto(t, IF SleepResult(sch, t) THEN "wait" ELSE "check")
  /\ timed' = [timed EXCEPT ![t] = to /\ SleepResult(sch, t)]
  /\ UNCHANGED prio

\* The mutex calls publish t in the queue first, with cancel_sleep = 1 ...
Publish(t, to) ==
  /\ pc[t] = "guest"
  /\ sch' = [sch EXCEPT !.cancel[t] = 1]
  /\ queued' = [queued EXCEPT ![t] = TRUE]
  /\ timed' = [timed EXCEPT ![t] = to]
  /\ Goto(t, "presleep")
  /\ UNCHANGED prio

\* ... and sleep afterwards; an awake that came in between is not lost.
SleepPublished(t) ==
  /\ pc[t] = "presleep"
  /\ Finish(SleepUnlocked(sch, t, timed[t]), t)
  /\ Goto(t, IF SleepResult(sch, t) THEN "wait" ELSE "check")
  /\ timed' = [timed EXCEPT ![t] = @ /\ SleepResult(sch, t)]
  /\ UNCHANGED <<prio, queued>>

AwakeOther(t, u) ==
  /\ pc[t] = "guest"
  /\ queued[u]
  /\ Finish(Awake(sch, prio, t, u), t)
  /\ queued' = [queued EXCEPT ![u] = FALSE]
  /\ Goto(t, "check")
  /\ UNCHANGED <<prio, timed>>

\* A timer, an SPU or the RSX thread awakens a PPU thread.
HostAwake(u) ==
  /\ queued[u]
  /\ Finish(Awake(sch, prio, Host, u), Host)
  /\ queued' = [queued EXCEPT ![u] = FALSE]
  /\ UNCHANGED <<prio, pc, timed>>

Yield(t) ==
  /\ pc[t] = "guest"
  /\ t # Last(sch.ppu)
  /\ Finish(YieldQueue(sch, prio, t), t)
  /\ Goto(t, "check")
  /\ UNCHANGED <<prio, timed, queued>>

SetPriority(t, u, p) ==
  /\ pc[t] = "guest"
  /\ prio' = [prio EXCEPT ![u] = p]
  /\ Finish(IF u = t /\ p = prio[u] THEN sch      \* nothing to change
            ELSE Reprioritise(sch, prio', t, u), t)
  /\ Goto(t, "check")
  /\ UNCHANGED <<timed, queued>>

-----------------------------------------------------------------------------
(* Steps that happen by themselves *)

\* The wait loop sees the signal and the system call returns.
TakeSignal(t) ==
  /\ pc[t] = "wait"
  /\ "signal" \in sch.state[t]
  /\ sch' = [sch EXCEPT !.state[t] = @ \ {"signal"}]
  /\ Goto(t, "check")
  /\ timed' = [timed EXCEPT ![t] = FALSE]
  /\ UNCHANGED <<prio, queued>>

\* wait_timeout returns true: notified, or its own clock ran out.
TimeOut(t) ==
  /\ pc[t] = "wait"
  /\ timed[t]
  /\ "notify" \in sch.state[t] \/ "signal" \notin sch.state[t]
  /\ Goto(t, "t_check")
  /\ timed' = [timed EXCEPT ![t] = FALSE]
  /\ UNCHANGED <<sch, prio, queued>>

\* Guest code polls the state word.
Poll(t) ==
  /\ pc[t] = "guest"
  /\ sch.state[t] # {}
  /\ Goto(t, "check")
  /\ UNCHANGED <<sch, prio, timed, queued>>

\* Variants for mutation: the notification stays set; the scheduler is not
\* told that the thread has stopped.
CheckRoundKeepsNotify(t, checking, sleeping, parked, out) ==
  /\ pc[t] \in {checking, parked}
  /\ pc[t] = parked => "signal" \in sch.state[t] \/ "suspend" \notin sch.state[t]
  /\ sch' = [sch EXCEPT !.state[t] = @ \ {"signal"}]
  /\ Goto(t, IF "suspend" \notin sch.state[t] THEN out ELSE sleeping)
  /\ UNCHANGED <<prio, timed, queued>>

CheckRoundUnreported(t, checking, sleeping, parked, out) ==
  /\ pc[t] \in {checking, parked}
  /\ pc[t] = parked => sch.state[t] # {"suspend"}
  /\ sch' = [sch EXCEPT !.state[t] = @ \ {"signal", "notify"}]
  /\ Goto(t, IF "suspend" \notin sch.state[t] THEN out ELSE parked)
  /\ UNCHANGED <<prio, timed, queued>>

\* One round of check_state: it takes signal and notify, leaves when it is
\* not suspended, and reports to the scheduler once per suspension.
CheckRound(t, checking, sleeping, parked, out) ==
  /\ pc[t] \in {checking, parked}
  /\ pc[t] = parked => sch.state[t] # {"suspend"}
  /\ sch' = [sch EXCEPT !.state[t] = @ \ {"signal", "notify"}]
  /\ Goto(t, IF "suspend" \notin sch.state[t] THEN out
             ELSE IF pc[t] = checking \/ "signal" \in sch.state[t] THEN sleeping
             ELSE parked)
  /\ UNCHANGED <<prio, timed, queued>>

CheckState(t) == CheckRound(t, "check", "cpusleep", "parked", "guest")

CheckStateTimedOut(t) ==
  CheckRound(t, "t_check", "t_cpusleep", "t_parked", "t_ret")

\* ppu_thread::cpu_sleep calls awake on itself.
CpuSleep(t) ==
  /\ pc[t] \in {"cpusleep", "t_cpusleep"}
  /\ Finish(Awake(sch, prio, t, t), t)
  /\ Goto(t, IF pc[t] = "cpusleep" THEN "parked" ELSE "t_parked")
  /\ UNCHANGED <<prio, timed, queued>>

\* The timed-out call takes t out of the object's queue, if it still is there.
TimeoutReturn(t) ==
  /\ pc[t] = "t_ret"
  /\ queued' = [queued EXCEPT ![t] = FALSE]
  /\ Goto(t, "check")
  /\ UNCHANGED <<sch, prio, timed>>

-----------------------------------------------------------------------------
Call(t) ==
  \/ \E to \in BOOLEAN : Sleep(t, to) \/ Publish(t, to)
  \/ \E u \in Threads \ {t} : AwakeOther(t, u)
  \/ Yield(t)
  \/ \E u \in Threads, p \in Prios : SetPriority(t, u, p)

Step(t) ==
  \/ SleepPublished(t) \/ TakeSignal(t) \/ TimeOut(t) \/ Poll(t)
  \/ CheckState(t) \/ CheckStateTimedOut(t) \/ CpuSleep(t) \/ TimeoutReturn(t)

Next == \E t \in Threads : Call(t) \/ Step(t) \/ HostAwake(t)

Spec == Init /\ [][Next]_vars

\* Host threads keep running: a thread that polls, checks its state or has
\* something to take in its wait loop does so in the end.  Timeouts may stay
\* away for ever and nobody has to make a call.
Going(t) ==
  \/ SleepPublished(t) \/ TakeSignal(t) \/ Poll(t) \/ CheckState(t)
  \/ CheckStateTimedOut(t) \/ CpuSleep(t) \/ TimeoutReturn(t)

Fairness == \A t \in Threads : WF_vars(Going(t))

FairSpec == Spec /\ Fairness

-----------------------------------------------------------------------------
(* Properties *)

TypeOK ==
  /\ sch \in Sched
  /\ prio \in [Threads -> Prios]
  /\ pc \in [Threads -> PCs]
  /\ timed \in [Threads -> BOOLEAN]
  /\ queued \in [Threads -> BOOLEAN]

(***************************************************************************)
(* g_pending is the number of suspensions not yet acknowledged, so the     *)
(* scheduler neither starts anybody too early nor waits for nobody.        *)
(***************************************************************************)
PendingIsExact ==
  sch.pending = Cardinality({t \in Threads : sch.ack[t]})

(***************************************************************************)
(* Only the first HwThreads threads of g_ppu are not told to suspend: a    *)
(* sleeping thread and a thread beyond the limit always have the flag.     *)
(***************************************************************************)
OnlyOnProcProceed ==
  \A t \in Threads : "suspend" \notin sch.state[t] => t \in OnProc(sch.ppu)

(***************************************************************************)
(* No hardware thread idles: once every suspension is acknowledged, all    *)
(* threads at the head of g_ppu have been released.                        *)
(***************************************************************************)
WorkConserving ==
  sch.pending = 0 => \A t \in OnProc(sch.ppu) : "suspend" \notin sch.state[t]

(***************************************************************************)
(* g_ppu holds no thread twice and is ordered by priority.                 *)
(***************************************************************************)
QueueOrdered ==
  \A i, j \in 1..Len(sch.ppu) :
    i < j => sch.ppu[i] # sch.ppu[j] /\ prio[sch.ppu[i]] <= prio[sch.ppu[j]]

(***************************************************************************)
(* The state of the scheduler is well formed: its fields have their types, *)
(* and awakenings, yields and changes of priority leave g_ppu ordered.     *)
(***************************************************************************)
RunQueueOK == TypeOK /\ QueueOrdered

(***************************************************************************)
(* sleep() never meets a thread with the signal flag ("sleep() failed      *)
(* (signaled)" is logged as fatal and would leave the thread running while *)
(* it is in an object's queue), nor a pending timeout notification when it *)
(* registers a timeout (the ensure of sleep_unlocked).                     *)
(***************************************************************************)
SleepIsClean ==
  \A t \in Threads : pc[t] \in {"guest", "presleep"} =>
    /\ "signal" \notin sch.state[t] /\ "notify" \notin sch.state[t]
    /\ InQueue(sch.ppu, t)

(***************************************************************************)
(* A timeout is registered at most once, and only for a thread that was    *)
(* not notified yet (the ensure in schedule_all).                          *)
(***************************************************************************)
TimeoutsOnce ==
  \A t \in Threads : /\ sch.waiting[t] <= 1
                     /\ sch.waiting[t] = 1 => "notify" \notin sch.state[t]

(***************************************************************************)
(* The assertions of the scheduler hold: sleep finds neither a signal nor  *)
(* a notification left over from before, and a timeout is registered and   *)
(* notified once, whoever else awakens the thread meanwhile.               *)
(***************************************************************************)
SleepsAndTimeouts == SleepIsClean /\ TimeoutsOnce

(***************************************************************************)
(* An awakened thread is not forgotten: whoever was taken from an object's *)
(* queue and still waits is in g_ppu, or has its signal.                   *)
(***************************************************************************)
AwakenedIsScheduled ==
  \A t \in Threads : pc[t] = "wait" /\ ~queued[t] =>
    InQueue(sch.ppu, t) \/ "signal" \in sch.state[t]

(***************************************************************************)
(* Every suspension is acknowledged in the end.                            *)
(***************************************************************************)
EventuallyAcknowledged == sch.pending > 0 ~> sch.pending = 0

(***************************************************************************)
(* An awakened thread that stays among the first HwThreads gets to leave   *)
(* its system call.                                                        *)
(***************************************************************************)
AwakenedReturns ==
  \A t \in Threads :
    (pc[t] = "wait" /\ ~queued[t] /\ t \in OnProc(sch.ppu))
      ~> (pc[t] # "wait" \/ t \notin OnProc(sch.ppu))
=============================================================================
