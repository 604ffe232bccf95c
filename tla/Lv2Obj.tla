------------------------------- MODULE Lv2Obj -------------------------------
(***************************************************************************)
(* What the synchronization objects of the LV2 kernel have in common       *)
(* (lv2_obj): threads that sleep in an object's queue and are awakened, an *)
(* internal mutex, timeouts, and savestates.  The module of an object      *)
(* EXTENDS this one and adds its own state and system calls.               *)
(*                                                                         *)
(* Of the scheduler (module Lv2Scheduler) only its promise is used: an     *)
(* awakened sleeper is signalled in the end.  Time is abstracted: a        *)
(* timeout may expire whenever its thread waits.                           *)
(*                                                                         *)
(* A savestate stops the threads one after another.  A thread that is      *)
(* still queued then leaves its call with cpu_flag::again and makes it     *)
(* anew after the state was loaded; the queues themselves are not saved.   *)
(* A thread that slept makes its call before the guest runs again          *)
(* (g_to_sleep): the scheduler is made ready only when all of them sleep.  *)
(***************************************************************************)
EXTENDS Integers, FiniteSets, Sequences, SequencesExt

CONSTANTS
  Threads,    \* PPU threads
  NoThread,   \* nobody, the null pointer
  Prio,       \* Prio[t]: the priority of t, smaller is more urgent
  Faults,     \* which of "timeout" and "save" may happen, see faults
  MaxSaves    \* bound: how many savestates are taken

ASSUME ThreadsAssumption == IsFiniteSet(Threads) /\ NoThread \notin Threads
ASSUME MainThreadAssumption == Threads # {}   \* a process has its main thread
ASSUME PrioAssumption == Prio \in [Threads -> Nat]
ASSUME FaultsAssumption == Faults \subseteq SUBSET {"timeout", "save"}
ASSUME SavesAssumption == MaxSaves \in Nat

VARIABLES
  fifo,      \* the object's protocol: first in first out, or by priority
  exists,    \* the object's identifier is valid
  guard,     \* who holds the object's internal mutex
  pc,        \* pc[t]: where thread t is, "idle" in guest code
  timed,     \* timed[t]: the call of t has a timeout
  sched,     \* sched[t]: t as the scheduler sees it
  stopped,   \* the threads told to stop for a savestate
  toSleep,   \* g_to_sleep: loaded threads that have not slept again
  saves,     \* savestates taken so far
  faults     \* what may happen in this behaviour, an element of Faults

world == <<fifo, exists, stopped, toSleep, saves, faults>>
objVars == <<fifo, exists, guard, pc, timed, sched, stopped, toSleep, saves, faults>>

\* "on": runs; "cancelled": cancel_sleep = 2; "asleep": not in g_ppu;
\* "ready": awakened, not running yet; "signal": has cpu_flag::signal
SchedStates == {"on", "cancelled", "asleep", "ready", "signal"}

ObjInit ==
  /\ fifo \in BOOLEAN
  /\ exists = TRUE
  /\ guard = NoThread
  /\ pc = [t \in Threads |-> "idle"]
  /\ timed = [t \in Threads |-> FALSE]
  /\ sched = [t \in Threads |-> "on"]
  /\ stopped = {}
  /\ toSleep = {}
  /\ saves = 0
  /\ faults \in Faults

ObjTypeOK(labels) ==
  /\ fifo \in BOOLEAN
  /\ exists \in BOOLEAN
  /\ guard \in Threads \union {NoThread}
  /\ pc \in [Threads -> labels]
  /\ timed \in [Threads -> BOOLEAN]
  /\ sched \in [Threads -> SchedStates]
  /\ stopped \subseteq Threads
  /\ toSleep \subseteq Threads
  /\ saves \in 0..MaxSaves
  /\ faults \in Faults

-----------------------------------------------------------------------------
(* The waiter list, newest first *)

First(q) == IF q = <<>> THEN NoThread ELSE q[1]

\* The most urgent and, among equals, the one that waits longest.  Loaded
\* waiters keep their old order among equals; here it is the order in which
\* they queue again, any of which is possible.
Better(q, i, j) == Prio[q[i]] < Prio[q[j]] \/ (Prio[q[i]] = Prio[q[j]] /\ i > j)

\* Variant for mutation: the newest waiter is served first.
ServedFirstNewest(q) == {q[1]}

\* schedule: the tail under FIFO, else the most urgent.
ServedFirst(q) ==
  IF fifo THEN {Last(q)}
  ELSE {q[i] : i \in {k \in 1..Len(q) : \A j \in 1..Len(q) \ {k} : Better(q, k, j)}}

\* unqueue: the list without t, which is linked once.
Without(q, t) == RemoveFirst(q, t)

-----------------------------------------------------------------------------
(* Calls, sleeping and awakening *)

\* A thread in guest code may make a call; a loaded one makes its call again,
\* the former sleepers first.
MayStep(t, l) ==
  /\ pc[t] = l
  /\ l = "idle" => t \notin stopped /\ toSleep = {}
  /\ toSleep = {} \/ t \in toSleep

Running(t, l) == MayStep(t, l) /\ exists

\* sleep_unlocked of thread t: it leaves g_ppu, or g_to_sleep while loading.
FallAsleep(t) ==
  /\ sched' = [sched EXCEPT ![t] = "asleep"]
  /\ toSleep' = toSleep \ {t}

\* awake: the sleepers among these threads become runnable.
Awaken(ts) ==
  sched' = [t \in Threads |->
    IF t \in ts /\ sched[t] = "asleep" THEN "ready" ELSE sched[t]]

\* The wait loop at l finds cpu_flag::signal and resets it.
Signalled(t, l) ==
  /\ pc[t] = l
  /\ sched[t] = "signal"
  /\ sched' = [sched EXCEPT ![t] = "on"]

\* The wait loop at l sees that the thread is stopped, and takes the internal
\* mutex to look whether it is still queued.
Stopping(t, l) == pc[t] = l /\ t \in stopped /\ sched[t] # "signal" /\ guard = NoThread

\* A call is made with or without a timeout.
Timeouts == IF "timeout" \in faults THEN BOOLEAN ELSE {FALSE}

\* wait_timeout returns true.
TimedOut(t, l) ==
  /\ pc[t] = l
  /\ timed[t]
  /\ sched[t] # "signal"

\* check_state after a timeout: a suspended thread calls awake for itself and
\* waits for its signal; a stopped one returns to the wait loop at once.
CheckState(t, wait, go) ==
  \/ /\ t \notin stopped /\ sched[t] = "asleep"
     /\ sched' = [sched EXCEPT ![t] = "ready"]
     /\ UNCHANGED pc
  \/ /\ t \notin stopped /\ sched[t] \in {"on", "signal"}
     /\ sched' = [sched EXCEPT ![t] = "on"]
     /\ pc' = [pc EXCEPT ![t] = go]
  \/ /\ t \in stopped
     /\ sched' = [sched EXCEPT ![t] = IF @ = "signal" THEN "on" ELSE @]
     /\ pc' = [pc EXCEPT ![t] = wait]

-----------------------------------------------------------------------------
(* The scheduler and savestates *)

\* The scheduler lets an awakened thread run, once it is ready itself.
ObjSchedule(t) ==
  /\ sched[t] = "ready"
  /\ toSleep = {}
  /\ sched' = [sched EXCEPT ![t] = "signal"]
  /\ UNCHANGED <<guard, pc, timed, world>>

\* A savestate is wanted: the threads are told to stop, one after another.
ObjStop(t) ==
  /\ "save" \in faults /\ saves < MaxSaves
  /\ t \notin stopped
  /\ stopped' = stopped \union {t}
  /\ UNCHANGED <<fifo, exists, guard, pc, timed, sched, toSleep, saves, faults>>

\* All threads have left the kernel: the state is saved and loaded.  A call
\* left at label l is made again from redo[l].
ObjSaveAndLoad(redo) ==
  /\ stopped = Threads
  /\ \A t \in Threads : pc[t] = "idle" \/ pc[t] \in DOMAIN redo
  /\ saves' = saves + 1
  /\ stopped' = {}
  /\ toSleep' = {t \in Threads : pc[t] # "idle" /\ sched[t] = "asleep"}
  /\ pc' = [t \in Threads |-> IF pc[t] = "idle" THEN "idle" ELSE redo[pc[t]]]
  /\ sched' = [t \in Threads |-> "on"]
  /\ UNCHANGED <<fifo, exists, guard, timed, faults>>

-----------------------------------------------------------------------------
(* Properties of every object *)

(***************************************************************************)
(* A call that slept when the state was saved sleeps again when it is made *)
(* anew: if it returned instead, g_to_sleep would never become empty and   *)
(* the loaded game would not start.                                        *)
(***************************************************************************)
RedoSleeps == \A t \in toSleep : pc[t] # "idle"
=============================================================================
