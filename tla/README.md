# Verification of the LV2 kernel core of RPCSX for AYN Thor

This directory holds TLA+ models of the concurrent core of the emulator, the TLC
configurations that check them on small instances, and TLAPS proofs. Paths
below are relative to `src/app/src/main/cpp/rpcsx/` unless they start with
`src/`. `PROJECT.json` maps each definition to the lines it models and lists
runs, mutants, findings, hazards and theorems.

## 1. The system

The repository is an Android application that emulates a PlayStation 3 on one
kind of handheld. Guest threads (PPU threads) run on host threads; a
re-implementation of the console's kernel, LV2, decides which of them may
proceed and gives them mutexes, semaphores, event queues and so on. What goes
wrong here shows up as a game that hangs or, worse, as a critical section with
two threads in it, once in many hours. That is why the models start with the
host lock that everything else is built on, the scheduler, and the kernel
objects that games use most.

### Inventory

| Part | Where | State | Operations | What makes it hard | What makes it correct |
|---|---|---|---|---|---|
| Host lock `shared_mutex` | `rpcs3/util/mutex.{h,cpp}` | one 32-bit word: readers, claims, signals | lock, try_lock, lock_shared, upgrade, downgrade, unlock, lock_unlock | lock-free fast paths, stealing of wake-ups, borrow between fields | exclusion, exact counts, no lost wake-up |
| Host `cond_variable`, `semaphore_base` | `rpcs3/util/{cond,sema}.*` | one word each | wait, notify; wait, post, try_post | the same | the same; a bound on permits |
| LV2 scheduler | `kernel/cellos/src/lv2.cpp`, `sys_sync.h`, `rpcs3/Emu/CPU/CPUThread.cpp` | run queue, pending suspensions, timeouts; state word of every thread | sleep, awake, yield, set_priority, check_state | a handshake between the scheduler and threads that still run; awake before sleep | nobody proceeds without a hardware thread, no hardware thread idles, awakened threads return |
| `sys_mutex` | `sys_mutex.{h,cpp}` | owner and waiter list in one 128-bit word, recursion depth | lock, trylock, unlock, destroy | waiters push without a lock, timeouts race with hand-over, savestates stop threads inside calls | exclusion, direct hand-over in the order of the protocol |
| `sys_semaphore` | `sys_semaphore.{h,cpp}` | value, waiters | wait, trywait, post, destroy | lock-free and locked paths on one value | no permit lost or made up, nobody waits while a permit is there |
| Semaphore superpath | `sys_semaphore.cpp` (fork only) | caches of pointers and of failed identifiers | consulted by wait and post, updated by all calls | relaxed atomics without a lock, entries shared by identifiers | the answer of the ordinary path |
| Identifier manager | `rpcs3/Emu/IdManager.{h,cpp}` | table of keys and objects | create, find, withdraw | identifiers are used again, the invalidation counter wraps | an identifier names one object |
| `sys_cond` | `sys_cond.cpp` | waiter list, and the mutex | wait, signal, signal_all, signal_to, destroy | a waiter moves from one queue to another without waking; timeouts and savestates meet it in either | a signal is not lost; the waiter owns the mutex on return, with its depth |
| `sys_lwmutex` | `ps3fw/sys_lwmutex_.cpp`, `kernel/cellos/{src/sys_lwmutex.cpp,include/cellos/sys_lwmutex.h}` | a word in guest memory (owner, waiters), sleepers and a signal in the kernel | lock, trylock, unlock, destroy | two halves that change one after the other | the reserved word has one taker; nobody sleeps behind a free word |
| `sys_lwcond` | `ps3fw/sys_lwcond_.cpp`, `sys_lwcond.cpp` | waiter list, counter in the light-weight mutex | wait, signal | as `sys_cond`, over two halves | as `sys_cond` |
| `sys_rwlock` | `sys_rwlock.{h,cpp}` | owner word with a wait bit, two queues | read and write lock, unlock | lock-free while the bit is clear; the last queued writer may time out | exclusion; who is queued is announced |
| `sys_event_flag` | `sys_event_flag.{h,cpp}` | bits, waiters with their conditions | wait, trywait, set, clear, cancel | set decides for many waiters on a copy of the bits | set is atomic; nobody sleeps in front of its bits |
| `sys_event` | `sys_event.{h,cpp}` | queue, receivers, ports | send, receive, tryreceive, drain, connect, disconnect | events for threads that stop; senders that stay in their call | no event is lost or arrives twice |
| `sys_timer` | `sys_timer.{h,cpp}` | timers, one host thread | start, stop, connect, expiry | looks without the lock, computed sleep | the thread watches every running timer |
| `sys_ppu_thread` | `kernel/cellos/src/sys_ppu_thread.cpp` | joiner and status word | create, start, join, detach, exit | join against exit | exactly one joiner gets the exit code |
| Other system calls | `kernel/cellos/src/sys_fs.cpp`, `sys_spu.cpp`, ... | files, memory, SPU groups, modules | about a thousand calls | mostly data behind one lock | data |
| Emulator core | `rpcs3/Emu` | PPU, SPU, RSX threads; the state of the emulator | boot, run, pause, stop, savestate | recompilers, memory reservations | not as a whole in reach of a model checker |
| Other firmware libraries, PS4 kernel | `ps3fw`, `kernel/orbis` | per library | high-level emulation | - | - |
| Android bridge | `android/src/rpcsx-android.cpp` | queue of calls to the main thread, compilation queue, pads | invokeSync, process, push | a queue read without its mutex | a synchronous call returns after its callback; every workload is compiled once, in order |
| User interface | `src/app/src/main/java/net/rpcsx` | lists of games, progress entries | refresh, add, boot, precompile | callbacks from native threads | no request and no game in the scanned directories is lost |
| Loaders, crypto, input, `rx`, `rpcsx/gpu`, tools, vendored code | several | - | - | file formats, ciphers, devices | - |

### How the parts interact

A system call resolves its identifier under the reader lock of the identifier
table (a `shared_mutex`), works on the object under the object's own
`shared_mutex` or with compare-and-swap, and calls the scheduler: `sleep` for
the calling thread, `awake` for the thread it serves. The scheduler works
under its own lock, changes flags in the threads' state words, and notifies.
The threads look at the flags in the wait loop of the call and in
`check_state`. A savestate sets a stop flag on all threads; a thread inside a
waiting call leaves it with `cpu_flag::again` and makes the call anew when the
state is loaded. The models follow these borders: `SharedMutex` at the bottom;
`Lv2Scheduler` with its lock taken as given; the object modules with the
scheduler reduced to what `Lv2Scheduler` checks of it (an awakened sleeper is
signalled in the end; an awake between queueing and sleeping cancels the
sleep).

## 2. Modules

**RWLock** - abstract: who holds a reader/writer lock, and in which mode.

**SharedMutex** - `shared_mutex`. `m` is the word as three fields `rd`, `wr`,
`sig`; `pc[t]` is the place of a thread in the operation it is in, `val[t]`
the word it last loaded. One step is one atomic access; a load and the
compare-and-swap that uses it are two steps, and every atomic
read-modify-write is one. The fast paths (`TryLock`, `Lock`, `LockShared`,
`Unlock`...) and the slow paths (`ImpLock*`, `ImpLockShared*`, `ImpLockUpgrade*`,
`ImpLockUnlock*`, `ImpWait*`, `ImpSignal*`) keep the names of the code. Blocking
on the word is a step that blocks only if the word still has the value last
read, as the futex does. `watch` is a history variable for
`LockUnlockWaits`. `hold` maps the places to the modes of `RWLock`.

**SharedMutexProofs** - theorems about SharedMutex, see section 5.

**Lv2Scheduler** - `sch` is what the scheduler's lock protects (run queue,
flags, acknowledgements, pending counter, timeouts, cancelled sleeps). `Awake`,
`SleepUnlocked`, `YieldQueue`, `Reprioritise` and `ScheduleAll` are functions of
that record, in the order in which the code applies them; `Sleep`, `AwakeOther`,
`HostAwake`, `Yield`, `SetPriority`, `CheckState`, `CpuSleep`, `TimeOut` are the
actions. Kernel objects are reduced to "is in some queue"
(`queued`): `Publish` enters one before sleeping, as `try_own` does. Time is
abstracted: a registered timeout may expire whenever somebody looks.

**Lv2SchedulerProofs**, **Lv2MutexProofs**, **Lv2ObjectsProofs**, **Lv2EventProofs**, **Lv2LocksProofs**,
**HostProofs** - theorems about Lv2Scheduler, about Lv2Mutex without savestates, about semaphore, reader-writer lock and
timers among the objects of MCLv2Objects, about event queue and event flag there and all of its objects together, about the locks of
MCLv2Locks (light-weight mutex, condition variable, mutex with savestates), and about the parts of MCHost (HostSema, HostCond,
CompilationQueue, MainThreadProcessor, GameRepository, SemaSuperpath). **QueueLemmas** - what their proofs need about sequences without
repetitions: taking an element out, putting one in, joining two, and membership. See section 5.

**HandoffLock** - abstract: a mutex that is passed straight to a waiter, in an
order that the protocol (first in first out, or priority) allows.

**Lv2Obj** - what the kernel objects share, extended by their modules: waiter lists
and `ServedFirst` (the protocols of `schedule`), falling asleep and awakening, the internal
mutex `guard`, timeouts, and savestates. `sched[t]` is the thread's side of the
scheduler: on, asleep, ready, signal. A savestate stops the threads one after another
(`ObjStop`); those still queued leave with the again flag, `ObjSaveAndLoad` drops the queues, and the
calls are made again from the labels of `redo`, the former sleepers first
(`toSleep` is `g_to_sleep`). `faults` is chosen at the start: which of timeouts and savestates a
behaviour has.

**Lv2Mutex** - `ctl` is the control word, `snap[t]` the copy a thread works
with; a compare-and-swap sees owner and head of the list, not the inner nodes
(`Unchanged`), as in the code. `TryOwn` pushes without a lock; `Reown*` and
`TimeOutUnqueue` take out under the internal mutex (`guard`); `ReownNode` unlinks
in place and `ReownStore` stores the owner afterwards. `held[t]` counts what the
guest was told. `SaveStep` and `SaveAndLoad` are a savestate: the waiter list is
not saved and calls left with the again flag are made anew. `FairSpec` leaves them out (`NextWithoutSave`).
**Lv2MutexRefinement** maps its state to HandoffLock: an in-place hand-over is decided when the node is
unlinked, although the owner is stored later (`AbstractOwner`).

**Lv2Semaphore** - `val`, the waiter list, the lock-free `WaitCas`, `PostCas`,
`TryWait` and the locked `WaitDec`, `PostOp`, `TimeOutUndo`. `credit` is a history
variable: initial value plus permits posted less permits taken.

**SemaSuperpath** - the caches `fast`, `cached`, `dead` and `maxIndex`, the
identifier table, and one step per access to a cache. The operation on the
semaphore itself is "done or not possible".

**Lv2Cond** - a condition variable with its mutex. The mutex is the abstract one that
`Lv2Mutex` is shown to implement; what the code does under the mutex's internal lock is one step up to
`awake`. `sq` and `mq` are the two queues, `saved[t]` the recursion depth that a wait has put aside,
`inMutex` what a loaded waiter knows of its place.

**Lv2LwMutex** - the library's word `lock` (owner, waiter), one step per access, and the
kernel's `sq` and `signaled`. The three protocols differ in what an unlock leaves behind: a reserved word,
which belongs to whoever the kernel chooses, or with SYS_SYNC_RETRY a free one. `mode[t]` tells the first
round of a lock call from the one that is made again and from the retry loop.

**Lv2Rwlock** - `owner` as the code packs it, with its wait bit. While the bit is clear every
operation is one compare-and-swap; with the bit set a call is one step under the internal mutex,
followed by the awakenings.

**Lv2EventFlag** - bits are a set. `SetTry` is one round of `set`: the waiters are gone through
on a copy, then committed or repeated if the bits it relied on have changed; the results
written in a round that failed stay, as the registers do.

**Lv2Event** - a queue of the PPU type, one port, senders (threads and the host). An
event is a number that is sent by one call, so that losing and doubling are visible.

**Lv2Timer** - the timer thread (`ThreadWake`, `ThreadLook`, `ThreadCheck`, `ThreadSleep`) with the
looks outside of the timers' mutexes as steps of their own, and the system calls.

**HostSema**, **HostCond** - the emulator's own primitives in the manner of `SharedMutex`, each
with the way in which the program uses it: permits that are given back, and the buffer of `sys_uart.cpp`.

**CompilationQueue**, **MainThreadProcessor** - the two queues of the Android bridge, with
their counters, flags and notifications as separate steps.

**GameRepository** - the list of games: requests to refresh, the refreshing thread, blocks
posted to the main thread, and those who add games. `disk` are the games in the two directories that a refresh scans;
`External` are games that never get there, folders and images on external storage that are added where they are.
`InstallReport` is the report of an installation whose game is extracted; `Announce` is every other call of `add`, the one made
before a game is extracted and those for external games. A game is deleted in two steps, its files and its entry.

**MCLv2Objects**, **MCLv2Locks**, **MCHost** - one variable `kind` chooses which of several
components a behaviour is about; the others do not move. The components have
nothing in common that could interfere; this only puts several state spaces into one run. The properties of
these modules are conjunctions of the named properties of the component modules, for the kind they speak of.

The other MC modules only name the threads, their priorities and the symmetry.
Definitions called "variant for mutation" are used by nothing: each is a
plausible mistake in the definition next to it, and makes the property it is
listed with in `PROJECT.json` fail.

## 3. Runs

| Run | Instance | States | Shows |
|---|---|---|---|
| `shared_mutex` | 3 threads, 2 readers, 2 spin rounds | 522 261 | the inductive invariant, exact counts, one carrier of the lock, wake-ups pending, `lock_unlock` waits, refinement of RWLock, queued threads are served |
| `lv2_scheduler_safety` | 3 threads, 2 hardware threads, 2 priorities, a host thread | 888 939 | the suspend handshake, work conservation, order, clean sleeps, timeouts once |
| `sys_mutex_hand_over` | 3 threads, all four kinds of mutex, timeouts, recursion depth 2 | 102 464 | exclusion, depth, queue, hand-over is seen, on time and completes, refinement of HandoffLock |
| `lv2_locks` | 3 threads; a condition variable, a mutex, or a light-weight mutex; timeouts or one savestate | 1 480 814 | who is told so owns the mutex with its depth, the assertions of `sys_cond_wait` hold, nobody is lost between the queues, exclusion survives saving and loading, the light-weight word has one taker and counts its sleepers |
| `lv2_objects` | 3 threads and a semaphore, a reader-writer lock, an event flag, or an event queue with its port; 2 threads and 2 timers; timeouts or one savestate | 983 810 | permits, readers and events are conserved, nobody is overlooked, awakened late or left in a destroyed object, `set` is atomic, timers expire when and as often as they should, loaded sleepers sleep again |
| `host` | the scheduler with 2 threads on 1 hardware thread; the superpath with 1 thread; 4 threads and 2 permits; 3 threads on a condition variable; 2 pushers; 2 callers; a game that is installed and an external one | 250 129 | no wake-up is lost; what was asked for happens; the superpath answers as the ordinary path when one thread uses it |
| `sys_mutex_deferred_unlock` | 3 threads, one savestate | - | finding 1 |
| `superpath_wrong_object` | 2 threads, 2 objects | - | finding 2 |
| `event_flag_set` | 3 waiters, a setter, a clearer | - | finding 3 |
| `event_sent_twice` | 3 threads, one savestate | - | finding 4 |
| `timer_unwatched` | 1 thread, 2 timers | - | finding 5 |
| `lwmutex_unlock_lost` | 2 threads, one savestate | - | finding 6 |

What the composed properties consist of:

| Property | Parts |
|---|---|
| `Inv` | the inductive invariant of the proofs: types, `CountsMatch`, `OneCarrier`, `WakeupPending`, `SignalHasWaiter`, `SlowPathLocals` |
| `RunQueueOK`, `SleepsAndTimeouts` | types and `QueueOrdered`; `SleepIsClean`, `TimeoutsOnce` |
| `Ownership`, `WakeupsAreExact` | types, `HeldIsOwned`, `DepthIsExact`; `HandoffIsSeen`, `AwakeIsOnTime` |
| `CondOwnership`, `CondEnsuresHold`, `CondNobodyStranded` | types, `HeldIsOwned`, `DepthIsRestored`; `OwnershipVerified`, `ReloadFindsOwner`; `NobodyStranded`, `QueueHasOwner`, `OneIsAwakened` |
| `MutexSurvivesSave` | types, `HeldIsOwned`, `QueueHasOwner`, `AwakeIsOnTime` of Lv2Mutex |
| `LwMutexOwnership`, `LwMutexNobodyStranded` | types, `HeldIsOwned`, `ReservedForOne`; `WaitersAreCounted`, `RetryIsAwakened` (behaviours without timeouts), `AwakeIsOnTime`, `RedoSleeps` (without SYS_SYNC_RETRY) |
| `SemaCountsExactly` | types, `PermitsConserved`, `QueueIsCounted`, `EnsuresHold` |
| `RwlockExclusion`, `RwlockNobodyStranded` | types, `WriterIsAlone`, `ReadersAreCounted`; `QueuedIsAnnounced`, `ReadersWaitForWriter` |
| `QueueNothingLost` | types, `NothingLost`, `OnceWithoutSave` |
| `ObjectWakeupsAreExact`, `ObjectUsedExists` | `ServedIsSeen` or `LetInIsSeen`, and `AwakeIsOnTime`, of each object; `DestroyedIsEmpty`, `PortOutlivesSend` (while the queue exists) |
| `FlagSetIsAtomic` | `CleanRoundIsAtomic`: `SetIsAtomic` for the rounds of `set` that find no results left over from a round that failed |
| `TimerExpirations` | types, `RunningIsWatched`, `OneEventEach`, `StartFollowsLoop` |
| `SuperpathSequential` | types, `FastHitsNamed`, `FastHitsAlive`, `EsrchIsTrue` |
| `HostNoWakeupLost` | `WordCounts`, `PermitHasTaker`; `WaitersCounted`, `DataIsSeen`; `NoneStranded` |
| `GamesListIsComplete` | types, `NoGameMissed`, `SignSettles` |
| `HostRequestsAreServed`, `SchedulerReturns` | `AllCompiled`, `SyncReturns`, `RequestsAreServed`; `EventuallyAcknowledged`, `AwakenedReturns` |

A composed property has a mutant for each of its parts, or for most of them.

**Bounds.** Three threads are a holder, a waiter and somebody who interferes
(steals, times out, destroys, is queued behind): the hazards listed need no
fourth. For `shared_mutex` the proofs remove the bound. `MaxReaders` 2 lets the
reader field reach its limit with three threads; `Spins` 2 gives a first, a
repeated and a last round (the code's 10 and 30 repeat the middle one).
Two hardware threads for three PPU threads give suspension and release; one for two
is the smallest contended machine for liveness. `MaxLocks` 1 reaches the limit of
the recursion counter. `MaxVal` 2 and `MaxPost` 2 reach the maximum, exceed it, and
post to several waiters at once. One savestate is enough for a call to be
interrupted and repeated. `Faults` gives a behaviour timeouts or a savestate, not both:
with both, the first observation of section 4 breaks exclusion in every object and nothing behind it could be
seen. Two actions happen only with both, `RedoEsrch` of Lv2Mutex and of Lv2Rwlock (a repeated call that did not
sleep when the state was saved can find its object destroyed). Two bits, with waiters for all, any and clearing, let a set satisfy one
waiter at the expense of another. `QueueSize` 1 fills the queue with the first of two events. Timers have
periods 0 and 1 and three moments; guests make calls on a running timer only if it is a one-shot (`Asked`),
because with a periodic one finding 5 follows. `host` has four threads for two permits (two holders, two waiters),
limits of 2 in the condition variable's word, four workloads and calls by two threads each, two
games, one of them external, and two requests, so that the second may come at any moment of the refresh that the first started. In the superpath of
`host` two indices on one entry collide, and four
objects for two indices make identifiers be given out again, with a counter that does not wrap within the bound.

**Symmetry** is used where no liveness is checked: t2 and t3 have the same priority
and no action names either; in the scheduler only the main thread is singled out.

**Deadlock** is checked for `shared_mutex` and the scheduler. In the other runs the system
may stop: a destroyed object leaves its users with nothing to do, and the counters of
workloads, calls, requests and ticks end.

**Fairness.** Weak fairness of the steps of a thread that is inside an
operation: host threads are preemptive and no step waits for anything but its
guard. For `shared_mutex` also of the release: a critical section ends, which is an
assumption about the callers (the emulator never waits for the guest inside
one). For the mutex also of `Schedule`, the scheduler's promise: it is what
`SchedulerReturns` shows for the thread that stays among the first; a thread
that is never among them, because more urgent ones run for ever, gets no promise in the real
scheduler either. The thread of the compilation queue, which nobody notifies, is fair because
`std::atomic::wait` of the library it is built with looks again from time to time; the
processor of the callbacks and the main thread of the application are loops. Calls, timeouts, yields and
savestates have no fairness: nobody has to make them. `HandoffCompletes` further assumes that
timeouts cease: each takes the internal mutex, which serves newcomers first.

## 4. Findings

1. `lv2_mutex::reown` (sys_mutex.h:145) stores the new owner even when the chosen
   waiter has left for a savestate; the unlock is then deferred and, made again after
   loading, gets CELL_EPERM.
2. Superpath, wrong object: identifier and pointer of a cache entry are read and
   written separately; another thread can put its pointer between the two reads.
3. `sys_event_flag_set` (sys_event_flag.cpp:372) that has to repeat its round leaves the CELL_OK of
   the first round with waiters it does not reach again: they are awakened without their bits.
4. `sys_event_port_send` (sys_event.cpp:719) that is stopped for a savestate after it has sent
   its event sends it again after loading.
5. `lv2_timer::check` (sys_timer.cpp:71) that finds a due timer already expired by a system call reports
   it like a stopped one: the timer thread sleeps without end while the timer runs.
6. `sys_lwmutex_unlock` (sys_lwmutex_.cpp:392) leaves the word reserved before its system call; if that
   is left for a savestate, the repeated call gives up and nobody is signalled.

**Observations without a run.** TLC confirms each of these with the constants given.

- A timeout and a savestate together: a waiting call that timed out calls `check_state`, which awakens its thread and
  waits to be scheduled; when the thread is stopped there, it returns to the wait loop still queued, and in
  the run queue. If another thread's `schedule_all` signals it before the loop reads the flags, the
  loop takes the signal for the hand-over (sys_mutex.cpp:193) and returns CELL_OK. With three threads,
  `MaxLocks = 1`, `MaxSaves = 1` and `Faults = {{"timeout", "save"}}`, `Lv2Mutex` violates `HeldIsOwned` in twelve
  states and `Lv2Rwlock` violates `WriterIsAlone`. The window is a few instructions wide.
- `imp_lock_unlock` (mutex.cpp:171) does not recognise a free mutex once it has looked
  at a state with readers only; it spins on and then queues: with the constants of `MCSharedMutex.cfg` the property
  `FreeIsCaught` is violated. `LockUnlockWaits` holds, so this costs
  time, not correctness.
- Superpath, stale pointer and false ESRCH: what a lookup found is cached after the lock of the table
  is released. `MCSemaSuperpath` with `Threads = {main, other}`, `Main = main`, `IdCount = 1`, `Gens = 2`,
  `FastSlots = 1`, `DeadSlots = 1`, `MaxObjs = 1` violates `FastHitsAlive` and `EsrchIsTrue`.
- Superpath, wrap: when the 8-bit invalidation counter of an index wraps, an identifier
  that is still in `destroyed_ids` is created again, and `record_created` does not remove it
  there. `Threads = {main}`, `IdCount = 1`, `Gens = 2`, `MaxObjs = 3` violates `EsrchIsTrue`. In the
  program this takes 256 reuses of one index during which no other semaphore whose index is
  equal modulo 32 is destroyed. The superpath is off unless a system property or environment
  variable turns it on, and is for one title (BLUS30161) only. What holds nevertheless for any threads and with the wrap is `SuperpathShared`, which section 5 proves.
- A refresh loses games: `refresh` (GameRepository.kt:203) clears the list and scans `config/dev_hdd0/game` and `config/games`. A folder or an
  image that was added where it is on external storage (FileUtil.kt:70 and :278) is in neither, and leaves the list with the
  next refresh until it is imported again; a game that is announced before its extraction (rpcsx-android.cpp:2558, :2784) leaves
  it until the installation reports it at its end. `GamesListIsComplete` is therefore about games in the scanned
  directories only; with `known' = known \union b.games` for "announced" blocks in `MainRun` it is violated. The repository's README says
  that external folders and images can be added, not that they stay.
- `sys_rwlock_wlock`: the loop in which a timed-out writer lets the readers in does not end if one of them has
  stopped for a savestate. `Lv2Rwlock` with `Faults = {{"timeout", "save"}}` and three threads violates
  `ReaderLoopEnds`.
- `sys_lwmutex_lock` with SYS_SYNC_RETRY: a thread that was awakened and finds its time up returns
  ETIMEDOUT (sys_lwmutex_.cpp:253) without awakening the next sleeper, who may sleep in front of a free
  word: `RetryIsAwakened` excludes timeouts for this reason. And a lock call that is made again after
  loading and finds the word free takes it without taking itself out of `waiter` and without sleeping:
  `WaitersAreCounted` is then only an upper bound, and `RedoSleeps` is stated without retry.

## 5. Proofs

Eight modules hold proofs: three components, the kernel objects side by side (two modules), the kernel's locks side by side, the host
side, and the lemmas on queues. What a run shows on its instance the theorems show for every value of the constants that
satisfies the named assumptions. Every safety invariant of the passing runs but `SuperpathSequential` is the subject of a theorem, and so are
the action property `LockUnlockWaits` and the two refinements.

| Module | Specification | Theorems |
|---|---|---|
| `SharedMutexProofs` | `Spec` of SharedMutex | `Invariance`, `TypeCorrect`, `WordIsExact`, `OwnershipIsUnique`, `NoWakeupLost`, `Refinement` of RWLock, `MutualExclusion`, `LockUnlockIsExact` |
| `Lv2SchedulerProofs` | `Spec` of Lv2Scheduler | `Invariance`, `RunQueueIsWellFormed`, `SuspensionsAreCounted`, `LimitIsKept`, `NoHardwareThreadIdles`, `AssertionsHold`, `NobodyIsForgotten`, `AtMostHwThreadsRun` |
| `Lv2MutexProofs` | `FairSpec` of Lv2Mutex | `Invariance`, `OwnershipIsExact`, `NobodyQueuesForNothing`, `HandoverIsExact`, `MutexIsHandoffLock` |
| `Lv2ObjectsProofs` | `Spec` of Lv2Semaphore | `Invariance`, `CountsAreBounded`, `PermitsAreConserved`, `ValCountsTheQueue`, `EnsuresNeverFail`, `NobodyMissesItsPermit`, `WakeupsAreOnTime`, `DestroyStrandsNobody`, `LoadedWaitersSleepAgain` |
| `Lv2ObjectsProofs` | `ObjectsSpec` of MCLv2Objects | `SemaphoreAmongObjects`, `SemaphoreCountsExactly`, `RwlockAmongObjects`, `RwlockExcludes`, `RwlockStrandsNobody`, `RwlockWakeups`, `TimersAmongObjects`, `TimersExpire` |
| `Lv2EventProofs` | `ObjectsSpec` of MCLv2Objects | `QueueAmongObjects`, `QueueLosesNothing`, `QueueWakeups`, `FlagAmongObjects`, `FlagOverlooksNobody`, `FlagWakeups`, `FlagSetsAtomically`; of all kinds together `EveryWakeupIsExact`, `NothingUsedIsDestroyed`, `EveryLoadedSleeperSleeps` |
| `Lv2LocksProofs` | `LocksSpec` of MCLv2Locks | `LwMutexAmongLocks`, `LwMutexOwned`, `LwMutexServed`, `CondAmongLocks`, `CondOwned`, `CondEnsured`, `CondServed`, `MutexAmongLocks`, `MutexSaved` |
| `HostProofs` | `HostSpec` of MCHost | `HostInvariance`, `NoHostWakeupIsLost`, `InvokeSyncIsSync`, `ListIsComplete` |
| `HostProofs` | `Spec` of SemaSuperpath | `SuperpathStaysShared` |

**Assumptions.** The sets of threads are finite, none of them is the value that stands for no thread, and bounds are natural
numbers. Beyond that: `FieldWidths` (SharedMutex: at least one reader, and no more threads than the word can count
claims; the code has 16383 and 65535), `HwAssumption` (at least one hardware thread), `PrioAssumption` and
`PriosAssumption` (priorities are natural numbers), `MainThreadAssumption` (there is a thread), `SemaAssumption`
(max is at least 1, which `sys_semaphore_create` checks), `EventsAssumption`, `TimersAssumption` and `FlagsAssumption` (sizes, periods and
times are natural numbers, there is a timer, and what threads wait for and set are sets of bits), `WordsAssumption` (the words free, reserved and dead of
a light-weight mutex are three and no thread's identifier). Every run whose module extends the component evaluates them.

**OneFault.** The theorems about objects on which calls with a timeout sleep have the hypothesis `OneFault`: timeouts and savestates both occur, but
not in one behaviour. A thread that has timed out and is then stopped goes back to its wait loop with a signal that nobody sent, the
first observation of section 4; for such behaviours the statements about wake-ups are false. The runs of these objects choose
`Faults` accordingly, and `faults` is fixed at the start of a behaviour. `TimersExpire` and `MutexSaved` do not need it.

The inductive invariants were checked by TLC before they were proved, those of the scheduler, the mutex and the semaphore
on the instances of the runs in section 3, those of the other kernel objects and locks with two or three threads and up to two savestates.

### SharedMutex

**Inductive invariant.** `CountsMatch`, `OneCarrier` and `WakeupPending` are not inductive
alone. `SignalHasWaiter` is added: a signal is only sent, or about to be sent, while
somebody is queued, otherwise consuming it would make the claims negative. `SlowPathLocals`
says what a thread keeps at a label: at `wt_check` the word it loaded has no signal, which
is what makes blocking on a stale word impossible once a signal was added.

**Argument.** There are 32 actions, but only thirteen ways in which a step can
change the word together with the place of a thread in the accounting (take a free lock,
steal a signal, queue, leave, signal, consume, ...). They are the *moves*. `StepIsMove`
shows that every step except the notification is a move, one case per action; `MoveInv`
that every move preserves the invariant of the word; `MoveRefines` that every move is a step
of `RWLock` or a stutter. `CountsStep` is the only place where cardinalities
are calculated: one thread changes its label, so a count changes by at most one.
`NotifyInv` and `LocalsInv` do the rest.

**lock_unlock** (`WatchInv`). `LockUnlockIsExact` is an action property: in the step in which a thread leaves lock_unlock, no section that was running at its
call still is. A spinning thread compares the count it sees with the one it saw before, and other threads may come and go in between. The
moves show that only the end of an exclusive section gives up a claim; so while a watched section lasts the count in the word is not less than the largest one
seen, and there is neither a reader nor a signal.

### Lv2Scheduler

The pieces of the scheduler are functions of the state `S` that `g_mutex` protects, and an action applies several of
them. So the invariant is stated of such an `S`, and has two strengths. `Core` holds between any two pieces: `g_ppu` is
ordered, `g_pending` is the number of acknowledgements still owed, an acknowledgement is owed only by a thread that
has the suspend flag, and a thread in `g_ppu` has no timeout registered. `OnProcOnly` and `Saturated` (the limit, and that
it is used up) hold only when `g_mutex` is free: taking a thread out of the queue breaks the second, and inserting one
breaks the first until the thread pushed over the edge is suspended. There is one lemma per piece, and an action is the
composition of these. `Local` is what a thread relies on, given where it is; `Kept` is what the pieces leave to the
threads that they are not about, so that `Local` is proved once for all the others. The number of running
threads follows: a thread in guest code that has the suspend flag still owes its acknowledgement.

### Lv2Mutex

The property that nobody is queued for a free mutex depends on how lock-free pushes meet a holder of the internal mutex who
edits the list. `SnapInv` is the heart: while a thread works on a copy of the list under the internal mutex, the list is that copy
plus what was pushed in front of it since (`Extends`), so that what it unlinks it unlinks from the list too. Between choosing the
next owner and storing it, the chosen thread (`Elect`) is in neither place, and `ThreadInv` says that every waiting thread is
in the list, is the owner, or is chosen. `ToldInv` makes wake-ups exact: a thread that was told to go on is the owner
and nobody will tell it again (`Awaited`). With the invariant, `MutexIsHandoffLock` shows that every step is a step of HandoffLock
or a stutter; a waiter enters the abstract queue when its push succeeds, and the election is where the protocol's order is obeyed.

These theorems are about behaviours without savestates (`FairSpec`, and `NoSaveSpec` without its fairness). A savestate drops
the list and has the calls made anew, which the hand-over lock does not do; that the mutex survives one is `MutexSaved`, below.

### Lv2Semaphore

`val` and the list are changed in different steps, so the invariant relates them phase by phase (`ValueInv`): outside of the
critical sections a negative `val` is the length of the list; between the decrement and the queueing, and
between the unqueueing and the undo of a timeout, it is one more; while post awakens, `left` threads are still to be taken out. A lock-free
`WaitCas` or `PostCas` cannot disturb this because it only succeeds on a `val` that is not negative before and after. `PermitsConserved` is
inductive once every label that `val` counts is known (`Counted`). `LoadInv` describes the time after a load, in which only former sleepers
move, so that `val` cannot be posted before they are queued again.

`SemaphoreCountsExactly` carries the result over to the specification that the run checks: a behaviour about a semaphore makes only steps
of Lv2Semaphore. The other objects are proved in that specification from the start.

### Lv2Rwlock

The lock is proved in Lv2ObjectsProofs, for the behaviours of `ObjectsSpec` whose object is a reader-writer lock. A thread is a
reader for the word from the moment it is let in, which may be while it still sleeps, until its unlock has subtracted it, which may be
after a savestate: `RwReader` and `RwWriter` name the labels. `RwCountInv` says that `owner.readers` is their number, `RwWordInv`
that the writer is the one in the word, and what the bit means: it is set while anybody is queued, and under
readers only while a writer is queued. The last part is what makes `runlock` right, whose last reader looks at the writers' queue only, and it is what a
timed-out writer has to restore by letting in the readers behind it. After a load the queues are empty and the bit is still set, so `RwWantsR` and `RwWantsW` count
the loaded sleepers among the queued; `RwLoadInv` says that only these move then, and `RwLoadingIsBusy` that they find the
lock busy and sleep again. From this follows that a call made again never finds its lock destroyed (`RwNoEsrch`), that the last reader never finds the writers' queue empty with
the bit set, and that the EPERM of the slow path of `runlock` is not reached by a thread that holds the lock.

`OneFault` is needed here too: where timeouts and savestates meet, `WriterIsAlone` and `ReaderLoopEnds` are
violated (section 4); `RwlockWakeups` shows that the loop ends in all other behaviours.

### Lv2Timer

The timer thread goes through the timers with a deadline in mind and then sleeps; a guest that starts a timer pokes it. `TimerWatch`
says what the thread owes to the timers: unless it has been told to look again, it will wake in time, or every running timer is
still in front of it, and a timer about to be locked is due. With it a running timer is always watched. That the first expiration which
`sys_timer_start` computes by a division is the one at which the loop of the code would arrive (`StartFollowsLoop`) is arithmetic, proved for all numbers. The
hypothesis `AskedOnce` of `TimersExpire` excludes one kind of guest: those that call `sys_timer_get_information` for a *periodic* timer,
for which the statement is false (finding 5 of section 4).

### Lv2Event

`EvCopiesInv` counts the copies of an event in the queue, in the registers of receivers and received: an accepted one has at least
one, and before the first savestate no event has two. It needs `EvListInv` (nobody is queued while there are events, so that send may
hand an event straight to a receiver) and `EvThreadInv` (who has an event in its registers is still in the call, also when its
time is up). `EvPortInv` says that `busy` is the number of senders inside the port, which is why `sys_event_port_disconnect` and
`destroy` wait for them. `EvLoadInv`: after a load nothing is sent before the receivers sleep again.

### Lv2EventFlag

`FlBitsInv`, that nobody is queued whose bits are set, is broken while `sys_event_flag_set` works on its copy of the bits, where
`FlCopyInv` takes over: bits may be cleared behind its back, but none come, the bits in its copy satisfied nobody when it read them, and those it has marked are
still queued. The loops over the waiters are recursive functions of the list, so that their results can be calculated for a list of any
length by `FlagSetsAtomically`: if the compare-and-swap at the end succeeds, the waiters awakened and the bits left are those of processing
the waiters in one atomic step, as the comment in the code claims. Its hypothesis is that no waiter carries a mark of an earlier round; where one does, the claim is
false (finding 3).

### All objects

`EveryWakeupIsExact`, `NothingUsedIsDestroyed` and `EveryLoadedSleeperSleeps` put the invariants of the five kinds together (`KindInv`): they
state the invariants of the run about objects as a whole, not only where the object is of one kind.

### Lv2LwMutex

The word in guest memory and the object in the kernel are changed in different steps, by code of the guest and of the
kernel, and after `sys_lwmutex_unlock` has left the word reserved nobody but the kernel knows for whom. `LwRightInv` is the heart: a thread has
the *right* to a reserved word while it is on its way to take it or to pass it on, and the number of rights, plus one if `signaled` is set, is
one if the word is reserved and zero if not. The exception is the history variable `lost`, set where finding 6 strikes. `LwCountInv` says that `waiter` is the number
of threads that have announced themselves, and that with the word free nobody is beyond that point, so that an
unlock which sees no waiter may skip the kernel. `LwRetryInv` is the same for SYS_SYNC_RETRY, where the word is free
and the sleeper awakened has to compete for it. `LwLoadInv`: while loaded sleepers have not slept again they find the word taken.

### Lv2Cond

A waiter is in at most one of five places: the queue of the condition variable (`sq`), that of the mutex (`mq`), the list that
`signal_all` has taken out and not yet put into the other (`batch`), about to be awakened (`toAwake`), or made the owner. `CdInv` has what holds of all
together (`CdGlobal`: nobody is queued twice, nobody is queued for a free mutex, only the owner is about to be awakened) and one part per
thread: in which calls a queued thread may be (`CdListPart`), what it holds (`CdOwnPart`: a waiter that is in no queue is the
owner), and how the scheduler sees it (`CdSchedPart`: it sleeps exactly while it is in one of the places). The ownership that the assertion at the end of wait
checks follows from the last two: whoever is signalled was taken out of both queues, so it is the owner. `CdLoadPart` is
for savestates: a waiter remembers in `inMutex` whether it was queued for the mutex, and queues itself there again; that it finds the mutex owned, which the
second assertion checks, holds because as long as loaded sleepers have not slept again only they make steps, and none of them unlocks. Almost every action
changes the part of one thread; `CdFrame` says that the others keep theirs, and an action is looked at for its own
thread and for the one it moves (`CdPlain`, `CdPair`).

### Lv2Mutex with savestates

`MxInv` is the invariant of the mutex without timeouts and with savestates at any moment. The order of the list, on which
`ImplementsHandoff` depends, does not matter here, so instead of `SnapInv` it is enough that what unlock has read of the list is still queued
(`MxReadPart`). What a savestate adds is the waiter that has left its call with the again flag but is still in
the list (`MxWaitPart`): unlock must not awaken it, and may still make it the owner. That is what happens in `reown`, after which unlock itself is
deferred (`a_unlock`). All that is kept over the load is the owner and its count, and `held[t]` is bounded by the count: that it is *equal* to it,
`DepthIsExact`, is not claimed over savestates, where an unlock may be lost (finding 1).

### The host side

Five parts of MCHost have an invariant each, which `HostInvariance` puts together by kind; the superpath has its own.

- `semaphore_base` (`SemaInv`): `PermitHasTaker` alone is not inductive, because a permit may be taken by a thread that did not sleep
  while a notified sleeper is on its way. `SemaTakers` counts: no permit is free, or the free permits are no more than the threads on
  their way and the notifications about to be sent, or there is a notification about to be sent for every sleeper.
- `cond_variable` (`CondInv`): while a thread waits and there is data, the producer has still to signal, or the signals of the word
  differ from those the thread has seen (`CondSeen`); a sleeper for whom they differ will be notified (`CondWoken`). Both rest on `CondLocal`: no signal
  is taken back while a waiter is counted, and the field has room for one more than it has seen, also at its limit.
- The compilation queue (`CompileInv`): what is done, in hand, and queued is the sequence of all workloads pushed, in order.
- `MainThreadProcessor` (`CallsInv`): the callback of a waiting caller is queued at most once, and while it is queued or in hand the flag
  of the caller is not set.
- The list of games (`GamesInv`): a known game (one in the scanned directories, at the last request or when its installation reported it,
  and not deleted since) is listed, or a refresh that is running, requested or about to scan will still come to it;
  and the last block posted about the sign of a refresh hides it unless another is to come.
- The superpath (`SharedInv`), for any number of threads and without a bound on the counters: the pointer in an entry belongs to some semaphore
  of that entry, whoever stored it last (`FastInv`), and what a thread has in hand is the semaphore it created, looked up or destroyed
  (`Knows`), which for a destroy has left the table for good, since a semaphore is entered once (`Gone`). The names in the two words of an entry may
  belong to different semaphores: that is finding 2, and no invariant excludes it. What follows is `SuperpathShared`: a hit is some semaphore of
  its entry (`HitSharesEntry`), "never created" is not told of a semaphore whose create has returned (`UncreatedIsTrue`), and `destroyed_ids` names only
  semaphores that have left the table (`DestroyedAreGone`). TLC checked it before on `MCSemaSuperpath` with `Threads = {main, other}`, `Main = main`, `IdCount = 3`,
  `Gens = 1` (every reuse of an index gives the same identifier again), `FastSlots = 2`, `DeadSlots = 2`, `MaxObjs = 4`: 6 837 146 states.

**Only model-checked.** Liveness (`LockIsPassedOn`, `HandoffCompletes`, `HostRequestsAreServed`, `SchedulerReturns`), which the proof system
does not reach, and `SuperpathSequential`, which speaks of one thread before a counter wraps.

## 6. Not modelled

Creation of objects and its argument checks; identifiers shared between
processes; the preemption heuristics, `cleanup`, stop and debug flags in the scheduler, and batches of
several threads in one `awake` there; the retry of `sys_cond_signal` while its thread is suspended; event queues and ports
of SPU threads; pausing and savestates of timers; `lwcond_waiters` in the light-weight mutex; the entries of
installations in progress and the saving of the list of games;
weak memory (the C++ atomics are taken as sequentially consistent, and for the relaxed
ones of the superpath the program has more behaviours than the model: what the model
violates the program violates; `SuperpathSequential` is shown for one thread, to
which its own accesses appear in order, and each part of `SuperpathShared` is about single words of the caches and uses no order between
accesses to different ones); lock elision in
`shared_mutex`, which makes the same transitions.

The repository has some 600 000 lines of its own and of imported emulator code: interpreters and
recompilers for two processors, a graphics pipeline, some hundred firmware libraries, file formats
and ciphers. They compute; they have few states that a model checker could tell apart, and no small instance
stands for them. The modules here cover the files that synchronise, about a fifth of the lines of the files they touch, the rest
being argument checks, logging, SPU variants and calls that only read. `PROJECT.json` gives the reason for each part that is left out.

## 7. Plan

Modules, in order:

1. **Lv2LwCond** on top of Lv2LwMutex: `lwcond_waiters`, the hand-over between the two lists, and the
   user-mode half.
2. **PpuThread**: join, detach, exit, with the identifier manager.
3. **SpuGroup**: start, suspend, join and terminate of SPU thread groups (`sys_spu.cpp`), which
   have states of their own and events to PPU queues.

Theorems: of each of these modules its inductive invariant. The liveness properties stay with TLC.
