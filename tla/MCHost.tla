------------------------------- MODULE MCHost -------------------------------
(***************************************************************************)
(* The parts that do not rest on Lv2Obj, one of them in each behaviour:    *)
(* the scheduler with two threads on one hardware thread ("scheduler"),    *)
(* the shortcut of the semaphores, used by one thread ("superpath"), the   *)
(* emulator's own semaphore ("sema") and condition variable ("cond"), the  *)
(* compilation queue ("compile"), the callbacks ("calls") and the list of  *)
(* games ("games") of the Android application.  kind says which; the       *)
(* variables of the others keep their initial values.                      *)
(***************************************************************************)
EXTENDS SemaSuperpath

CONSTANTS
  Ppus, FirstPpu, Host, Prios,
  Workers, Consumers, Permits, NoThread, WaiterMax, SignalMax, MaxData,
  Pushers, MaxWork, Callers, OnMain, MaxCalls, Games, External, MaxRequests

ASSUME HostAssumption ==
  /\ IsFiniteSet(Workers) /\ Permits \in Nat
  /\ IsFiniteSet(Consumers) /\ NoThread \notin Consumers
  /\ WaiterMax \in Nat /\ SignalMax \in Nat /\ MaxData \in Nat
  /\ MaxWork \in Nat /\ MaxCalls \in Nat /\ MaxRequests \in Nat

VARIABLES
  kind,
  sch, prio, spc, timed, queued,                                      \* Lv2Scheduler
  hpc, sword, sold, waits, inside,                                    \* HostSema
  dpc, cword, cold, lock, data,                                       \* HostCond
  queue, nextTag, lastTag, pushed, tagging, tpc, seenTag, work, done, \* CompilationQueue
  calls, made, cpc, flag, ppc, signalled, current,                    \* MainThreadProcessor
  needsRefresh, refreshRunning, isRefreshing, posts, starting, rpc,   \* GameRepository
  todo, leaving, listed, deleting, disk, fresh, requests, known

Scheduler == INSTANCE Lv2Scheduler
  WITH Threads <- Ppus, Main <- FirstPpu, HwThreads <- 1, pc <- spc
Sema == INSTANCE HostSema WITH Threads <- Workers, word <- sword, old <- sold, pc <- hpc
Cond == INSTANCE HostCond WITH Threads <- Consumers, word <- cword, old <- cold, pc <- dpc
Compile == INSTANCE CompilationQueue
Calls == INSTANCE MainThreadProcessor
Repository == INSTANCE GameRepository

schedVars == <<sch, prio, spc, timed, queued>>
semaVars == <<hpc, sword, sold, waits, inside>>
condVars == <<dpc, cword, cold, lock, data>>
compileVars == <<queue, nextTag, lastTag, pushed, tagging, tpc, seenTag, work, done>>
callVars == <<calls, made, cpc, flag, ppc, signalled, current>>
gameVars == <<needsRefresh, refreshRunning, isRefreshing, posts, starting, rpc, todo, leaving,
              listed, deleting, disk, fresh, requests, known>>
hostVars == <<kind, vars, schedVars, semaVars, condVars, compileVars, callVars, gameVars>>

HostInit ==
  /\ kind \in {"scheduler", "superpath", "sema", "cond", "compile", "calls", "games"}
  /\ Init /\ Scheduler!Init /\ Sema!Init /\ Cond!Init /\ Compile!Init /\ Calls!Init
  /\ Repository!Init
  /\ kind # "scheduler" => prio = [t \in Ppus |-> 1]

Compiling == kind = "compile" /\ Compile!Process
Calling == kind = "calls" /\ Calls!Process
Refreshing == kind = "games" /\ Repository!RefreshThreads
Posting == kind = "games" /\ Repository!MainRun

HostNext ==
  \/ /\ kind = "scheduler" /\ Scheduler!Next
     /\ UNCHANGED <<kind, vars, semaVars, condVars, compileVars, callVars, gameVars>>
  \/ /\ kind = "superpath" /\ Next
     /\ UNCHANGED <<kind, schedVars, semaVars, condVars, compileVars, callVars, gameVars>>
  \/ /\ kind = "sema" /\ Sema!Next
     /\ UNCHANGED <<kind, vars, schedVars, condVars, compileVars, callVars, gameVars>>
  \/ /\ kind = "cond" /\ Cond!Next
     /\ UNCHANGED <<kind, vars, schedVars, semaVars, compileVars, callVars, gameVars>>
  \/ /\ kind = "compile" /\ Compile!Next
     /\ UNCHANGED <<kind, vars, schedVars, semaVars, condVars, callVars, gameVars>>
  \/ /\ kind = "calls" /\ Calls!Next
     /\ UNCHANGED <<kind, vars, schedVars, semaVars, condVars, compileVars, gameVars>>
  \/ /\ kind = "games" /\ Repository!Next
     /\ UNCHANGED <<kind, vars, schedVars, semaVars, condVars, compileVars, callVars>>

\* The fairness of the modules, each for its own kind.
HostFairness ==
  /\ \A t \in Ppus : WF_schedVars(kind = "scheduler" /\ Scheduler!Going(t))
  /\ WF_compileVars(Compiling)
  /\ \A p \in Pushers : WF_compileVars(kind = "compile" /\ Compile!PushTag(p))
  /\ WF_callVars(Calling)
  /\ \A c \in Callers : WF_callVars(kind = "calls" /\ Calls!SyncTest(c))
  /\ WF_gameVars(Refreshing) /\ WF_gameVars(Posting)

HostSpec == HostInit /\ [][HostNext]_hostVars /\ HostFairness

-----------------------------------------------------------------------------
(* The properties of the modules *)

(***************************************************************************)
(* Semaphore shortcut, used by one thread: a hit is the semaphore that was *)
(* named and exists, and ESRCH is told only of one that does not exist.    *)
(***************************************************************************)
SuperpathSequential ==
  kind = "superpath" => TypeOK /\ FastHitsNamed /\ FastHitsAlive /\ EsrchIsTrue

(***************************************************************************)
(* No wake-up is lost. semaphore_base: the halves of the word count        *)
(* permits and waiters exactly, and every permit has a taker although post *)
(* does not always notify. cond_variable: the waiters are counted, and no  *)
(* consumer sleeps through the arrival of data. CompilationQueue:          *)
(* workloads are compiled once each and in order, and the two counters     *)
(* leave none behind.                                                      *)
(***************************************************************************)
HostNoWakeupLost ==
  CASE kind = "sema" -> Sema!TypeOK /\ Sema!WordCounts /\ Sema!PermitHasTaker
    [] kind = "cond" -> Cond!TypeOK /\ Cond!WaitersCounted /\ Cond!DataIsSeen
    [] kind = "compile" -> Compile!TypeOK /\ Compile!NoneStranded
    [] OTHER -> TRUE

(***************************************************************************)
(* MainThreadProcessor: invokeSync does not return before its callback has *)
(* run.                                                                    *)
(***************************************************************************)
CallsSyncIsSync == kind = "calls" => Calls!TypeOK /\ Calls!SyncIsSync

(***************************************************************************)
(* GameRepository: no request to refresh and no game that is installed in  *)
(* the directories it scans is lost, and the sign of a running refresh is  *)
(* taken away in the end.                                                  *)
(***************************************************************************)
GamesListIsComplete ==
  kind = "games" => Repository!TypeOK /\ Repository!NoGameMissed /\ Repository!SignSettles

(***************************************************************************)
(* What was asked for happens in the end: every workload is compiled,      *)
(* every call of invokeSync returns, and every request is followed by a    *)
(* refresh that ends.                                                      *)
(***************************************************************************)
HostRequestsAreServed ==
  Compile!AllCompiled /\ Calls!SyncReturns /\ Repository!RequestsAreServed

(***************************************************************************)
(* Scheduler: every suspension is acknowledged in the end, and an awakened *)
(* thread that stays on the hardware thread leaves its system call.        *)
(***************************************************************************)
SchedulerReturns == Scheduler!EventuallyAcknowledged /\ Scheduler!AwakenedReturns
=============================================================================
