----------------------------- MODULE MCLv2Locks -----------------------------
(***************************************************************************)
(* A condition variable with its mutex ("cond"), a mutex alone with        *)
(* savestates ("mutex"), or a light-weight mutex ("lwmutex"), one of them  *)
(* in each behaviour.  kind says which; the variables of the others keep   *)
(* their initial values.  The mutex has its timeouts in MCLv2Mutex.        *)
(*                                                                         *)
(* t1 is less urgent than t2 and t3.                                       *)
(***************************************************************************)
EXTENDS Lv2Cond, TLC

CONSTANTS t1, t2, t3, Free, Reserved, Dead

ASSUME WordsAssumption ==
  /\ {Free, Reserved, Dead} \intersect Threads = {}
  /\ Free # Reserved /\ Free # Dead /\ Reserved # Dead

VARIABLES
  kind,
  recursive, ctl, snap, next,          \* Lv2Mutex, which shares count and held
  retry, lock, signaled, mode, lost    \* Lv2LwMutex, which shares these and sq

mutexVars == <<recursive, ctl, snap, next>>
condVars == <<owner, mq, sq, batch, toAwake, saved, inMutex, redoLoaded>>
lwVars == <<retry, lock, signaled, mode, lost>>

Mutex == INSTANCE Lv2Mutex
LwMutex == INSTANCE Lv2LwMutex

MCThreads == {t1, t2, t3}
MCPrio == [t \in Threads |-> IF t = t1 THEN 2 ELSE 1]
MCSymmetry == Permutations({t2, t3})

LocksInit ==
  /\ kind \in {"cond", "mutex", "lwmutex"}
  /\ Init /\ Mutex!Init /\ LwMutex!Init
  /\ kind = "cond" => ~recursive
  /\ kind # "lwmutex" => ~retry
  /\ kind = "mutex" => "timeout" \notin faults

LocksNext ==
  \/ kind = "cond" /\ Next /\ UNCHANGED <<kind, mutexVars, lwVars>>
  \/ kind = "mutex" /\ Mutex!Next /\ UNCHANGED <<kind, condVars, lwVars>>
  \/ /\ kind = "lwmutex" /\ LwMutex!Next
     /\ UNCHANGED <<kind, owner, mq, batch, toAwake, saved, inMutex, redoLoaded, ctl, snap>>

LocksSpec == LocksInit /\ [][LocksNext]_<<kind, vars, mutexVars, lwVars>>

-----------------------------------------------------------------------------
(* The properties of the modules, each of its own kind of object *)

(***************************************************************************)
(* Condition variable: who was told that wait is over, or that the mutex   *)
(* is locked, owns the mutex, with the recursion depth that wait had put   *)
(* aside.                                                                  *)
(***************************************************************************)
CondOwnership == kind = "cond" => TypeOK /\ HeldIsOwned /\ DepthIsRestored

(***************************************************************************)
(* Condition variable: the assertions of wait hold, "Verify ownership" at  *)
(* its end, and that a loaded waiter of the mutex finds it owned.          *)
(***************************************************************************)
CondEnsuresHold == kind = "cond" => OwnershipVerified /\ ReloadFindsOwner

(***************************************************************************)
(* Condition variable: no waiter is lost between the two queues, or in     *)
(* both, or left in front of a free mutex, and signal_all awakens only the *)
(* new owner.                                                              *)
(***************************************************************************)
CondNobodyStranded == kind = "cond" => NobodyStranded /\ QueueHasOwner /\ OneIsAwakened

(***************************************************************************)
(* Mutex: exclusion, recursion and the hand-over to waiters survive a      *)
(* savestate at any moment: nobody is queued in a free or destroyed mutex  *)
(* after the waiters have queued again, and nobody is awakened who has     *)
(* left because of the stop.                                               *)
(***************************************************************************)
MutexSurvivesSave ==
  kind = "mutex" => /\ Mutex!TypeOK /\ Mutex!HeldIsOwned
                    /\ Mutex!QueueHasOwner /\ Mutex!AwakeIsOnTime

(***************************************************************************)
(* Light-weight mutex: who was told that it has locked the mutex is in the *)
(* word with its depth, and a reserved word is meant for exactly one, so   *)
(* that the library never throws "Locking failed".                         *)
(***************************************************************************)
LwMutexOwnership ==
  kind = "lwmutex" => LwMutex!TypeOK /\ LwMutex!HeldIsOwned /\ LwMutex!ReservedForOne

(***************************************************************************)
(* Light-weight mutex: nobody sleeps in the kernel behind the back of an   *)
(* unlock that does not look there, no sleeper is awakened that has left,  *)
(* and a loaded sleeper sleeps again. With SYS_SYNC_RETRY the last is left *)
(* out, and that somebody is on the way to a free word holds of behaviours *)
(* without timeouts (RetryIsAwakened).                                     *)
(***************************************************************************)
LwMutexNobodyStranded ==
  kind = "lwmutex" =>
    /\ LwMutex!WaitersAreCounted /\ LwMutex!RetryIsAwakened /\ LwMutex!AwakeIsOnTime
    /\ ~retry => RedoSleeps
=============================================================================
