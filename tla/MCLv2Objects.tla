---------------------------- MODULE MCLv2Objects ----------------------------
(***************************************************************************)
(* The objects of the LV2 kernel that are used by themselves, one of them  *)
(* in each behaviour: a semaphore, a reader-writer lock, an event flag, an *)
(* event queue with its port, or timers.  kind says which; the variables   *)
(* of the others keep their initial values.                                *)
(*                                                                         *)
(* t1 is less urgent than t2 and t3.  Only t1 calls the timers.            *)
(***************************************************************************)
EXTENDS Lv2Semaphore, TLC

CONSTANTS t1, t2, t3, Bits, Requests, Sets, Keeps, MaxEvents, QueueSize,
          Timers, Periods, Asked, MaxTime, MaxTicks

ASSUME TimersAssumption ==
  Timers # {} /\ Periods \subseteq Nat /\ MaxTime \in Nat /\ MaxTicks \in Nat
ASSUME EventsAssumption == MaxEvents \in Nat /\ QueueSize \in Nat

VARIABLES
  kind,
  owner, rq, wq, held,                                        \* Lv2Rwlock
  pattern, single, req, bitptn, view, ok,                     \* Lv2EventFlag
  alive, events, pq, given, arg, port, busy, made, accepted, taken, \* Lv2Event
  clock, connected, run, expire, period, sends, first,        \* Lv2Timer
  calling, now, tpc, tnow, todo, cur, forever, poked

semaVars == <<val, seen, amount, left, credit>>
rwlockVars == <<owner, rq, wq, held>>
flagVars == <<pattern, single, req, bitptn, view, ok>>
queueVars == <<alive, events, pq, given, arg, port, busy, made, accepted, taken>>
timerVars == <<clock, connected, run, expire, period, sends, first,
               calling, now, tpc, tnow, todo, cur, forever, poked>>

Rwlock == INSTANCE Lv2Rwlock
Flag == INSTANCE Lv2EventFlag
Queue == INSTANCE Lv2Event
Timer == INSTANCE Lv2Timer WITH Threads <- {t1}, port <- connected, pc <- calling

ASSUME FlagsAssumption ==
  /\ Requests \in [Threads -> SUBSET Flag!Request]
  /\ Sets \in [Threads -> SUBSET SUBSET Bits]

MCThreads == {t1, t2, t3}
MCPrio == [t \in Threads |-> IF t = t1 THEN 2 ELSE 1]
MCSymmetry == Permutations({t2, t3})

Ask(b, a, c) == [bits |-> b, all |-> a, clear |-> c]
MCRequests ==
  [t \in Threads |->
     IF t = t1 THEN {Ask({1, 2}, FALSE, "none")}
     ELSE {Ask({1, 2}, TRUE, "bits"), Ask({1}, FALSE, "all")}]
MCSets == [t \in Threads |-> IF t = t1 THEN {{1}, {2}} ELSE {{1}}]
MCKeeps == [t \in Threads |-> IF t = t1 THEN {{1}} ELSE {}]

ObjectsInit ==
  /\ kind \in {"semaphore", "rwlock", "flag", "queue", "timer"}
  /\ Init /\ Rwlock!Init /\ Flag!Init /\ Queue!Init /\ Timer!Init
  /\ kind # "semaphore" => val = 0
  /\ kind # "flag" => pattern = {} /\ ~single
  /\ kind = "timer" => fifo /\ faults = CHOOSE f \in Faults : TRUE

ObjectsNext ==
  \/ /\ kind = "semaphore" /\ Next
     /\ UNCHANGED <<kind, rwlockVars, flagVars, queueVars, timerVars>>
  \/ /\ kind = "rwlock" /\ Rwlock!Next
     /\ UNCHANGED <<kind, semaVars, sq, flagVars, queueVars, timerVars>>
  \/ /\ kind = "flag" /\ Flag!Next
     /\ UNCHANGED <<kind, semaVars, rwlockVars, queueVars, timerVars>>
  \/ /\ kind = "queue" /\ Queue!Next
     /\ UNCHANGED <<kind, semaVars, sq, rwlockVars, flagVars, timerVars>>
  \/ /\ kind = "timer" /\ Timer!Next
     /\ UNCHANGED <<kind, vars, rwlockVars, flagVars, queueVars>>

ObjectsSpec ==
  ObjectsInit /\ [][ObjectsNext]_<<kind, vars, rwlockVars, flagVars, queueVars, timerVars>>

-----------------------------------------------------------------------------
(* The properties of the modules, each of its own kind of object *)

(***************************************************************************)
(* Semaphore: permits posted and not taken are in val or belong to a       *)
(* thread that is about to return from sys_semaphore_wait; a negative val  *)
(* counts the queue, nobody waits while a permit is available, and the two *)
(* ensures of wait and post hold.                                          *)
(***************************************************************************)
SemaCountsExactly ==
  kind = "semaphore" => TypeOK /\ PermitsConserved /\ QueueIsCounted /\ EnsuresHold

(***************************************************************************)
(* Reader-writer lock: who was told CELL_OK by wlock is alone, and the     *)
(* number of readers in owner is exact.                                    *)
(***************************************************************************)
RwlockExclusion ==
  kind = "rwlock" => Rwlock!TypeOK /\ Rwlock!WriterIsAlone /\ Rwlock!ReadersAreCounted

(***************************************************************************)
(* Reader-writer lock: while anybody is queued the lock is held and its    *)
(* bit is set, so that the holder looks at the queues; no reader waits     *)
(* behind readers alone, also after the last queued writer has timed out.  *)
(***************************************************************************)
RwlockNobodyStranded ==
  kind = "rwlock" => Rwlock!QueuedIsAnnounced /\ Rwlock!ReadersWaitForWriter

(***************************************************************************)
(* Event flag: a set has the result of processing all waiters in one       *)
(* atomic operation, although the bits change while it works on a copy of  *)
(* them, as long as no waiter has a result left over from a round that     *)
(* could not be committed.  (With such results it has not, see             *)
(* MCEventFlagSet.)                                                        *)
(***************************************************************************)
FlagSetIsAtomic ==
  [][kind = "flag" => Flag!CleanRoundIsAtomic]_<<kind, vars, rwlockVars, flagVars, queueVars, timerVars>>

(***************************************************************************)
(* Event flag: nobody sleeps in front of its bits.                         *)
(***************************************************************************)
FlagNobodyOverlooked == kind = "flag" => Flag!TypeOK /\ Flag!NobodyOverlooked

(***************************************************************************)
(* Event queue: an event that was reported as sent is not lost, and        *)
(* arrives once unless a savestate came between.                           *)
(***************************************************************************)
QueueNothingLost ==
  kind = "queue" => Queue!TypeOK /\ Queue!NothingLost /\ Queue!OnceWithoutSave

(***************************************************************************)
(* Who was taken off the list of a semaphore, a lock, a flag or a queue    *)
(* gets to know: it is signalled, will be, or looks on its way out. And    *)
(* awake comes while its thread is still in that call, not to one that has *)
(* returned or left for a savestate.                                       *)
(***************************************************************************)
ObjectWakeupsAreExact ==
  CASE kind = "semaphore" -> ServedIsSeen /\ AwakeIsOnTime
    [] kind = "rwlock" -> Rwlock!LetInIsSeen /\ Rwlock!AwakeIsOnTime
    [] kind = "flag" -> Flag!ServedIsSeen /\ Flag!AwakeIsOnTime
    [] kind = "queue" -> Queue!ServedIsSeen /\ Queue!AwakeIsOnTime
    [] kind = "timer" -> TRUE

(***************************************************************************)
(* Nothing is destroyed in use: no thread waits on a semaphore or a flag   *)
(* that is gone, and a port with senders inside stays connected unless its *)
(* queue is destroyed.                                                     *)
(***************************************************************************)
ObjectUsedExists ==
  CASE kind = "semaphore" -> DestroyedIsEmpty
    [] kind = "flag" -> Flag!DestroyedIsEmpty
    [] kind = "queue" -> Queue!PortOutlivesSend
    [] OTHER -> TRUE

(***************************************************************************)
(* Timers: the timer thread does not sleep without end while a timer runs, *)
(* one event is sent for each expiration, and the first expiration of a    *)
(* periodic timer is that of the loop in LV2 that the code replaces by a   *)
(* division.                                                               *)
(***************************************************************************)
TimerExpirations ==
  kind = "timer" =>
    Timer!TypeOK /\ Timer!RunningIsWatched /\ Timer!OneEventEach /\ Timer!StartFollowsLoop
=============================================================================
