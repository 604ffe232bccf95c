------------------------------- MODULE RWLock -------------------------------
(***************************************************************************)
(* What a reader/writer lock promises: any number of shared holders, or    *)
(* one exclusive holder.  Nothing is said about who is served first.       *)
(* The host shared_mutex (SharedMutex) is shown to implement it.           *)
(***************************************************************************)
CONSTANT Threads

VARIABLE hold   \* hold[t]: the mode in which thread t holds the lock

Modes == {"none", "shared", "excl"}

Init == hold = [t \in Threads |-> "none"]

Free(t) == \A u \in Threads \ {t} : hold[u] = "none"

NoWriter(t) == \A u \in Threads \ {t} : hold[u] # "excl"

AcquireShared(t) ==
  /\ hold[t] = "none"
  /\ NoWriter(t)
  /\ hold' = [hold EXCEPT ![t] = "shared"]

AcquireExcl(t) ==
  /\ hold[t] \in {"none", "shared"}    \* from "shared": an upgrade
  /\ Free(t)
  /\ hold' = [hold EXCEPT ![t] = "excl"]

Downgrade(t) ==
  /\ hold[t] = "excl"
  /\ hold' = [hold EXCEPT ![t] = "shared"]

Release(t) ==
  /\ hold[t] # "none"
  /\ hold' = [hold EXCEPT ![t] = "none"]

Next == \E t \in Threads :
          AcquireShared(t) \/ AcquireExcl(t) \/ Downgrade(t) \/ Release(t)

Spec == Init /\ [][Next]_hold

(***************************************************************************)
(* A thread that holds the lock exclusively is its only holder.            *)
(***************************************************************************)
Exclusion ==
  \A t, u \in Threads : t # u /\ hold[t] = "excl" => hold[u] = "none"
=============================================================================
