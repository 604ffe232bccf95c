---------------------------- MODULE HandoffLock ----------------------------
(***************************************************************************)
(* What a kernel mutex promises: one owner, a queue of waiters, and an     *)
(* unlock that passes the mutex straight to a waiter, so that it is never  *)
(* free while anybody is queued.  A waiter may be overtaken only as the    *)
(* protocol allows.                                                        *)
(***************************************************************************)
EXTENDS Integers, Sequences, SequencesExt

CONSTANTS Threads, NoThread, Prio

VARIABLES
  fifo,    \* the protocol: first in, first out, or by priority
  owner,   \* who owns the mutex, or NoThread
  queue    \* the waiters, newest first

vars == <<fifo, owner, queue>>

Init ==
  /\ fifo \in BOOLEAN
  /\ owner = NoThread
  /\ queue = <<>>

Acquire(t) ==
  /\ owner = NoThread
  /\ owner' = t
  /\ UNCHANGED <<fifo, queue>>

Enqueue(t) ==
  /\ owner # NoThread
  /\ ~Contains(queue, t)
  /\ queue' = <<t>> \o queue
  /\ UNCHANGED <<fifo, owner>>

\* The waiter at i may be next: everybody who waits longer is less urgent.
MayBeNext(i) ==
  \A j \in (i + 1)..Len(queue) : ~fifo /\ Prio[queue[j]] > Prio[queue[i]]

PassOn ==
  /\ owner # NoThread
  /\ \E i \in 1..Len(queue) :
       /\ MayBeNext(i)
       /\ owner' = queue[i]
       /\ queue' = RemoveAt(queue, i)
  /\ UNCHANGED fifo

GiveUp(t) ==
  /\ \E i \in 1..Len(queue) : queue[i] = t /\ queue' = RemoveAt(queue, i)
  /\ UNCHANGED <<fifo, owner>>

Release ==
  /\ owner # NoThread
  /\ queue = <<>>
  /\ owner' = NoThread
  /\ UNCHANGED <<fifo, queue>>

Next ==
  \/ \E t \in Threads : Acquire(t) \/ Enqueue(t) \/ GiveUp(t)
  \/ PassOn \/ Release

Spec == Init /\ [][Next]_vars
=============================================================================
