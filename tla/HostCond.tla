------------------------------ MODULE HostCond ------------------------------
(***************************************************************************)
(* The condition variable of the emulator itself (cond_variable): a word   *)
(* that counts waiters and signals, and on whose value the waiters sleep.  *)
(* It is modelled with the way it is used (the buffers of the UART, the    *)
(* state of the RSX audio): a consumer looks for data under a mutex and    *)
(* waits if there is none; a producer stores data under the mutex, unlocks *)
(* it, and then notifies all.                                              *)
(*                                                                         *)
(* notify_one is not used by the program and is left out.                  *)
(***************************************************************************)
EXTENDS Integers, FiniteSets

CONSTANTS
  Threads,      \* host threads, each of which consumes and produces
  NoThread,     \* nobody
  WaiterMax,    \* c_waiter_mask: the waiters that the word can count
  SignalMax,    \* the signals that the word can count
  MaxData       \* the size of the buffer

VARIABLES
  word,      \* m_value, as [waiters, signals]
  lock,      \* who holds the mutex of the user
  data,      \* items in the buffer
  pc,        \* pc[t]: where thread t is
  old        \* old[t]: the word that t waits on

vars == <<word, lock, data, pc, old>>

Word == [waiters : 0..WaiterMax, signals : 0..SignalMax]
Zero == [waiters |-> 0, signals |-> 0]

Init ==
  /\ word = Zero
  /\ lock = NoThread
  /\ data = 0
  /\ pc = [t \in Threads |-> "idle"]
  /\ old = [t \in Threads |-> Zero]

-----------------------------------------------------------------------------
(* Consumers: wait and wait_unlock *)

Goto(t, l) == pc' = [pc EXCEPT ![t] = l]

TakeLock(t, from, to) ==
  /\ pc[t] = from
  /\ lock = NoThread
  /\ lock' = t
  /\ Goto(t, to)
  /\ UNCHANGED <<word, data, old>>

\* The user's mutex is taken, and data if there is some.
Consume(t) == TakeLock(t, "idle", "look")

Look(t) ==
  /\ pc[t] = "look"
  /\ IF data > 0
     THEN data' = data - 1 /\ lock' = NoThread /\ Goto(t, "idle")
     ELSE Goto(t, "add") /\ UNCHANGED <<data, lock>>
  /\ UNCHANGED <<word, old>>

\* add_waiter: if a field is at its limit the call returns at once.
AddWaiter(t) ==
  /\ pc[t] = "add"
  /\ IF word.signals = SignalMax \/ word.waiters = WaiterMax
     THEN Goto(t, "leave") /\ UNCHANGED <<word, old>>
     ELSE /\ word' = [word EXCEPT !.waiters = @ + 1]
          /\ old' = [old EXCEPT ![t] = word']
          /\ Goto(t, "unlock")
  /\ UNCHANGED <<lock, data>>

Unlock(t) ==
  /\ pc[t] \in {"unlock", "leave"}
  /\ lock' = NoThread
  /\ Goto(t, IF pc[t] = "unlock" THEN "sleep" ELSE "idle")
  /\ UNCHANGED <<word, data, old>>

\* m_value.wait: sleep unless the word has changed.
Sleep(t) ==
  /\ pc[t] = "sleep"
  /\ Goto(t, IF word = old[t] THEN "asleep" ELSE "clean")
  /\ UNCHANGED <<word, lock, data, old>>

\* The timeout.
TimeOut(t) ==
  /\ pc[t] = "asleep"
  /\ Goto(t, "clean")
  /\ UNCHANGED <<word, lock, data, old>>

\* Variant for mutation: the word is cleaned with every waiter.
CleanUpAll(t) ==
  /\ pc[t] = "clean"
  /\ word' = Zero
  /\ old' = [old EXCEPT ![t] = Zero]
  /\ Goto(t, "idle")
  /\ UNCHANGED <<lock, data>>

\* "Last waiter removed, clean signals"
CleanUp(t) ==
  /\ pc[t] = "clean"
  /\ word' = IF word.waiters = 1 THEN Zero ELSE [word EXCEPT !.waiters = @ - 1]
  /\ old' = [old EXCEPT ![t] = Zero]
  /\ Goto(t, "idle")
  /\ UNCHANGED <<lock, data>>

-----------------------------------------------------------------------------
(* Producers: notify_all *)

Produce(t) == TakeLock(t, "idle", "store")

\* Nothing is stored if the buffer is full.
Store(t) ==
  /\ pc[t] = "store"
  /\ IF data < MaxData THEN data' = data + 1 /\ Goto(t, "test")
     ELSE Goto(t, "idle") /\ UNCHANGED data
  /\ lock' = NoThread
  /\ UNCHANGED <<word, old>>

\* Nobody is notified if the word is zero.
NotifyTest(t) ==
  /\ pc[t] = "test"
  /\ Goto(t, IF word = Zero THEN "idle" ELSE "signal")
  /\ UNCHANGED <<word, lock, data, old>>

\* Variant for mutation: the signal is counted only for the sleepers.
ImpWakeUncounted(t) ==
  /\ pc[t] = "signal"
  /\ Goto(t, IF word = Zero THEN "idle" ELSE "notify")
  /\ UNCHANGED <<word, lock, data, old>>

\* imp_wake: the signal is counted, unless there are too many.
ImpWake(t) ==
  /\ pc[t] = "signal"
  /\ IF word = Zero \/ word.signals = SignalMax
     THEN Goto(t, "idle") /\ UNCHANGED word
     ELSE word' = [word EXCEPT !.signals = @ + 1] /\ Goto(t, "notify")
  /\ UNCHANGED <<lock, data, old>>

NotifyAll(t) ==
  /\ pc[t] = "notify"
  /\ pc' = [u \in Threads |-> IF u = t THEN "idle"
                              ELSE IF pc[u] = "asleep" THEN "clean" ELSE pc[u]]
  /\ UNCHANGED <<word, lock, data, old>>

Next ==
  \E t \in Threads :
    \/ Consume(t) \/ Look(t) \/ AddWaiter(t) \/ Unlock(t) \/ Sleep(t) \/ TimeOut(t)
    \/ CleanUp(t) \/ Produce(t) \/ Store(t) \/ NotifyTest(t) \/ ImpWake(t) \/ NotifyAll(t)

Spec == Init /\ [][Next]_vars

-----------------------------------------------------------------------------
(* Properties *)

TypeOK ==
  /\ word \in Word
  /\ lock \in Threads \union {NoThread}
  /\ data \in 0..MaxData
  /\ pc \in [Threads -> {"idle", "look", "add", "unlock", "leave", "sleep", "asleep", "clean",
                         "store", "test", "signal", "notify"}]
  /\ old \in [Threads -> Word]

(***************************************************************************)
(* No wake-up is lost: a consumer that was there when data came does not   *)
(* sleep unless the producer is still about to notify, however the signals *)
(* are counted, cleaned up and cut off at their limit.                     *)
(***************************************************************************)
DataIsSeen ==
  data > 0 /\ lock = NoThread =>
    \/ \A t \in Threads : pc[t] # "asleep"
    \/ \E t \in Threads : pc[t] \in {"test", "signal", "notify"}

(***************************************************************************)
(* The waiters are counted: the word is zero, so that notify_all may       *)
(* return at once, only when nobody waits.                                 *)
(***************************************************************************)
WaitersCounted ==
  word.waiters = Cardinality({t \in Threads : pc[t] \in {"unlock", "sleep", "asleep", "clean"}})
=============================================================================
