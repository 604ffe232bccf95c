------------------------------ MODULE HostSema ------------------------------
(***************************************************************************)
(* The semaphore of the emulator itself (semaphore_base): a word with the  *)
(* available permits in its low half and the threads that wait in its high *)
(* half.  Threads change it without a lock and sleep on its value; post    *)
(* notifies somebody only if there are more waiters than permits.          *)
(*                                                                         *)
(* The program uses semaphores as locks: a thread posts what it has taken. *)
(* try_post is not used by the program and is left out.                    *)
(***************************************************************************)
EXTENDS Integers, FiniteSets

CONSTANTS
  Threads,    \* host threads
  Permits     \* Max: how many threads may be inside

VARIABLES
  word,      \* m_value, as [value, waiters]
  pc,        \* pc[t]: where thread t is
  old,       \* old[t]: the word that t has read
  waits,     \* waits[t]: t is counted in word.waiters
  inside     \* the threads that have a permit

vars == <<word, pc, old, waits, inside>>

Word == [value : 0..Permits + 1, waiters : 0..Cardinality(Threads)]
Zero == [value |-> 0, waiters |-> 0]

Init ==
  /\ word = [value |-> Permits, waiters |-> 0]
  /\ pc = [t \in Threads |-> "idle"]
  /\ old = [t \in Threads |-> Zero]
  /\ waits = [t \in Threads |-> FALSE]
  /\ inside = {}

-----------------------------------------------------------------------------
Goto(t, l, o) ==
  /\ pc' = [pc EXCEPT ![t] = l]
  /\ old' = [old EXCEPT ![t] = o]

\* A permit is taken: wait or try_wait returns.
Enter(t) ==
  /\ Goto(t, "idle", Zero)
  /\ waits' = [waits EXCEPT ![t] = FALSE]
  /\ inside' = inside \union {t}

\* wait, and each round of the spin loop: the word is loaded.
Wait(t) ==
  /\ pc[t] \in {"idle", "spin"} /\ t \notin inside
  /\ Goto(t, IF word.value = 0 THEN "spin" ELSE "cas", word)
  /\ UNCHANGED <<word, waits, inside>>

WaitCas(t) ==
  /\ pc[t] = "cas"
  /\ IF word = old[t]
     THEN word' = [word EXCEPT !.value = @ - 1] /\ Enter(t)
     ELSE Goto(t, "spin", Zero) /\ UNCHANGED <<word, waits, inside>>

\* The spin loop ends after some rounds.
SpinEnd(t) ==
  /\ pc[t] = "spin"
  /\ Goto(t, "op", Zero)
  /\ UNCHANGED <<word, waits, inside>>

\* Variant for mutation: a waiter that was awakened is counted once more.
WaitOpTwice(t) ==
  /\ pc[t] = "op"
  /\ IF word.value > 0
     THEN /\ word' = [value |-> word.value - 1,
                      waiters |-> word.waiters - IF waits[t] THEN 1 ELSE 0]
          /\ Enter(t)
     ELSE /\ word' = [word EXCEPT !.waiters = @ + 1]
          /\ Goto(t, "sleep", word')
          /\ waits' = [waits EXCEPT ![t] = TRUE]
          /\ UNCHANGED inside

\* "Try hard way": take a permit, or be counted as waiting.
WaitOp(t) ==
  /\ pc[t] = "op"
  /\ IF word.value > 0
     THEN /\ word' = [value |-> word.value - 1,
                      waiters |-> word.waiters - IF waits[t] THEN 1 ELSE 0]
          /\ Enter(t)
     ELSE /\ word' = [word EXCEPT !.waiters = @ + IF waits[t] THEN 0 ELSE 1]
          /\ Goto(t, "sleep", word')
          /\ waits' = [waits EXCEPT ![t] = TRUE]
          /\ UNCHANGED inside

\* m_value.wait: sleep unless the word has changed.
WaitSleep(t) ==
  /\ pc[t] = "sleep"
  /\ Goto(t, IF word = old[t] THEN "asleep" ELSE "op", Zero)
  /\ UNCHANGED <<word, waits, inside>>

TryWait(t) ==
  /\ pc[t] = "idle" /\ t \notin inside
  /\ word.value > 0
  /\ word' = [word EXCEPT !.value = @ - 1]
  /\ inside' = inside \union {t}
  /\ UNCHANGED <<pc, old, waits>>

\* post: an unconditional increment, then a look at what was there before.
Post(t) ==
  /\ pc[t] = "idle" /\ t \in inside
  /\ inside' = inside \ {t}
  /\ word' = [word EXCEPT !.value = @ + 1]
  /\ IF word.waiters > 0 \/ word.value >= Permits THEN Goto(t, "post", word)
     ELSE UNCHANGED <<pc, old>>
  /\ UNCHANGED waits

\* Variant for mutation: somebody is notified only if there was no permit.
PostNotifyFirst(t) ==
  /\ pc[t] = "post"
  /\ LET sleepers == {u \in Threads : pc[u] = "asleep"}
     IN IF old[t].waiters > 0 /\ old[t].value = 0 /\ sleepers # {}
        THEN \E u \in sleepers : pc' = [pc EXCEPT ![t] = "idle", ![u] = "op"]
        ELSE pc' = [pc EXCEPT ![t] = "idle"]
  /\ old' = [old EXCEPT ![t] = Zero]
  /\ UNCHANGED <<word, waits, inside>>

\* imp_post: one sleeper is notified if the permits before were too few.
PostNotify(t) ==
  /\ pc[t] = "post"
  /\ LET sleepers == {u \in Threads : pc[u] = "asleep"}
     IN IF old[t].waiters > old[t].value /\ sleepers # {}
        THEN \E u \in sleepers : pc' = [pc EXCEPT ![t] = "idle", ![u] = "op"]
        ELSE pc' = [pc EXCEPT ![t] = "idle"]
  /\ old' = [old EXCEPT ![t] = Zero]
  /\ UNCHANGED <<word, waits, inside>>

Next ==
  \E t \in Threads :
    \/ Wait(t) \/ WaitCas(t) \/ SpinEnd(t) \/ WaitOp(t) \/ WaitSleep(t)
    \/ TryWait(t) \/ Post(t) \/ PostNotify(t)

Spec == Init /\ [][Next]_vars

-----------------------------------------------------------------------------
(* Properties *)

TypeOK ==
  /\ word \in Word
  /\ pc \in [Threads -> {"idle", "cas", "spin", "op", "sleep", "asleep", "post"}]
  /\ old \in [Threads -> Word]
  /\ waits \in [Threads -> BOOLEAN]
  /\ inside \subseteq Threads

(***************************************************************************)
(* The word counts: permits that are not in the word are with a thread,    *)
(* and the waiters are those that have added themselves and not yet taken  *)
(* a permit.  A field never borrows from the other, and the "ensure" of    *)
(* post against overflow holds.                                            *)
(***************************************************************************)
WordCounts ==
  /\ word.value + Cardinality(inside) = Permits
  /\ word.waiters = Cardinality({t \in Threads : waits[t]})

\* Waiters that are awake and will look at the word, and posts that notify.
Takers ==
  Cardinality({t \in Threads : waits[t] /\ (pc[t] = "op" \/ (pc[t] = "sleep" /\ word # old[t]))})
  + Cardinality({t \in Threads : pc[t] = "post" /\ old[t].waiters > old[t].value})

(***************************************************************************)
(* No wake-up is lost although post notifies only when the waiters exceed  *)
(* the permits: every available permit has a waiter that is on its way to  *)
(* it, or a post that will notify one, or all waiters are on their way.    *)
(***************************************************************************)
PermitHasTaker == word.value <= Takers \/ word.waiters <= Takers
=============================================================================
