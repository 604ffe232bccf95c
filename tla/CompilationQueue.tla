-------------------------- MODULE CompilationQueue --------------------------
(***************************************************************************)
(* The queue of PPU cache compilations of the Android bridge               *)
(* (CompilationQueue).  Installing threads push workloads; one thread      *)
(* compiles them.  It compares the number of pushes (nextWorkTag) with the *)
(* number of workloads it has done (lastProcessedTag), and sleeps on the   *)
(* first while they are equal.  push counts after it has put the workload  *)
(* into the queue, and does not notify: the sleeper wakes because the      *)
(* library's std::atomic::wait looks again from time to time.              *)
(*                                                                         *)
(* compile is one step: the emulator's state that it waits for, and        *)
(* prepare, which compiles without the queue, are left out.                *)
(***************************************************************************)
EXTENDS Integers, Sequences

CONSTANTS
  Pushers,    \* threads that push
  MaxWork     \* bound: workloads

VARIABLES
  queue,      \* queue: workloads, oldest first
  nextTag,    \* nextWorkTag
  lastTag,    \* lastProcessedTag
  pushed,     \* workloads pushed so far; a workload is its number
  tagging,    \* the pushers that have not counted their push yet
  tpc,        \* where the compiling thread is
  seenTag,    \* nextWorkTagValue
  work,       \* the workload in its hands, 0 if none
  done        \* the workloads that it has compiled, in order

queueVars == <<queue, nextTag, lastTag, pushed, tagging, tpc, seenTag, work, done>>

Init ==
  /\ queue = <<>>
  /\ nextTag = 0 /\ lastTag = 0
  /\ pushed = 0
  /\ tagging = {}
  /\ tpc = "load"
  /\ seenTag = 0
  /\ work = 0
  /\ done = <<>>

-----------------------------------------------------------------------------
(* push *)

Push(p) ==
  /\ p \notin tagging
  /\ pushed < MaxWork
  /\ pushed' = pushed + 1
  /\ queue' = Append(queue, pushed + 1)
  /\ tagging' = tagging \union {p}
  /\ UNCHANGED <<nextTag, lastTag, tpc, seenTag, work, done>>

PushTag(p) ==
  /\ p \in tagging
  /\ nextTag' = nextTag + 1
  /\ tagging' = tagging \ {p}
  /\ UNCHANGED <<queue, lastTag, pushed, tpc, seenTag, work, done>>

-----------------------------------------------------------------------------
(* process *)

Load ==
  /\ tpc = "load"
  /\ seenTag' = nextTag
  /\ tpc' = IF nextTag = lastTag THEN "wait" ELSE "test"
  /\ UNCHANGED <<queue, nextTag, lastTag, pushed, tagging, work, done>>

\* nextWorkTag.wait returns when the counter has changed.
WaitTag ==
  /\ tpc = "wait"
  /\ nextTag # lastTag
  /\ tpc' = "test"
  /\ UNCHANGED <<queue, nextTag, lastTag, pushed, tagging, seenTag, work, done>>

\* The old value counts, and the queue is looked at without its mutex.
Test ==
  /\ tpc = "test"
  /\ tpc' = IF seenTag = lastTag \/ queue = <<>> THEN "load" ELSE "pop"
  /\ UNCHANGED <<queue, nextTag, lastTag, pushed, tagging, seenTag, work, done>>

\* Variant for mutation: the newest workload is taken.
PopNewest ==
  /\ tpc = "pop"
  /\ queue # <<>>
  /\ work' = queue[Len(queue)]
  /\ queue' = SubSeq(queue, 1, Len(queue) - 1)
  /\ tpc' = "compile"
  /\ UNCHANGED <<nextTag, lastTag, pushed, tagging, seenTag, done>>

Pop ==
  /\ tpc = "pop"
  /\ IF queue = <<>> THEN tpc' = "load" /\ UNCHANGED <<queue, work>>
     ELSE work' = Head(queue) /\ queue' = Tail(queue) /\ tpc' = "compile"
  /\ UNCHANGED <<nextTag, lastTag, pushed, tagging, seenTag, done>>

\* Variant for mutation: all pushes that were seen count as done.
CompileSeen ==
  /\ tpc = "compile"
  /\ done' = Append(done, work)
  /\ work' = 0
  /\ lastTag' = seenTag
  /\ tpc' = "load"
  /\ UNCHANGED <<queue, nextTag, pushed, tagging, seenTag>>

Compile ==
  /\ tpc = "compile"
  /\ done' = Append(done, work)
  /\ work' = 0
  /\ lastTag' = lastTag + 1
  /\ tpc' = "load"
  /\ UNCHANGED <<queue, nextTag, pushed, tagging, seenTag>>

Process == Load \/ WaitTag \/ Test \/ Pop \/ Compile

Next == (\E p \in Pushers : Push(p) \/ PushTag(p)) \/ Process

\* The compiling thread runs, and a push that has begun goes on.
Fairness == WF_queueVars(Process) /\ \A p \in Pushers : WF_queueVars(PushTag(p))

Spec == Init /\ [][Next]_queueVars /\ Fairness

-----------------------------------------------------------------------------
(* Properties *)

TypeOK ==
  /\ queue \in Seq(1..MaxWork) /\ done \in Seq(1..MaxWork)
  /\ nextTag \in 0..MaxWork /\ lastTag \in 0..MaxWork /\ seenTag \in 0..MaxWork
  /\ pushed \in 0..MaxWork /\ work \in 0..MaxWork
  /\ tagging \subseteq Pushers
  /\ tpc \in {"load", "wait", "test", "pop", "compile"}

\* The workloads in the order in which they are or will be compiled.
Lined == done \o (IF work = 0 THEN <<>> ELSE <<work>>) \o queue

(***************************************************************************)
(* The workloads are compiled once each, in the order of the pushes, and   *)
(* the thread, which decides by the two counters whether there is work,    *)
(* never sleeps in front of a workload whose push is over.                 *)
(***************************************************************************)
NoneStranded ==
  /\ Lined = [i \in 1..pushed |-> i]
  /\ tpc = "wait" /\ tagging = {} /\ nextTag = lastTag => queue = <<>>

(***************************************************************************)
(* Every workload that is pushed is compiled in the end.                   *)
(***************************************************************************)
AllCompiled == \A n \in 1..MaxWork : (pushed >= n) ~> (Len(done) >= n)
=============================================================================
