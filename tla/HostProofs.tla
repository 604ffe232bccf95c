----------------------------- MODULE HostProofs -----------------------------
(***************************************************************************)
(* Proofs about the host side of the emulator, for any number of threads,  *)
(* permits, callbacks and workloads: the callbacks of the Android bridge,  *)
(* the compilation queue, the list of games, cond_variable and             *)
(* semaphore_base, and the caches of the shortcut of the semaphores, which *)
(* all threads share.  Each part has an inductive invariant of its own;    *)
(* MCHost puts them side by side.                                          *)
(***************************************************************************)
EXTENDS MCHost, QueueLemmas

-----------------------------------------------------------------------------
(* MainThreadProcessor *)

\* A callback is queued at most once for each caller, who waits for it with
\* its flag not set; so does the caller whose callback the processor has.
CallsInv ==
  /\ Calls!TypeOK
  /\ \A i \in 1..Len(calls) : \A c \in calls[i] :
       /\ cpc[c] # "idle" /\ ~flag[c]
       /\ ppc \in {"call", "set"} => c \notin current
       /\ \A j \in 1..Len(calls) : c \in calls[j] => i = j
  /\ ppc \in {"call", "set"} => \A c \in current : cpc[c] # "idle" /\ ~flag[c]
  /\ ppc = "wait" /\ ~signalled => calls = <<>>

\* What a caller may push.
Pushed == {{}} \union {{c} : c \in Callers}

(***************************************************************************)
(* A callback is appended to the queue and the processor notified.         *)
(***************************************************************************)
LEMMA CallsPush ==
  ASSUME CallsInv, NEW s \in Pushed, Calls!Push(s),
         \A c \in s : cpc[c] = "idle" /\ cpc'[c] # "idle" /\ ~flag'[c],
         \A c \in Callers \ s : cpc'[c] = cpc[c] /\ flag'[c] = flag[c],
         cpc' \in [Callers -> {"idle", "test", "asleep", "awake"}],
         flag' \in [Callers -> BOOLEAN]
  PROVE  CallsInv'
<1>1. /\ calls \in Seq(Pushed) /\ Len(calls) \in Nat /\ made \in 0..MaxCalls
      /\ s \subseteq Callers /\ (\A i \in 1..Len(calls) : calls[i] \subseteq Callers)
      /\ current \subseteq Callers
  BY DEF CallsInv, Calls!TypeOK, Pushed
<1>2. /\ made' = made + 1 /\ made < MaxCalls /\ calls' = Append(calls, s)
      /\ ppc' = ppc /\ current' = current /\ signalled' = (signalled \/ ppc = "wait")
  BY DEF Calls!Push
<1>3. /\ calls' \in Seq(Pushed) /\ Len(calls') = Len(calls) + 1
      /\ calls'[Len(calls) + 1] = s
      /\ \A i \in 1..Len(calls) : calls'[i] = calls[i]
  BY <1>1, <1>2
<1>4. Calls!TypeOK'
  <2>1. made' \in 0..MaxCalls
    BY <1>1, <1>2, HostAssumption
  <2>2. signalled' \in BOOLEAN
    BY <1>2, Zenon DEF CallsInv, Calls!TypeOK
  <2>3. QED
    BY <1>1, <1>2, <1>3, <2>1, <2>2 DEF CallsInv, Calls!TypeOK, Pushed
<1>5. \A i \in 1..Len(calls) : \A c \in calls[i] : c \notin s
  BY DEF CallsInv
<1>6. ASSUME NEW i \in 1..Len(calls'), NEW c \in calls'[i]
      PROVE  /\ cpc'[c] # "idle" /\ ~flag'[c]
             /\ ppc' \in {"call", "set"} => c \notin current'
             /\ \A j \in 1..Len(calls') : c \in calls'[j] => i = j
  <2>1. CASE i = Len(calls) + 1
    <3>1. c \in s
      BY <1>3, <1>6, <2>1
    <3>2. \A j \in 1..Len(calls) : c \notin calls'[j]
      BY <1>3, <1>5, <3>1
    <3>3. QED
      BY <1>1, <1>2, <1>3, <2>1, <3>1, <3>2 DEF CallsInv
  <2>2. CASE i \in 1..Len(calls)
    <3>1. c \in calls[i] /\ c \in Callers \ s
      BY <1>1, <1>3, <1>5, <1>6, <2>2
    <3>2. \A j \in 1..Len(calls') : c \in calls'[j] => j \in 1..Len(calls) /\ c \in calls[j]
      BY <1>1, <1>3, <3>1
    <3>3. QED
      BY <1>2, <2>2, <3>1, <3>2 DEF CallsInv
  <2>3. QED
    BY <1>1, <1>3, <1>6, <2>1, <2>2
<1>7. ppc' \in {"call", "set"} => \A c \in current' : cpc'[c] # "idle" /\ ~flag'[c]
  BY <1>1, <1>2 DEF CallsInv
<1>8. ppc' = "wait" /\ ~signalled' => calls' = <<>>
  BY <1>2
<1>9. QED
  BY <1>4, <1>6, <1>7, <1>8 DEF CallsInv

(***************************************************************************)
(* The callers: invokeAsync and invokeSync.                                *)
(***************************************************************************)
LEMMA CallersInv ==
  ASSUME CallsInv, Calls!InvokeAsync \/ \E c \in Callers :
           Calls!InvokeSync(c) \/ Calls!SyncTest(c) \/ Calls!SyncWake(c)
  PROVE  CallsInv'
<1>1. /\ cpc \in [Callers -> {"idle", "test", "asleep", "awake"}]
      /\ flag \in [Callers -> BOOLEAN]
  BY DEF CallsInv, Calls!TypeOK
<1>2. ASSUME Calls!InvokeAsync PROVE CallsInv'
  <2>1. PICK s \in Pushed : s = {}
    BY DEF Pushed
  <2>2. Calls!Push(s) /\ cpc' = cpc /\ flag' = flag
    BY <1>2, <2>1 DEF Calls!InvokeAsync
  <2>3. QED
    BY <1>1, <2>1, <2>2, CallsPush
<1>3. ASSUME NEW d \in Callers, Calls!InvokeSync(d) PROVE CallsInv'
  <2>1. PICK s \in Pushed : s = {d}
    BY DEF Pushed
  <2>2. /\ Calls!Push(s) /\ cpc[d] = "idle"
        /\ cpc' = [cpc EXCEPT ![d] = "test"] /\ flag' = [flag EXCEPT ![d] = FALSE]
    BY <1>3, <2>1 DEF Calls!InvokeSync
  <2>3. /\ cpc' \in [Callers -> {"idle", "test", "asleep", "awake"}] /\ flag' \in [Callers -> BOOLEAN]
        /\ cpc'[d] = "test" /\ ~flag'[d]
        /\ \A c \in Callers \ s : cpc'[c] = cpc[c] /\ flag'[c] = flag[c]
    BY <1>1, <2>1, <2>2
  <2>4. QED
    BY <2>1, <2>2, <2>3, CallsPush
<1>4. ASSUME NEW d \in Callers, Calls!SyncTest(d) \/ Calls!SyncWake(d) PROVE CallsInv'
  <2>1. /\ cpc' \in [Callers -> {"idle", "test", "asleep", "awake"}]
        /\ \A c \in Callers \ {d} : cpc'[c] = cpc[c]
        /\ cpc'[d] = "idle" => flag[d]
        /\ UNCHANGED <<calls, made, flag, ppc, signalled, current>>
    BY <1>1, <1>4 DEF Calls!SyncTest, Calls!SyncWake
  <2>2. \A i \in 1..Len(calls) : calls[i] \subseteq Callers
    BY DEF CallsInv, Calls!TypeOK
  <2>3. current \subseteq Callers
    BY DEF CallsInv, Calls!TypeOK
  <2>4. Calls!TypeOK'
    BY <2>1 DEF CallsInv, Calls!TypeOK
  <2>5. QED
    BY <2>1, <2>2, <2>3, <2>4 DEF CallsInv
<1>5. QED
  BY <1>2, <1>3, <1>4

(***************************************************************************)
(* The processor takes the oldest callback.                                *)
(***************************************************************************)
LEMMA CallsLookInv ==
  ASSUME CallsInv, Calls!ProcessLook
  PROVE  CallsInv'
<1>1. /\ calls \in Seq(Pushed) /\ Len(calls) \in Nat /\ ppc = "look"
      /\ UNCHANGED <<made, cpc, flag, signalled>>
  BY DEF CallsInv, Calls!TypeOK, Pushed, Calls!ProcessLook
<1>2. CASE calls = <<>>
  BY <1>1, <1>2 DEF CallsInv, Calls!TypeOK, Calls!ProcessLook
<1>3. CASE calls # <<>>
  <2>1. ppc' = "call" /\ current' = Head(calls) /\ calls' = Tail(calls)
    BY <1>3 DEF Calls!ProcessLook
  <2>2. /\ Len(calls) >= 1 /\ current' = calls[1] /\ calls' \in Seq(Pushed)
        /\ Len(calls') = Len(calls) - 1
        /\ \A i \in 1..Len(calls') : calls'[i] = calls[i + 1]
    BY <1>1, <1>3, <2>1
  <2>3. current' \subseteq Callers
    BY <1>1, <2>2 DEF Pushed
  <2>4. Calls!TypeOK'
    BY <1>1, <2>1, <2>2, <2>3 DEF CallsInv, Calls!TypeOK, Pushed
  <2>5. ASSUME NEW i \in 1..Len(calls'), NEW c \in calls'[i]
        PROVE  /\ cpc'[c] # "idle" /\ ~flag'[c] /\ c \notin current'
               /\ \A j \in 1..Len(calls') : c \in calls'[j] => i = j
    <3>1. i + 1 \in 1..Len(calls) /\ c \in calls[i + 1] /\ 1 \in 1..Len(calls) /\ i + 1 # 1
      BY <1>1, <2>2, <2>5
    <3>2. \A j \in 1..Len(calls) : c \in calls[j] => i + 1 = j
      BY <3>1 DEF CallsInv
    <3>3. cpc[c] # "idle" /\ ~flag[c]
      BY <3>1 DEF CallsInv
    <3>4. c \notin current'
      BY <2>2, <3>1, <3>2
    <3>5. \A j \in 1..Len(calls') : c \in calls'[j] => i = j
      <4>1. SUFFICES ASSUME NEW j \in 1..Len(calls'), c \in calls'[j] PROVE i = j
        OBVIOUS
      <4>2. j + 1 \in 1..Len(calls) /\ c \in calls[j + 1]
        BY <1>1, <2>2, <4>1
      <4>3. i + 1 = j + 1
        BY <3>2, <4>2
      <4>4. QED
        BY <1>1, <2>2, <4>3
    <3>6. QED
      BY <1>1, <3>3, <3>4, <3>5
  <2>6. \A c \in current' : cpc'[c] # "idle" /\ ~flag'[c]
    BY <1>1, <2>2 DEF CallsInv
  <2>7. \A i \in 1..Len(calls') : \A c \in calls'[i] :
          /\ cpc'[c] # "idle" /\ ~flag'[c] /\ c \notin current'
          /\ \A j \in 1..Len(calls') : c \in calls'[j] => i = j
    BY <2>5
  <2>8. ~(ppc' = "wait")
    BY <2>1
  <2>9. QED
    BY <2>4, <2>6, <2>7, <2>8 DEF CallsInv
<1>4. QED
  BY <1>2, <1>3

(***************************************************************************)
(* The other steps of the processor.                                       *)
(***************************************************************************)
LEMMA CallsProcessInv ==
  ASSUME CallsInv,
         Calls!ProcessWake \/ Calls!ProcessCall \/ Calls!ProcessSet \/ Calls!ProcessNotify
  PROVE  CallsInv'
<1>1. /\ current \subseteq Callers /\ (\A i \in 1..Len(calls) : calls[i] \subseteq Callers)
      /\ cpc \in [Callers -> {"idle", "test", "asleep", "awake"}]
      /\ flag \in [Callers -> BOOLEAN]
  BY DEF CallsInv, Calls!TypeOK
<1>2. ASSUME Calls!ProcessWake \/ Calls!ProcessCall PROVE CallsInv'
  <2>1. Calls!TypeOK'
    BY <1>2 DEF CallsInv, Calls!TypeOK, Calls!ProcessWake, Calls!ProcessCall
  <2>2. QED
    BY <1>1, <1>2, <2>1 DEF CallsInv, Calls!ProcessWake, Calls!ProcessCall
<1>3. ASSUME Calls!ProcessSet PROVE CallsInv'
  <2>1. /\ ppc = "set" /\ ppc' = "notify" /\ flag' \in [Callers -> BOOLEAN]
        /\ \A c \in Callers \ current : flag'[c] = flag[c]
        /\ UNCHANGED <<calls, made, cpc, signalled, current>>
    BY <1>1, <1>3 DEF Calls!ProcessSet
  <2>2. Calls!TypeOK'
    BY <2>1 DEF CallsInv, Calls!TypeOK
  <2>3. QED
    BY <1>1, <2>1, <2>2 DEF CallsInv
<1>4. ASSUME Calls!ProcessNotify PROVE CallsInv'
  <2>1. /\ ppc' = "look" /\ cpc' \in [Callers -> {"idle", "test", "asleep", "awake"}]
        /\ \A c \in Callers : cpc[c] # "idle" => cpc'[c] # "idle"
        /\ current' = {} /\ UNCHANGED <<calls, made, flag, signalled>>
    BY <1>1, <1>4 DEF Calls!ProcessNotify
  <2>2. Calls!TypeOK'
    BY <2>1 DEF CallsInv, Calls!TypeOK
  <2>3. QED
    BY <1>1, <2>1, <2>2 DEF CallsInv
<1>5. QED
  BY <1>2, <1>3, <1>4

(***************************************************************************)
(* The callbacks satisfy their invariant initially.                        *)
(***************************************************************************)
LEMMA CallsInit ==
  ASSUME Calls!Init
  PROVE  CallsInv
<1>1. /\ calls = <<>> /\ made = 0 /\ cpc = [c \in Callers |-> "idle"]
      /\ flag = [c \in Callers |-> FALSE] /\ ppc = "look" /\ signalled = FALSE /\ current = {}
  BY DEF Calls!Init
<1>2. Calls!TypeOK
  <2>1. made \in 0..MaxCalls
    BY <1>1, HostAssumption
  <2>2. calls \in Seq(Pushed)
    BY <1>1
  <2>3. QED
    BY <1>1, <2>1, <2>2 DEF Calls!TypeOK, Pushed
<1>3. QED
  BY <1>1, <1>2 DEF CallsInv

(***************************************************************************)
(* No callback of a caller that has returned waits.                        *)
(***************************************************************************)
LEMMA CallsSync ==
  ASSUME CallsInv
  PROVE  Calls!SyncIsSync
<1>1. ASSUME NEW c \in Calls!Waiting PROVE cpc[c] # "idle"
  <2>1. \/ \E i \in 1..Len(calls) : c \in calls[i]
        \/ ppc = "call" /\ c \in current
    BY <1>1 DEF Calls!Waiting
  <2>2. QED
    BY <2>1 DEF CallsInv
<1>2. QED
  BY <1>1 DEF Calls!SyncIsSync, CallsInv

-----------------------------------------------------------------------------
(* CompilationQueue *)

\* The number of workloads in the hands of the compiling thread.
InHand == IF work = 0 THEN 0 ELSE 1

\* The workloads are numbered in the order of the pushes; what was compiled,
\* what is in hand and what is queued follow each other.  nextWorkTag lacks
\* the pushes that have not counted themselves, lastProcessedTag counts what
\* was compiled.
CompileInv ==
  /\ nextTag \in Nat /\ lastTag \in Nat /\ seenTag \in Nat
  /\ pushed \in 0..MaxWork /\ work \in 0..MaxWork
  /\ tagging \subseteq Pushers /\ IsFiniteSet(tagging)
  /\ tpc \in {"load", "wait", "test", "pop", "compile"}
  /\ queue \in Seq(1..MaxWork) /\ done \in Seq(1..MaxWork)
  /\ pushed = Len(done) + InHand + Len(queue)
  /\ \A i \in 1..Len(done) : done[i] = i
  /\ \A i \in 1..Len(queue) : queue[i] = Len(done) + InHand + i
  /\ work = IF tpc = "compile" THEN Len(done) + 1 ELSE 0
  /\ nextTag + Cardinality(tagging) = pushed
  /\ lastTag = Len(done)
  /\ seenTag <= nextTag

(***************************************************************************)
(* A workload is pushed, and later counted.                                *)
(***************************************************************************)
LEMMA CompilePushInv ==
  ASSUME CompileInv, NEW p \in Pushers, Compile!Push(p) \/ Compile!PushTag(p)
  PROVE  CompileInv'
<1>1. /\ Cardinality(tagging) \in Nat /\ IsFiniteSet(tagging) /\ MaxWork \in Nat
      /\ pushed \in Nat /\ Len(queue) \in Nat /\ Len(done) \in Nat /\ InHand \in Nat
      /\ queue \in Seq(1..MaxWork)
  BY FS_CardinalityType, HostAssumption DEF CompileInv, InHand
<1>2. ASSUME Compile!Push(p) PROVE CompileInv'
  <2>1. /\ pushed' = pushed + 1 /\ pushed < MaxWork /\ queue' = Append(queue, pushed + 1)
        /\ tagging' = tagging \union {p} /\ p \notin tagging
        /\ UNCHANGED <<nextTag, lastTag, tpc, seenTag, work, done>>
    BY <1>2 DEF Compile!Push
  <2>2. /\ IsFiniteSet(tagging') /\ Cardinality(tagging') = Cardinality(tagging) + 1
    BY <1>1, <2>1, FS_AddElement
  <2>3. pushed + 1 \in 1..MaxWork /\ pushed' \in 0..MaxWork
    BY <1>1, <2>1
  <2>4. /\ queue' \in Seq(1..MaxWork) /\ Len(queue') = Len(queue) + 1
        /\ queue'[Len(queue) + 1] = pushed + 1
        /\ \A i \in 1..Len(queue) : queue'[i] = queue[i]
    BY <1>1, <2>1, <2>3
  <2>5. InHand' = InHand
    BY <2>1 DEF InHand
  <2>6. \A i \in 1..Len(queue') : queue'[i] = Len(done') + InHand' + i
    <3>1. pushed = Len(done) + InHand + Len(queue)
      BY DEF CompileInv
    <3>2. \A i \in 1..Len(queue) : queue[i] = Len(done) + InHand + i
      BY DEF CompileInv
    <3>3. SUFFICES ASSUME NEW i \in 1..Len(queue') PROVE queue'[i] = Len(done) + InHand + i
      BY <2>1, <2>5
    <3>4. CASE i = Len(queue) + 1
      BY <1>1, <2>4, <3>1, <3>4
    <3>5. CASE i \in 1..Len(queue)
      BY <2>4, <3>2, <3>5
    <3>6. QED
      BY <1>1, <2>4, <3>3, <3>4, <3>5
  <2>7. pushed' = Len(done') + InHand' + Len(queue')
    BY <1>1, <2>1, <2>4, <2>5 DEF CompileInv
  <2>8. nextTag' + Cardinality(tagging') = pushed'
    <3>1. nextTag \in Nat /\ nextTag + Cardinality(tagging) = pushed
      BY DEF CompileInv
    <3>2. nextTag + (Cardinality(tagging) + 1) = pushed + 1
      <4>1. \A a, b, c \in Nat : a + b = c => a + (b + 1) = c + 1
        OBVIOUS
      <4>2. Cardinality(tagging) \in Nat /\ pushed \in Nat
        BY <1>1
      <4>3. QED
        BY <3>1, <4>1, <4>2
    <3>3. QED
      BY <2>1, <2>2, <3>2
  <2>9. QED
    BY <2>1, <2>2, <2>3, <2>4, <2>6, <2>7, <2>8 DEF CompileInv
<1>3. ASSUME Compile!PushTag(p) PROVE CompileInv'
  <2>1. /\ nextTag' = nextTag + 1 /\ tagging' = tagging \ {p} /\ p \in tagging
        /\ UNCHANGED <<queue, lastTag, pushed, tpc, seenTag, work, done>>
    BY <1>3 DEF Compile!PushTag
  <2>2. /\ IsFiniteSet(tagging') /\ Cardinality(tagging') = Cardinality(tagging) - 1
    BY <1>1, <2>1, FS_RemoveElement
  <2>3. nextTag' \in Nat /\ seenTag <= nextTag' /\ nextTag' + Cardinality(tagging') = pushed
    BY <1>1, <2>1, <2>2 DEF CompileInv
  <2>4. InHand' = InHand
    BY <2>1 DEF InHand
  <2>5. QED
    BY <2>1, <2>2, <2>3, <2>4 DEF CompileInv
<1>4. QED
  BY <1>2, <1>3

(***************************************************************************)
(* The compiling thread compares the counters and looks at the queue.      *)
(***************************************************************************)
LEMMA CompileWaitInv ==
  ASSUME CompileInv, Compile!Load \/ Compile!WaitTag \/ Compile!Test
  PROVE  CompileInv'
<1>1. /\ tpc # "compile" /\ tpc' \in {"load", "wait", "test", "pop"}
      /\ seenTag' \in {seenTag, nextTag}
      /\ UNCHANGED <<queue, nextTag, lastTag, pushed, tagging, work, done>>
  BY DEF Compile!Load, Compile!WaitTag, Compile!Test
<1>2. InHand' = InHand
  BY <1>1 DEF InHand
<1>3. seenTag' \in Nat /\ seenTag' <= nextTag'
  BY <1>1 DEF CompileInv
<1>4. work' = IF tpc' = "compile" THEN Len(done') + 1 ELSE 0
  BY <1>1 DEF CompileInv
<1>5. QED
  BY <1>1, <1>2, <1>3, <1>4 DEF CompileInv

(***************************************************************************)
(* The oldest workload is taken.                                           *)
(***************************************************************************)
LEMMA CompilePopInv ==
  ASSUME CompileInv, Compile!Pop
  PROVE  CompileInv'
<1>1. /\ tpc = "pop" /\ UNCHANGED <<nextTag, lastTag, pushed, tagging, seenTag, done>>
      /\ work = 0 /\ InHand = 0 /\ queue \in Seq(1..MaxWork) /\ Len(done) \in Nat
      /\ Len(queue) \in Nat /\ MaxWork \in Nat
  BY HostAssumption DEF CompileInv, Compile!Pop, InHand
<1>2. CASE queue = <<>>
  <2>1. tpc' = "load" /\ UNCHANGED <<queue, work>>
    BY <1>2 DEF Compile!Pop
  <2>2. InHand' = 0
    BY <1>1, <2>1 DEF InHand
  <2>3. QED
    BY <1>1, <2>1, <2>2 DEF CompileInv
<1>3. CASE queue # <<>>
  <2>1. work' = Head(queue) /\ queue' = Tail(queue) /\ tpc' = "compile"
    BY <1>3 DEF Compile!Pop
  <2>2. /\ Len(queue) >= 1 /\ work' = queue[1] /\ queue' \in Seq(1..MaxWork)
        /\ Len(queue') = Len(queue) - 1
        /\ \A i \in 1..Len(queue') : queue'[i] = queue[i + 1] /\ i + 1 \in 1..Len(queue)
    BY <1>1, <1>3, <2>1
  <2>3. \A i \in 1..Len(queue) : queue[i] = Len(done) + i
    BY <1>1 DEF CompileInv
  <2>4. work' = Len(done) + 1 /\ work' \in 0..MaxWork
    BY <1>1, <2>2, <2>3
  <2>5. InHand' = 1
    BY <1>1, <2>4 DEF InHand
  <2>6. \A i \in 1..Len(queue') : queue'[i] = Len(done') + InHand' + i
    BY <1>1, <2>2, <2>3, <2>5
  <2>7. pushed' = Len(done') + InHand' + Len(queue')
    BY <1>1, <2>2, <2>5 DEF CompileInv
  <2>8. QED
    BY <1>1, <2>1, <2>2, <2>4, <2>6, <2>7 DEF CompileInv
<1>4. QED
  BY <1>2, <1>3

(***************************************************************************)
(* The workload in hand is compiled.                                       *)
(***************************************************************************)
LEMMA CompileCompileInv ==
  ASSUME CompileInv, Compile!Compile
  PROVE  CompileInv'
<1>1. /\ tpc = "compile" /\ done' = Append(done, work) /\ work' = 0 /\ lastTag' = lastTag + 1
      /\ tpc' = "load" /\ UNCHANGED <<queue, nextTag, pushed, tagging, seenTag>>
      /\ Len(done) \in Nat /\ Len(queue) \in Nat /\ MaxWork \in Nat
  BY HostAssumption DEF CompileInv, Compile!Compile
<1>2. work = Len(done) + 1 /\ work \in 1..MaxWork /\ done \in Seq(1..MaxWork)
  BY <1>1 DEF CompileInv
<1>3. InHand = 1 /\ InHand' = 0
  BY <1>1, <1>2 DEF InHand
<1>4. /\ done' \in Seq(1..MaxWork) /\ Len(done') = Len(done) + 1
      /\ done'[Len(done) + 1] = Len(done) + 1
      /\ \A i \in 1..Len(done) : done'[i] = done[i]
  BY <1>1, <1>2
<1>5. \A i \in 1..Len(done') : done'[i] = i
  <2>1. SUFFICES ASSUME NEW i \in 1..Len(done') PROVE done'[i] = i
    OBVIOUS
  <2>2. i \in 1..Len(done) \/ i = Len(done) + 1
    BY <1>1, <1>4, <2>1
  <2>3. QED
    BY <1>4, <2>2 DEF CompileInv
<1>6. \A i \in 1..Len(queue) : queue[i] = Len(done') + InHand' + i
  BY <1>1, <1>3, <1>4 DEF CompileInv
<1>7. pushed = Len(done') + InHand' + Len(queue) /\ lastTag' = Len(done')
  BY <1>1, <1>3, <1>4 DEF CompileInv
<1>8. lastTag' \in Nat /\ work' \in 0..MaxWork
  BY <1>1 DEF CompileInv
<1>9. QED
  BY <1>1, <1>4, <1>5, <1>6, <1>7, <1>8 DEF CompileInv

(***************************************************************************)
(* The queue satisfies its invariant initially.                            *)
(***************************************************************************)
LEMMA CompileInit ==
  ASSUME Compile!Init
  PROVE  CompileInv
<1>1. /\ queue = <<>> /\ nextTag = 0 /\ lastTag = 0 /\ pushed = 0 /\ tagging = {} /\ tpc = "load"
      /\ seenTag = 0 /\ work = 0 /\ done = <<>>
  BY DEF Compile!Init
<1>2. IsFiniteSet(tagging) /\ Cardinality(tagging) = 0
  BY <1>1, FS_EmptySet
<1>3. InHand = 0 /\ Len(done) = 0 /\ Len(queue) = 0
  BY <1>1 DEF InHand
<1>4. pushed \in 0..MaxWork /\ work \in 0..MaxWork
  BY <1>1, HostAssumption
<1>5. queue \in Seq(1..MaxWork) /\ done \in Seq(1..MaxWork)
  BY <1>1
<1>6. QED
  BY <1>1, <1>2, <1>3, <1>4, <1>5 DEF CompileInv

(***************************************************************************)
(* The workloads are compiled in order, and none is left behind.           *)
(***************************************************************************)
LEMMA CompileNone ==
  ASSUME CompileInv
  PROVE  Compile!TypeOK /\ Compile!NoneStranded
<1>1. /\ queue \in Seq(1..MaxWork) /\ done \in Seq(1..MaxWork) /\ Len(queue) \in Nat
      /\ Len(done) \in Nat /\ pushed \in Nat /\ MaxWork \in Nat /\ pushed <= MaxWork
      /\ Cardinality(tagging) \in Nat /\ nextTag \in Nat /\ InHand \in Nat
      /\ pushed = Len(done) + InHand + Len(queue)
      /\ nextTag + Cardinality(tagging) = pushed
  BY FS_CardinalityType, HostAssumption DEF CompileInv, InHand
<1>2. nextTag \in 0..MaxWork /\ lastTag \in 0..MaxWork /\ seenTag \in 0..MaxWork
  BY <1>1 DEF CompileInv
<1>3. Compile!TypeOK
  BY <1>2 DEF Compile!TypeOK, CompileInv
<1>4. Compile!Lined = [i \in 1..pushed |-> i]
  <2> DEFINE hand == IF work = 0 THEN <<>> ELSE <<work>>
  <2>1. /\ hand \in Seq(0..MaxWork) /\ Len(hand) = InHand
        /\ work # 0 => hand[1] = work /\ work = Len(done) + 1
    <3>1. work \in 0..MaxWork /\ (work # 0 => work = Len(done) + 1)
      BY DEF CompileInv
    <3>2. CASE work = 0
      BY <3>2 DEF InHand
    <3>3. CASE work # 0
      <4>1. hand = <<work>> /\ InHand = 1
        BY <3>3 DEF InHand
      <4>2. <<work>> \in Seq(0..MaxWork) /\ Len(<<work>>) = 1 /\ <<work>>[1] = work
        BY <3>1
      <4>3. QED
        BY <3>1, <4>1, <4>2
    <3>4. QED
      BY <3>2, <3>3
  <2> HIDE DEF hand
  <2>2. done \in Seq(0..MaxWork) /\ queue \in Seq(0..MaxWork)
    BY <1>1
  <2>3. PICK a \in Seq(0..MaxWork) : a = done \o hand
    BY <2>1, <2>2, ConcatProperties
  <2>4. /\ Len(a) = Len(done) + InHand
        /\ \A i \in 1..Len(a) : a[i] = IF i <= Len(done) THEN done[i] ELSE hand[i - Len(done)]
    <3>1. Len(done \o hand) = Len(done) + Len(hand)
      BY <2>1, <2>2, ConcatProperties
    <3>2. \A i \in 1..Len(done) + Len(hand) :
            (done \o hand)[i] = IF i <= Len(done) THEN done[i] ELSE hand[i - Len(done)]
      BY <2>1, <2>2, ConcatProperties
    <3>3. QED
      BY <2>1, <2>3, <3>1, <3>2
  <2>5. \A i \in 1..Len(a) : a[i] = i
    <3>1. SUFFICES ASSUME NEW i \in 1..Len(a) PROVE a[i] = i
      OBVIOUS
    <3>2. CASE i <= Len(done)
      BY <1>1, <2>4, <3>2 DEF CompileInv
    <3>3. CASE ~(i <= Len(done))
      <4>1. InHand = 1 /\ i = Len(done) + 1 /\ work # 0
        BY <1>1, <2>4, <3>3 DEF InHand
      <4>2. QED
        BY <1>1, <2>1, <2>4, <3>3, <4>1
    <3>4. QED
      BY <3>2, <3>3
  <2>6. PICK b \in Seq(0..MaxWork) : b = a \o queue
    BY <2>2, <2>3, ConcatProperties
  <2>7. /\ Len(b) = pushed
        /\ \A i \in 1..Len(b) : b[i] = IF i <= Len(a) THEN a[i] ELSE queue[i - Len(a)]
    <3>1. Len(a \o queue) = Len(a) + Len(queue)
      BY <2>2, <2>3, ConcatProperties
    <3>2. \A i \in 1..Len(a) + Len(queue) :
            (a \o queue)[i] = IF i <= Len(a) THEN a[i] ELSE queue[i - Len(a)]
      BY <2>2, <2>3, ConcatProperties
    <3>3. Len(a) + Len(queue) = pushed
      BY <1>1, <2>4
    <3>4. QED
      BY <2>6, <3>1, <3>2, <3>3
  <2>8. \A i \in 1..pushed : b[i] = i
    <3>1. SUFFICES ASSUME NEW i \in 1..pushed PROVE b[i] = i
      OBVIOUS
    <3>2. CASE i <= Len(a)
      BY <2>4, <2>5, <2>7, <3>2
    <3>3. CASE ~(i <= Len(a))
      <4>1. i - Len(a) \in 1..Len(queue) /\ Len(a) \in Nat
        BY <1>1, <2>4, <3>3
      <4>2. queue[i - Len(a)] = Len(a) + (i - Len(a))
        BY <1>1, <2>4, <4>1 DEF CompileInv
      <4>3. QED
        BY <2>7, <3>3, <4>1, <4>2
    <3>4. QED
      BY <3>2, <3>3
  <2>9. b = [i \in 1..pushed |-> i]
    <3> DEFINE f == [i \in 1..pushed |-> i]
    <3>1. /\ f \in [1..pushed -> 0..MaxWork] /\ pushed \in Nat
      BY <1>1
    <3>2. f \in Seq(0..MaxWork) /\ Len(f) = pushed
      BY <3>1
    <3>3. QED
      BY <2>6, <2>7, <2>8, <3>2, SeqEqual
  <2>10. Compile!Lined = b
    BY <2>3, <2>6 DEF Compile!Lined, hand
  <2>11. QED
    BY <2>9, <2>10
<1>5. ASSUME tpc = "wait", tagging = {}, nextTag = lastTag PROVE queue = <<>>
  <2>1. Cardinality(tagging) = 0 /\ lastTag = Len(done)
    BY <1>5, FS_EmptySet DEF CompileInv
  <2>2. Len(queue) = 0
    BY <1>1, <1>5, <2>1
  <2>3. QED
    BY <1>1, <2>2
<1>6. QED
  BY <1>3, <1>4, <1>5 DEF Compile!NoneStranded

-----------------------------------------------------------------------------
(* HostCond: cond_variable *)

CondPCs == {"idle", "look", "add", "unlock", "leave", "sleep", "asleep", "clean", "store", "test",
            "signal", "notify"}
Counts == {"unlock", "sleep", "asleep", "clean"}
Holds == {"look", "add", "unlock", "leave", "store"}

\* The waiters that the word counts.
Counted == {t \in Consumers : dpc[t] \in Counts}

\* What holds of a thread by where it is.  While it is counted, no signal is
\* taken back, and there is room for one more than it has seen.
CondLocal(t) ==
  /\ lock = t <=> dpc[t] \in Holds
  /\ dpc[t] \in {"add", "unlock", "leave"} => data = 0
  /\ dpc[t] \in Counts => cold[t].signals <= cword.signals /\ cold[t].signals < SignalMax

\* Data came while t waits: the producer has not signalled yet, or t can see it.
CondSeen(t) ==
  dpc[t] \in {"sleep", "asleep"} /\ data > 0 =>
    \/ \E u \in Consumers : dpc[u] \in {"test", "signal"}
    \/ cword.signals # cold[t].signals

\* A sleeper that has been signalled will be notified.
CondWoken(t) ==
  dpc[t] = "asleep" /\ cword.signals # cold[t].signals =>
    \E u \in Consumers : dpc[u] = "notify"

CondInv ==
  /\ Cond!TypeOK /\ Cond!WaitersCounted
  /\ \A t \in Consumers : CondLocal(t) /\ CondSeen(t) /\ CondWoken(t)

(***************************************************************************)
(* The module of the condition variable counts as this one does.           *)
(***************************************************************************)
LEMMA CondCardinality ==
  \A S : Cond!Cardinality(S) = Cardinality(S)
  BY DEF Cond!Cardinality, Cardinality

(***************************************************************************)
(* The types, and what the word counts.                                    *)
(***************************************************************************)
LEMMA CondTypes ==
  ASSUME CondInv
  PROVE  /\ cword \in Cond!Word /\ cword \in [waiters : Nat, signals : Nat]
         /\ cword.waiters \in Nat /\ cword.signals \in Nat
         /\ cword.waiters <= WaiterMax /\ cword.signals <= SignalMax
         /\ lock \in Consumers \union {NoThread} /\ data \in 0..MaxData
         /\ dpc \in [Consumers -> CondPCs] /\ cold \in [Consumers -> Cond!Word]
         /\ (\A t \in Consumers : cold[t].signals \in Nat)
         /\ IsFiniteSet(Counted) /\ cword.waiters = Cardinality(Counted)
         /\ WaiterMax \in Nat /\ SignalMax \in Nat /\ MaxData \in Nat
<1>1. /\ WaiterMax \in Nat /\ SignalMax \in Nat /\ MaxData \in Nat
  BY HostAssumption
<1>2. /\ cword \in Cond!Word /\ lock \in Consumers \union {NoThread} /\ data \in 0..MaxData
      /\ dpc \in [Consumers -> CondPCs] /\ cold \in [Consumers -> Cond!Word]
  BY DEF CondInv, Cond!TypeOK, CondPCs
<1>3. \A w \in Cond!Word : /\ w \in [waiters : Nat, signals : Nat]
                           /\ w.waiters \in Nat /\ w.signals \in Nat
                           /\ w.waiters <= WaiterMax /\ w.signals <= SignalMax
  BY <1>1 DEF Cond!Word
<1>4. \A t \in Consumers : cold[t] \in Cond!Word
  BY <1>2
<1>5. Counted \subseteq Consumers
  BY DEF Counted
<1>6. IsFiniteSet(Counted)
  BY <1>5, HostAssumption, FS_Subset
<1>7. cword.waiters = Cardinality(Counted)
  BY CondCardinality DEF CondInv, Cond!WaitersCounted, Counted, Counts
<1>8. QED
  BY <1>1, <1>2, <1>3, <1>4, <1>6, <1>7

(***************************************************************************)
(* A step of one thread that leaves the word alone.                        *)
(***************************************************************************)
LEMMA CondQuiet ==
  ASSUME CondInv, NEW t \in Consumers, NEW l \in CondPCs, dpc' = [dpc EXCEPT ![t] = l],
         cword' = cword, cold' = cold, data' \in 0..MaxData,
         l \in Counts <=> dpc[t] \in Counts,
         \/ lock' = lock /\ (l \in Holds <=> dpc[t] \in Holds)
         \/ lock = NoThread /\ lock' = t /\ l \in Holds
         \/ lock = t /\ lock' = NoThread /\ l \notin Holds,
         data' = data \/ lock = t,
         l \in {"add", "unlock", "leave", "sleep"} => data' = 0,
         data' > data => l = "test",
         dpc[t] \in {"test", "signal"} /\ l \notin {"test", "signal"} =>
           \A v \in Consumers : dpc[v] \in {"sleep", "asleep"} => cword.signals # cold[v].signals,
         dpc[t] # "notify",
         l = "asleep" => dpc[t] = "sleep" /\ cword.signals = cold[t].signals
  PROVE  CondInv'
<1>1. /\ dpc \in [Consumers -> CondPCs] /\ lock \in Consumers \union {NoThread}
      /\ NoThread \notin Consumers /\ data \in Nat /\ data' \in Nat
  BY CondTypes, HostAssumption
<1>2. /\ dpc' \in [Consumers -> CondPCs] /\ dpc'[t] = l
      /\ \A v \in Consumers : v # t => dpc'[v] = dpc[v]
  BY <1>1
<1>3. Cond!TypeOK'
  BY <1>1, <1>2 DEF CondInv, Cond!TypeOK, CondPCs
<1>4. Cond!WaitersCounted'
  <2>1. {v \in Consumers : dpc'[v] \in Counts} = {v \in Consumers : dpc[v] \in Counts}
    BY <1>2
  <2>2. QED
    BY <2>1 DEF CondInv, Cond!WaitersCounted, Counts
<1>5. ASSUME NEW v \in Consumers PROVE CondLocal(v)'
  <2>1. CondLocal(v) /\ CondLocal(t)
    BY DEF CondInv
  <2>2. CASE v = t
    <3>1. lock' = t <=> l \in Holds
      BY <1>1, <2>1 DEF CondLocal
    <3>2. l \in Counts => cold[t].signals <= cword.signals /\ cold[t].signals < SignalMax
      BY <2>1 DEF CondLocal
    <3>3. QED
      BY <1>2, <2>2, <3>1, <3>2 DEF CondLocal
  <2>3. CASE v # t
    <3>1. lock' = v <=> dpc[v] \in Holds
      BY <1>1, <2>1, <2>3 DEF CondLocal
    <3>2. dpc[v] \in {"add", "unlock", "leave"} => data' = 0
      <4>1. ASSUME dpc[v] \in {"add", "unlock", "leave"} PROVE data' = 0
        <5>1. lock = v /\ data = 0
          BY <2>1, <4>1 DEF CondLocal, Holds
        <5>2. QED
          BY <2>3, <5>1
      <4>2. QED
        BY <4>1
    <3>3. QED
      BY <1>2, <2>1, <2>3, <3>1, <3>2 DEF CondLocal
  <2>4. QED
    BY <2>2, <2>3
<1>6. ASSUME NEW v \in Consumers PROVE CondSeen(v)'
  <2>1. SUFFICES ASSUME dpc'[v] \in {"sleep", "asleep"}, data' > 0,
                        ~ \E u \in Consumers : dpc'[u] \in {"test", "signal"}
                 PROVE  cword'.signals # cold'[v].signals
    BY DEF CondSeen
  <2>2. dpc[v] \in {"sleep", "asleep"}
    BY <1>1, <1>2, <2>1
  <2>3. ~(data' > data)
    BY <1>2, <2>1
  <2>4. data > 0
    BY <1>1, <2>1, <2>3
  <2>5. CASE \E u \in Consumers : dpc[u] \in {"test", "signal"}
    <3>1. PICK u \in Consumers : dpc[u] \in {"test", "signal"}
      BY <2>5
    <3>2. u = t /\ l \notin {"test", "signal"}
      BY <1>2, <2>1, <3>1
    <3>3. QED
      BY <2>2, <3>1, <3>2
  <2>6. CASE ~ \E u \in Consumers : dpc[u] \in {"test", "signal"}
    BY <2>2, <2>4, <2>6 DEF CondInv, CondSeen
  <2>7. QED
    BY <2>5, <2>6
<1>7. ASSUME NEW v \in Consumers PROVE CondWoken(v)'
  <2>1. SUFFICES ASSUME dpc'[v] = "asleep", cword'.signals # cold'[v].signals
                 PROVE  \E u \in Consumers : dpc'[u] = "notify"
    BY DEF CondWoken
  <2>2. v # t /\ dpc[v] = "asleep"
    BY <1>2, <2>1
  <2>3. PICK u \in Consumers : dpc[u] = "notify"
    BY <2>1, <2>2 DEF CondInv, CondWoken
  <2>4. QED
    BY <1>2, <2>3
<1>8. QED
  BY <1>3, <1>4, <1>5, <1>6, <1>7 DEF CondInv

(***************************************************************************)
(* The word is zero only when nobody waits.                                *)
(***************************************************************************)
LEMMA CondZero ==
  ASSUME CondInv, cword = Cond!Zero
  PROVE  \A t \in Consumers : dpc[t] \notin Counts
<1>1. IsFiniteSet(Counted) /\ Cardinality(Counted) = 0
  BY CondTypes DEF Cond!Zero
<1>2. Counted = {}
  BY <1>1, FS_EmptySet
<1>3. QED
  BY <1>2 DEF Counted

(***************************************************************************)
(* The user's mutex is taken, by a consumer or a producer.                 *)
(***************************************************************************)
LEMMA CondTakeInv ==
  ASSUME CondInv, NEW t \in Consumers, Cond!Consume(t) \/ Cond!Produce(t)
  PROVE  CondInv'
<1>1. PICK l \in CondPCs : /\ l \in {"look", "store"} /\ Cond!TakeLock(t, "idle", l)
  BY DEF Cond!Consume, Cond!Produce, CondPCs
<1>2. /\ dpc[t] = "idle" /\ dpc' = [dpc EXCEPT ![t] = l] /\ lock = NoThread /\ lock' = t
      /\ cword' = cword /\ cold' = cold /\ data' = data
  BY <1>1 DEF Cond!TakeLock, Cond!Goto
<1>3. l \in Holds /\ l \notin Counts /\ dpc[t] \notin Counts
  BY <1>1, <1>2 DEF Holds, Counts
<1>4. data' \in 0..MaxData /\ ~(data' > data)
  BY <1>2, CondTypes
<1>5. l \notin {"add", "unlock", "leave", "sleep", "asleep"} /\ dpc[t] \notin {"test", "signal", "notify"}
  BY <1>1, <1>2
<1>6. QED
  BY <1>2, <1>3, <1>4, <1>5, CondQuiet

(***************************************************************************)
(* A consumer looks for data; a producer stores data.                      *)
(***************************************************************************)
LEMMA CondDataInv ==
  ASSUME CondInv, NEW t \in Consumers, Cond!Look(t) \/ Cond!Store(t)
  PROVE  CondInv'
<1>1. data \in 0..MaxData /\ MaxData \in Nat
  BY CondTypes
<1>2. CASE Cond!Look(t) /\ data > 0
  <2>1. PICK l \in CondPCs : l = "idle"
    BY DEF CondPCs
  <2>2. /\ dpc[t] = "look" /\ dpc' = [dpc EXCEPT ![t] = l] /\ lock' = NoThread
        /\ cword' = cword /\ cold' = cold /\ data' = data - 1
    BY <1>2, <2>1 DEF Cond!Look, Cond!Goto
  <2>3. lock = t /\ l \notin Holds /\ l \notin Counts /\ dpc[t] \notin Counts
    BY <2>1, <2>2 DEF Holds, Counts, CondInv, CondLocal
  <2>4. data' \in 0..MaxData /\ ~(data' > data)
    BY <1>1, <1>2, <2>2
  <2>5. QED
    BY <2>1, <2>2, <2>3, <2>4, CondQuiet
<1>3. CASE Cond!Look(t) /\ ~(data > 0)
  <2>1. PICK l \in CondPCs : l = "add"
    BY DEF CondPCs
  <2>2. /\ dpc[t] = "look" /\ dpc' = [dpc EXCEPT ![t] = l] /\ lock' = lock
        /\ cword' = cword /\ cold' = cold /\ data' = data
    BY <1>3, <2>1 DEF Cond!Look, Cond!Goto
  <2>3. l \in Holds /\ dpc[t] \in Holds /\ l \notin Counts /\ dpc[t] \notin Counts
    BY <2>1, <2>2 DEF Holds, Counts
  <2>4. data' \in 0..MaxData /\ ~(data' > data) /\ data' = 0
    BY <1>1, <1>3, <2>2
  <2>5. QED
    BY <2>1, <2>2, <2>3, <2>4, CondQuiet
<1>4. CASE Cond!Store(t)
  <2>1. PICK l \in CondPCs : l = IF data < MaxData THEN "test" ELSE "idle"
    BY DEF CondPCs
  <2>2. /\ dpc[t] = "store" /\ dpc' = [dpc EXCEPT ![t] = l] /\ lock' = NoThread
        /\ cword' = cword /\ cold' = cold
        /\ data' = IF data < MaxData THEN data + 1 ELSE data
    BY <1>4, <2>1 DEF Cond!Store, Cond!Goto
  <2>3. lock = t /\ l \notin Holds /\ l \notin Counts /\ dpc[t] \notin Counts
    BY <2>1, <2>2 DEF Holds, Counts, CondInv, CondLocal
  <2>4. data' \in 0..MaxData /\ (data' > data => l = "test")
    BY <1>1, <2>1, <2>2
  <2>5. l \notin {"add", "unlock", "leave", "sleep", "asleep"}
    BY <2>1
  <2>6. QED
    BY <2>2, <2>3, <2>4, <2>5, CondQuiet
<1>5. QED
  BY <1>2, <1>3, <1>4

(***************************************************************************)
(* The consumer unlocks, sleeps if the word has not changed, or runs out   *)
(* of time.                                                                *)
(***************************************************************************)
LEMMA CondSleepInv ==
  ASSUME CondInv, NEW t \in Consumers, Cond!Unlock(t) \/ Cond!Sleep(t) \/ Cond!TimeOut(t)
  PROVE  CondInv'
<1>1. data \in 0..MaxData /\ data \in Nat
  BY CondTypes
<1>2. CASE Cond!Unlock(t)
  <2>1. PICK l \in CondPCs : l = IF dpc[t] = "unlock" THEN "sleep" ELSE "idle"
    BY DEF CondPCs
  <2>2. /\ dpc[t] \in {"unlock", "leave"} /\ dpc' = [dpc EXCEPT ![t] = l] /\ lock' = NoThread
        /\ cword' = cword /\ cold' = cold /\ data' = data
    BY <1>2, <2>1 DEF Cond!Unlock, Cond!Goto
  <2>3. /\ lock = t /\ l \notin Holds /\ (l \in Counts <=> dpc[t] \in Counts) /\ data = 0
    BY <2>1, <2>2 DEF Holds, Counts, CondInv, CondLocal
  <2>4. data' \in 0..MaxData /\ ~(data' > data)
    BY <1>1, <2>2
  <2>5. l # "asleep"
    BY <2>1
  <2>6. QED
    BY <2>2, <2>3, <2>4, <2>5, CondQuiet
<1>3. CASE Cond!Sleep(t) \/ Cond!TimeOut(t)
  <2>1. PICK l \in CondPCs : l = IF Cond!Sleep(t) /\ cword = cold[t] THEN "asleep" ELSE "clean"
    BY DEF CondPCs
  <2>2. /\ dpc[t] \in {"sleep", "asleep"} /\ dpc' = [dpc EXCEPT ![t] = l] /\ lock' = lock
        /\ cword' = cword /\ cold' = cold /\ data' = data
        /\ l = "asleep" => dpc[t] = "sleep" /\ cword = cold[t]
    <3>1. CASE Cond!Sleep(t)
      BY <2>1, <3>1 DEF Cond!Sleep, Cond!Goto
    <3>2. CASE ~Cond!Sleep(t)
      <4>1. Cond!TimeOut(t) /\ l = "clean"
        BY <1>3, <2>1, <3>2
      <4>2. QED
        BY <4>1 DEF Cond!TimeOut, Cond!Goto
    <3>3. QED
      BY <3>1, <3>2
  <2>3. /\ l \in {"asleep", "clean"} /\ l \notin Holds /\ dpc[t] \notin Holds
        /\ l \in Counts /\ dpc[t] \in Counts
    BY <2>1, <2>2 DEF Holds, Counts
  <2>4. data' \in 0..MaxData /\ ~(data' > data)
    BY <1>1, <2>2
  <2>5. QED
    BY <2>2, <2>3, <2>4, CondQuiet
<1>4. QED
  BY <1>2, <1>3

(***************************************************************************)
(* Nobody is signalled: the word is zero, or the signals are at their      *)
(* limit.                                                                  *)
(***************************************************************************)
LEMMA CondSkipInv ==
  ASSUME CondInv, NEW t \in Consumers,
         Cond!NotifyTest(t) \/ (Cond!ImpWake(t) /\ (cword = Cond!Zero \/ cword.signals = SignalMax))
  PROVE  CondInv'
<1>1. data \in 0..MaxData /\ data \in Nat /\ SignalMax \in Nat
      /\ \A v \in Consumers : cold[v].signals \in Nat
  BY CondTypes
<1>2. PICK l \in CondPCs :
        l = IF Cond!NotifyTest(t) /\ cword # Cond!Zero THEN "signal" ELSE "idle"
  BY DEF CondPCs
<1>3. /\ dpc[t] \in {"test", "signal"} /\ dpc' = [dpc EXCEPT ![t] = l] /\ lock' = lock
      /\ cword' = cword /\ cold' = cold /\ data' = data
      /\ l = "signal" \/ cword = Cond!Zero \/ cword.signals = SignalMax
  <2>1. CASE Cond!NotifyTest(t)
    BY <1>2, <2>1 DEF Cond!NotifyTest, Cond!Goto
  <2>2. CASE ~Cond!NotifyTest(t)
    <3>1. Cond!ImpWake(t) /\ (cword = Cond!Zero \/ cword.signals = SignalMax) /\ l = "idle"
      BY <1>2, <2>2
    <3>2. QED
      BY <3>1 DEF Cond!ImpWake, Cond!Goto
  <2>3. QED
    BY <2>1, <2>2
<1>4. /\ l \in {"signal", "idle"} /\ l \notin Holds /\ dpc[t] \notin Holds
      /\ l \notin Counts /\ dpc[t] \notin Counts
  BY <1>2, <1>3 DEF Holds, Counts
<1>5. ASSUME l # "signal", NEW v \in Consumers, dpc[v] \in {"sleep", "asleep"}
      PROVE  cword.signals # cold[v].signals
  <2>1. dpc[v] \in Counts
    BY <1>5 DEF Counts
  <2>2. cword.signals = SignalMax
    BY <1>3, <1>5, <2>1, CondZero
  <2>3. cold[v].signals < SignalMax
    BY <2>1 DEF CondInv, CondLocal
  <2>4. QED
    BY <1>1, <2>2, <2>3
<1>6. data' \in 0..MaxData /\ ~(data' > data)
  BY <1>1, <1>3
<1>7. dpc[t] \in {"test", "signal"} /\ l \notin {"test", "signal"} =>
        \A v \in Consumers : dpc[v] \in {"sleep", "asleep"} => cword.signals # cold[v].signals
  BY <1>5
<1>8. QED
  BY <1>3, <1>4, <1>6, <1>7, CondQuiet

(***************************************************************************)
(* add_waiter counts the waiter, or refuses at a limit.                    *)
(***************************************************************************)
LEMMA CondAddInv ==
  ASSUME CondInv, NEW t \in Consumers, Cond!AddWaiter(t)
  PROVE  CondInv'
<1>1. /\ data \in 0..MaxData /\ data \in Nat /\ WaiterMax \in Nat /\ SignalMax \in Nat
      /\ cword \in [waiters : Nat, signals : Nat] /\ cword.waiters <= WaiterMax
      /\ cword.signals <= SignalMax /\ cword.waiters = Cardinality(Counted)
      /\ IsFiniteSet(Counted) /\ dpc \in [Consumers -> CondPCs]
      /\ cold \in [Consumers -> Cond!Word] /\ cword.waiters \in Nat /\ cword.signals \in Nat
  BY CondTypes
<1>2. CASE cword.signals = SignalMax \/ cword.waiters = WaiterMax
  <2>1. PICK l \in CondPCs : l = "leave"
    BY DEF CondPCs
  <2>2. /\ dpc[t] = "add" /\ dpc' = [dpc EXCEPT ![t] = l] /\ lock' = lock
        /\ cword' = cword /\ cold' = cold /\ data' = data
    BY <1>2, <2>1 DEF Cond!AddWaiter, Cond!Goto
  <2>3. l \in Holds /\ dpc[t] \in Holds /\ l \notin Counts /\ dpc[t] \notin Counts
    BY <2>1, <2>2 DEF Holds, Counts
  <2>4. data' \in 0..MaxData /\ ~(data' > data) /\ data' = 0
    BY <1>1, <2>2 DEF CondInv, CondLocal
  <2>5. QED
    BY <2>1, <2>2, <2>3, <2>4, CondQuiet
<1>3. CASE ~(cword.signals = SignalMax \/ cword.waiters = WaiterMax)
  <2>1. /\ dpc[t] = "add" /\ dpc' = [dpc EXCEPT ![t] = "unlock"] /\ lock' = lock
        /\ cword' = [cword EXCEPT !.waiters = @ + 1] /\ cold' = [cold EXCEPT ![t] = cword']
        /\ data' = data
    BY <1>3 DEF Cond!AddWaiter, Cond!Goto
  <2>2. /\ cword'.waiters = cword.waiters + 1 /\ cword'.signals = cword.signals
        /\ cword' \in Cond!Word
    BY <1>1, <1>3, <2>1 DEF Cond!Word
  <2>3. /\ dpc' \in [Consumers -> CondPCs] /\ dpc'[t] = "unlock" /\ cold'[t] = cword'
        /\ cold' \in [Consumers -> Cond!Word]
        /\ \A v \in Consumers : v # t => dpc'[v] = dpc[v] /\ cold'[v] = cold[v]
    <3>1. "unlock" \in CondPCs
      BY DEF CondPCs
    <3>2. QED
      BY <1>1, <2>1, <2>2, <3>1
  <2>4. Cond!TypeOK'
    BY <2>1, <2>2, <2>3 DEF CondInv, Cond!TypeOK, CondPCs
  <2>5. Cond!WaitersCounted'
    <3>1. Counted' = Counted \union {t} /\ t \notin Counted
      BY <2>1, <2>3 DEF Counted, Counts
    <3>2. Cardinality(Counted') = Cardinality(Counted) + 1
      BY <1>1, <3>1, FS_AddElement
    <3>3. cword'.waiters = Cardinality(Counted')
      BY <1>1, <2>2, <3>2
    <3>4. QED
      BY <3>3, CondCardinality DEF Cond!WaitersCounted, Counted, Counts
  <2>6. ASSUME NEW v \in Consumers PROVE CondLocal(v)' /\ CondSeen(v)' /\ CondWoken(v)'
    <3>1. CondLocal(v) /\ CondSeen(v) /\ CondWoken(v)
      BY DEF CondInv
    <3>2. CASE v = t
      <4>1. lock = t /\ data = 0
        BY <2>1, <3>1, <3>2 DEF CondLocal, Holds
      <4>2. cword.signals < SignalMax
        BY <1>1, <1>3
      <4>3. CondLocal(t)'
        BY <1>1, <2>1, <2>2, <2>3, <4>1, <4>2 DEF CondLocal, Holds
      <4>4. CondSeen(t)' /\ CondWoken(t)'
        BY <2>3 DEF CondSeen, CondWoken
      <4>5. QED
        BY <3>2, <4>3, <4>4
    <3>3. CASE v # t
      <4>1. CondLocal(v)'
        BY <2>1, <2>2, <2>3, <3>1, <3>3 DEF CondLocal
      <4>2. \A u \in Consumers : dpc[u] \in {"test", "signal", "notify"} => dpc'[u] = dpc[u]
        BY <2>1, <2>3
      <4>3. CondSeen(v)'
        BY <2>1, <2>2, <2>3, <3>1, <3>3, <4>2 DEF CondSeen
      <4>4. CondWoken(v)'
        BY <2>1, <2>2, <2>3, <3>1, <3>3, <4>2 DEF CondWoken
      <4>5. QED
        BY <4>1, <4>3, <4>4
    <3>4. QED
      BY <3>2, <3>3
  <2>7. QED
    BY <2>4, <2>5, <2>6 DEF CondInv
<1>4. QED
  BY <1>2, <1>3

(***************************************************************************)
(* A waiter leaves; the last one takes the signals with it.                *)
(***************************************************************************)
LEMMA CondCleanInv ==
  ASSUME CondInv, NEW t \in Consumers, Cond!CleanUp(t)
  PROVE  CondInv'
<1>1. /\ WaiterMax \in Nat /\ SignalMax \in Nat /\ cword \in Cond!Word
      /\ cword \in [waiters : Nat, signals : Nat] /\ cword.waiters <= WaiterMax
      /\ cword.waiters = Cardinality(Counted) /\ cword.signals \in Nat
      /\ IsFiniteSet(Counted) /\ dpc \in [Consumers -> CondPCs] /\ cword.signals <= SignalMax
      /\ cold \in [Consumers -> Cond!Word] /\ cword.waiters \in Nat
  BY CondTypes
<1>2. /\ dpc[t] = "clean" /\ dpc' = [dpc EXCEPT ![t] = "idle"] /\ lock' = lock /\ data' = data
      /\ cword' = IF cword.waiters = 1 THEN Cond!Zero ELSE [cword EXCEPT !.waiters = @ - 1]
      /\ cold' = [cold EXCEPT ![t] = Cond!Zero]
  BY DEF Cond!CleanUp, Cond!Goto
<1>3. /\ Counted' = Counted \ {t} /\ t \in Counted
      /\ Cardinality(Counted') = Cardinality(Counted) - 1
      /\ IsFiniteSet(Counted')
  <2>1. Counted' = Counted \ {t} /\ t \in Counted
    BY <1>1, <1>2 DEF Counted, Counts
  <2>2. QED
    BY <1>1, <2>1, FS_RemoveElement
<1>4. cword.waiters >= 1
  <2>1. Cardinality(Counted) # 0
    BY <1>1, <1>3, FS_EmptySet
  <2>2. QED
    BY <1>1, <2>1
<1>5. /\ cword'.waiters = cword.waiters - 1 /\ cword' \in Cond!Word
      /\ cword.waiters # 1 => cword'.signals = cword.signals
  <2>1. CASE cword.waiters = 1
    BY <1>1, <1>2, <2>1 DEF Cond!Zero, Cond!Word
  <2>2. CASE cword.waiters # 1
    BY <1>1, <1>2, <1>4, <2>2 DEF Cond!Word
  <2>3. QED
    BY <2>1, <2>2
<1>6. Cond!Zero \in Cond!Word
  BY <1>1 DEF Cond!Zero, Cond!Word
<1>7. /\ dpc' \in [Consumers -> CondPCs] /\ dpc'[t] = "idle" /\ cold' \in [Consumers -> Cond!Word]
      /\ \A v \in Consumers : v # t => dpc'[v] = dpc[v] /\ cold'[v] = cold[v]
  <2>1. "idle" \in CondPCs
    BY DEF CondPCs
  <2>2. QED
    BY <1>1, <1>2, <1>6, <2>1
<1>8. Cond!TypeOK'
  BY <1>2, <1>5, <1>7 DEF CondInv, Cond!TypeOK, CondPCs
<1>9. Cond!WaitersCounted'
  <2>1. cword'.waiters = Cardinality(Counted')
    BY <1>1, <1>3, <1>5
  <2>2. QED
    BY <2>1, CondCardinality DEF Cond!WaitersCounted, Counted, Counts
<1>10. ASSUME NEW v \in Consumers, v # t, dpc[v] \in Counts PROVE cword'.signals = cword.signals
  <2>1. v \in Counted'
    BY <1>3, <1>10 DEF Counted
  <2>2. Cardinality(Counted') # 0
    BY <1>3, <2>1, FS_EmptySet
  <2>3. cword.waiters # 1
    BY <1>1, <1>3, <2>2
  <2>4. QED
    BY <1>5, <2>3
<1>11. ASSUME NEW v \in Consumers PROVE CondLocal(v)' /\ CondSeen(v)' /\ CondWoken(v)'
  <2>1. CondLocal(v) /\ CondSeen(v) /\ CondWoken(v)
    BY DEF CondInv
  <2>2. CASE v = t
    <3>1. CondLocal(t)'
      BY <1>2, <1>7, <2>1, <2>2 DEF CondLocal, Holds, Counts
    <3>2. CondSeen(t)' /\ CondWoken(t)'
      BY <1>7 DEF CondSeen, CondWoken
    <3>3. QED
      BY <2>2, <3>1, <3>2
  <2>3. CASE v # t
    <3>1. dpc[v] \in Counts => cword'.signals = cword.signals
      BY <1>10, <2>3
    <3>2. CondLocal(v)'
      BY <1>2, <1>7, <2>1, <2>3, <3>1 DEF CondLocal
    <3>3. \A u \in Consumers : dpc[u] \in {"test", "signal", "notify"} => dpc'[u] = dpc[u]
      BY <1>2, <1>7
    <3>4. dpc[v] \in {"sleep", "asleep"} => cword'.signals = cword.signals
      BY <3>1 DEF Counts
    <3>5. CondSeen(v)'
      BY <1>2, <1>7, <2>1, <2>3, <3>3, <3>4 DEF CondSeen
    <3>6. CondWoken(v)'
      BY <1>2, <1>7, <2>1, <2>3, <3>3, <3>4 DEF CondWoken
    <3>7. QED
      BY <3>2, <3>5, <3>6
  <2>4. QED
    BY <2>2, <2>3
<1>12. QED
  BY <1>8, <1>9, <1>11 DEF CondInv

(***************************************************************************)
(* imp_wake counts a signal, which every waiter can see.                   *)
(***************************************************************************)
LEMMA CondWakeInv ==
  ASSUME CondInv, NEW t \in Consumers, Cond!ImpWake(t),
         ~(cword = Cond!Zero \/ cword.signals = SignalMax)
  PROVE  CondInv'
<1>1. /\ SignalMax \in Nat /\ cword \in Cond!Word /\ cword \in [waiters : Nat, signals : Nat]
      /\ cword.signals \in Nat /\ cword.signals <= SignalMax /\ dpc \in [Consumers -> CondPCs]
      /\ \A v \in Consumers : cold[v].signals \in Nat
  BY CondTypes
<1>2. /\ dpc[t] = "signal" /\ dpc' = [dpc EXCEPT ![t] = "notify"] /\ lock' = lock /\ data' = data
      /\ cword' = [cword EXCEPT !.signals = @ + 1] /\ cold' = cold
  BY DEF Cond!ImpWake, Cond!Goto
<1>3. /\ cword'.waiters = cword.waiters /\ cword'.signals = cword.signals + 1
      /\ cword' \in Cond!Word
  BY <1>1, <1>2 DEF Cond!Word
<1>4. /\ dpc' \in [Consumers -> CondPCs] /\ dpc'[t] = "notify"
      /\ \A v \in Consumers : v # t => dpc'[v] = dpc[v]
  <2>1. "notify" \in CondPCs
    BY DEF CondPCs
  <2>2. QED
    BY <1>1, <1>2, <2>1
<1>5. Cond!TypeOK'
  BY <1>2, <1>3, <1>4 DEF CondInv, Cond!TypeOK, CondPCs
<1>6. Cond!WaitersCounted'
  <2>1. {v \in Consumers : dpc'[v] \in Counts} = {v \in Consumers : dpc[v] \in Counts}
    BY <1>2, <1>4 DEF Counts
  <2>2. QED
    BY <1>3, <2>1 DEF CondInv, Cond!WaitersCounted, Counts
<1>7. ASSUME NEW v \in Consumers PROVE CondLocal(v)' /\ CondSeen(v)' /\ CondWoken(v)'
  <2>1. CondLocal(v)
    BY DEF CondInv
  <2>2. dpc'[v] \in Counts => dpc[v] \in Counts /\ cold[v].signals < cword'.signals
    <3>1. dpc'[v] \in Counts => dpc[v] \in Counts
      BY <1>4 DEF Counts
    <3>2. dpc[v] \in Counts => cold[v].signals <= cword.signals
      BY <2>1 DEF CondLocal
    <3>3. QED
      BY <1>1, <1>3, <3>1, <3>2
  <2>3. CondLocal(v)'
    <3>1. lock' = v <=> dpc'[v] \in Holds
      BY <1>2, <1>4, <2>1 DEF CondLocal, Holds
    <3>2. dpc'[v] \in {"add", "unlock", "leave"} => data' = 0
      BY <1>2, <1>4, <2>1 DEF CondLocal
    <3>3. dpc'[v] \in Counts => cold'[v].signals <= cword'.signals /\ cold'[v].signals < SignalMax
      <4>1. cword'.signals \in Nat
        BY <1>1, <1>3
      <4>2. QED
        BY <1>1, <1>2, <2>1, <2>2, <4>1 DEF CondLocal
    <3>4. QED
      BY <3>1, <3>2, <3>3 DEF CondLocal
  <2>4. CondSeen(v)'
    <3>1. dpc'[v] \in {"sleep", "asleep"} => cword'.signals # cold'[v].signals
      BY <1>1, <1>2, <1>3, <2>2 DEF Counts
    <3>2. QED
      BY <3>1 DEF CondSeen
  <2>5. CondWoken(v)'
    BY <1>4 DEF CondWoken
  <2>6. QED
    BY <2>3, <2>4, <2>5
<1>8. QED
  BY <1>5, <1>6, <1>7 DEF CondInv

(***************************************************************************)
(* notify_all leaves nobody asleep.                                        *)
(***************************************************************************)
LEMMA CondNotifyInv ==
  ASSUME CondInv, NEW t \in Consumers, Cond!NotifyAll(t)
  PROVE  CondInv'
<1>1. dpc \in [Consumers -> CondPCs]
  BY CondTypes
<1>2. /\ dpc[t] = "notify" /\ lock' = lock /\ data' = data /\ cword' = cword /\ cold' = cold
      /\ dpc' = [u \in Consumers |-> IF u = t THEN "idle"
                                     ELSE IF dpc[u] = "asleep" THEN "clean" ELSE dpc[u]]
  BY DEF Cond!NotifyAll
<1>3. /\ dpc' \in [Consumers -> CondPCs]
      /\ \A v \in Consumers : /\ dpc'[v] # "asleep"
                              /\ dpc'[v] \in Counts <=> dpc[v] \in Counts
                              /\ dpc'[v] \in Holds <=> dpc[v] \in Holds
                              /\ dpc'[v] \in {"add", "unlock", "leave"} => dpc'[v] = dpc[v]
                              /\ dpc'[v] = "sleep" => dpc[v] = "sleep"
                              /\ dpc[v] \in {"test", "signal"} => dpc'[v] = dpc[v]
  BY <1>1, <1>2 DEF CondPCs, Counts, Holds
<1>4. Cond!TypeOK'
  BY <1>2, <1>3 DEF CondInv, Cond!TypeOK, CondPCs
<1>5. Cond!WaitersCounted'
  <2>1. {v \in Consumers : dpc'[v] \in Counts} = {v \in Consumers : dpc[v] \in Counts}
    BY <1>3
  <2>2. QED
    BY <1>2, <2>1 DEF CondInv, Cond!WaitersCounted, Counts
<1>6. ASSUME NEW v \in Consumers PROVE CondLocal(v)' /\ CondSeen(v)' /\ CondWoken(v)'
  <2>1. CondLocal(v) /\ CondSeen(v)
    BY DEF CondInv
  <2>2. CondLocal(v)'
    BY <1>2, <1>3, <2>1 DEF CondLocal
  <2>3. CondSeen(v)'
    BY <1>2, <1>3, <2>1 DEF CondSeen
  <2>4. CondWoken(v)'
    BY <1>3 DEF CondWoken
  <2>5. QED
    BY <2>2, <2>3, <2>4
<1>7. QED
  BY <1>4, <1>5, <1>6 DEF CondInv

(***************************************************************************)
(* Every step keeps the invariant of the condition variable.               *)
(***************************************************************************)
LEMMA CondNextInv ==
  ASSUME CondInv, Cond!Next
  PROVE  CondInv'
<1>1. PICK t \in Consumers :
        \/ Cond!Consume(t) \/ Cond!Look(t) \/ Cond!AddWaiter(t) \/ Cond!Unlock(t) \/ Cond!Sleep(t)
        \/ Cond!TimeOut(t) \/ Cond!CleanUp(t) \/ Cond!Produce(t) \/ Cond!Store(t)
        \/ Cond!NotifyTest(t) \/ Cond!ImpWake(t) \/ Cond!NotifyAll(t)
  BY DEF Cond!Next
<1>2. CASE Cond!Consume(t) \/ Cond!Produce(t)
  BY <1>2, CondTakeInv
<1>3. CASE Cond!Look(t) \/ Cond!Store(t)
  BY <1>3, CondDataInv
<1>4. CASE Cond!AddWaiter(t)
  BY <1>4, CondAddInv
<1>5. CASE Cond!Unlock(t) \/ Cond!Sleep(t) \/ Cond!TimeOut(t)
  BY <1>5, CondSleepInv
<1>6. CASE Cond!CleanUp(t)
  BY <1>6, CondCleanInv
<1>7. CASE Cond!NotifyTest(t)
  BY <1>7, CondSkipInv
<1>8. CASE Cond!ImpWake(t)
  BY <1>8, CondSkipInv, CondWakeInv
<1>9. CASE Cond!NotifyAll(t)
  BY <1>9, CondNotifyInv
<1>10. QED
  BY <1>1, <1>2, <1>3, <1>4, <1>5, <1>6, <1>7, <1>8, <1>9

(***************************************************************************)
(* The invariant holds of a new condition variable.                        *)
(***************************************************************************)
LEMMA CondInit ==
  ASSUME Cond!Init
  PROVE  CondInv
<1>1. /\ cword = Cond!Zero /\ lock = NoThread /\ data = 0
      /\ dpc = [t \in Consumers |-> "idle"] /\ cold = [t \in Consumers |-> Cond!Zero]
  BY DEF Cond!Init
<1>2. Cond!Zero \in Cond!Word
  BY HostAssumption DEF Cond!Zero, Cond!Word
<1>3. Cond!TypeOK
  BY <1>1, <1>2, HostAssumption DEF Cond!TypeOK
<1>4. Cond!WaitersCounted
  <2>1. {v \in Consumers : dpc[v] \in Counts} = {}
    BY <1>1 DEF Counts
  <2>2. Cardinality({v \in Consumers : dpc[v] \in Counts}) = 0
    BY <2>1, FS_EmptySet
  <2>3. cword.waiters = 0
    BY <1>1 DEF Cond!Zero
  <2>4. QED
    BY <2>2, <2>3, CondCardinality DEF Cond!WaitersCounted, Counts
<1>5. \A t \in Consumers : CondLocal(t) /\ CondSeen(t) /\ CondWoken(t)
  BY <1>1, HostAssumption DEF CondLocal, CondSeen, CondWoken, Holds, Counts
<1>6. QED
  BY <1>3, <1>4, <1>5 DEF CondInv

(***************************************************************************)
(* The invariant says that no consumer sleeps through data.                *)
(***************************************************************************)
LEMMA CondDataIsSeen ==
  ASSUME CondInv
  PROVE  Cond!DataIsSeen
<1>1. SUFFICES ASSUME data > 0, NEW t \in Consumers, dpc[t] = "asleep"
               PROVE  \E u \in Consumers : dpc[u] \in {"test", "signal", "notify"}
  BY DEF Cond!DataIsSeen
<1>2. CASE cword.signals # cold[t].signals
  BY <1>1, <1>2 DEF CondInv, CondWoken
<1>3. CASE cword.signals = cold[t].signals
  BY <1>1, <1>3 DEF CondInv, CondSeen
<1>4. QED
  BY <1>2, <1>3

-----------------------------------------------------------------------------
(* HostSema: semaphore_base *)

\* Waiters that are awake, waiters that sleep, and posts that will notify.
Awake == {t \in Workers : waits[t] /\ hpc[t] \in {"op", "sleep"}}
Asleep == {t \in Workers : hpc[t] = "asleep"}
Notifying == {t \in Workers : hpc[t] = "post" /\ sold[t].waiters > sold[t].value}

\* What holds of a thread by where it is.  A thread goes to sleep only on a
\* word without permits.
SemaLocal(t) ==
  /\ waits[t] => hpc[t] \in {"op", "sleep", "asleep"}
  /\ hpc[t] \in {"sleep", "asleep"} => waits[t]
  /\ hpc[t] # "idle" => t \notin inside
  /\ hpc[t] = "cas" => sold[t].value > 0
  /\ hpc[t] = "sleep" => sold[t].value = 0

\* PermitHasTaker with the sleepers counted, which makes it inductive.
SemaTakers ==
  \/ sword.value = 0
  \/ sword.value <= Cardinality(Awake) + Cardinality(Notifying)
  \/ Cardinality(Asleep) <= Cardinality(Notifying)

SemaInv ==
  /\ Sema!TypeOK /\ Sema!WordCounts
  /\ \A t \in Workers : SemaLocal(t)
  /\ SemaTakers

SemaPCs == {"idle", "cas", "spin", "op", "sleep", "asleep", "post"}

(***************************************************************************)
(* The module of the semaphore counts as this one does.                    *)
(***************************************************************************)
LEMMA SemaCardinality ==
  \A S : Sema!Cardinality(S) = Cardinality(S)
  BY DEF Sema!Cardinality, Cardinality

(***************************************************************************)
(* Types of the words and numbers.                                         *)
(***************************************************************************)
LEMMA SemaTypes ==
  ASSUME SemaInv
  PROVE  /\ sword \in [value : Nat, waiters : Nat] /\ sword.value <= Permits
         /\ sword.value \in Nat /\ sword.waiters \in Nat
         /\ hpc \in [Workers -> SemaPCs] /\ waits \in [Workers -> BOOLEAN]
         /\ sold \in [Workers -> Sema!Word] /\ inside \subseteq Workers
         /\ Cardinality(inside) \in Nat /\ Cardinality(Awake) \in Nat
         /\ Cardinality(Asleep) \in Nat /\ Cardinality(Notifying) \in Nat
         /\ Permits \in Nat /\ Cardinality(Workers) \in Nat
         /\ sword.waiters = Cardinality(Awake) + Cardinality(Asleep)
<1>1. /\ Cardinality(inside) \in Nat /\ Cardinality(Workers) \in Nat /\ Permits \in Nat
      /\ inside \subseteq Workers
  BY HostAssumption, FS_Subset, FS_CardinalityType DEF SemaInv, Sema!TypeOK
<1>2. /\ IsFiniteSet(Awake) /\ IsFiniteSet(Asleep) /\ IsFiniteSet(Notifying)
  <2>1. Awake \subseteq Workers /\ Asleep \subseteq Workers /\ Notifying \subseteq Workers
    BY DEF Awake, Asleep, Notifying
  <2>2. QED
    BY <2>1, HostAssumption, FS_Subset
<1>3. /\ Cardinality(Awake) \in Nat /\ Cardinality(Asleep) \in Nat /\ Cardinality(Notifying) \in Nat
  BY <1>2, FS_CardinalityType
<1>4. /\ hpc \in [Workers -> SemaPCs] /\ waits \in [Workers -> BOOLEAN]
      /\ sold \in [Workers -> Sema!Word]
  BY DEF SemaInv, Sema!TypeOK, SemaPCs
<1>5. sword \in [value : Nat, waiters : Nat]
  <2>1. sword \in [value : 0..Permits + 1, waiters : 0..Cardinality(Workers)]
    BY SemaCardinality DEF SemaInv, Sema!TypeOK, Sema!Word
  <2>2. QED
    BY <1>1, <2>1
<1>6. sword.value <= Permits
  <2>1. sword.value + Cardinality(inside) = Permits
    BY SemaCardinality DEF SemaInv, Sema!WordCounts
  <2>2. QED
    BY <1>1, <1>5, <2>1
<1>7. sword.waiters = Cardinality(Awake) + Cardinality(Asleep)
  <2>1. {t \in Workers : waits[t]} = Awake \union Asleep
    BY <1>4 DEF SemaInv, SemaLocal, Awake, Asleep
  <2>2. Awake \cap Asleep = {}
    BY DEF Awake, Asleep
  <2>3. Cardinality(Awake \union Asleep) = Cardinality(Awake) + Cardinality(Asleep)
    <3>1. Cardinality(Awake \cap Asleep) = 0
      BY <2>2, FS_EmptySet
    <3>2. Cardinality(Awake \union Asleep)
            = Cardinality(Awake) + Cardinality(Asleep) - Cardinality(Awake \cap Asleep)
      BY <1>2, FS_Union
    <3>3. QED
      BY <1>3, <3>1, <3>2
  <2>4. QED
    BY <2>1, <2>3, SemaCardinality DEF SemaInv, Sema!WordCounts
<1>8. QED
  BY <1>1, <1>3, <1>4, <1>5, <1>6, <1>7

(***************************************************************************)
(* A step of one thread that counts what it does keeps the counts right.   *)
(***************************************************************************)
LEMMA SemaOne ==
  ASSUME SemaInv, NEW t \in Workers, sword' \in [value : Nat, waiters : Nat],
         hpc' \in [Workers -> SemaPCs], waits' \in [Workers -> BOOLEAN],
         sold' \in [Workers -> Sema!Word], inside' \subseteq Workers,
         \A u \in Workers : u # t => /\ hpc'[u] = hpc[u] /\ waits'[u] = waits[u]
                                     /\ sold'[u] = sold[u] /\ (u \in inside' <=> u \in inside),
         SemaLocal(t)',
         sword'.value + Ind(t \in inside') = sword.value + Ind(t \in inside),
         sword'.waiters + Ind(waits[t]) = sword.waiters + Ind(waits'[t])
  PROVE  /\ Sema!TypeOK' /\ Sema!WordCounts'
         /\ \A u \in Workers : SemaLocal(u)'
         /\ Cardinality(Awake') = Cardinality(Awake) + Ind(t \in Awake') - Ind(t \in Awake)
         /\ Cardinality(Asleep') = Cardinality(Asleep) + Ind(t \in Asleep') - Ind(t \in Asleep)
         /\ Cardinality(Notifying')
              = Cardinality(Notifying) + Ind(t \in Notifying') - Ind(t \in Notifying)
         /\ Cardinality(Awake') \in Nat /\ Cardinality(Asleep') \in Nat
         /\ Cardinality(Notifying') \in Nat
<1>1. /\ inside \subseteq Workers /\ IsFiniteSet(Workers) /\ Permits \in Nat
      /\ sword.value \in Nat /\ sword.waiters \in Nat
      /\ sword'.value \in Nat /\ sword'.waiters \in Nat
  BY SemaTypes, HostAssumption
<1>2. /\ Cardinality(Awake') = Cardinality(Awake) + Ind(t \in Awake') - Ind(t \in Awake)
      /\ Cardinality(Awake') \in Nat
  <2>1. /\ Awake \in SUBSET Workers /\ Awake' \in SUBSET Workers
        /\ \A u \in Workers : u # t => (u \in Awake <=> u \in Awake')
    BY DEF Awake
  <2>2. QED
    BY <1>1, <2>1, CardOne
<1>3. /\ Cardinality(Asleep') = Cardinality(Asleep) + Ind(t \in Asleep') - Ind(t \in Asleep)
      /\ Cardinality(Asleep') \in Nat
  <2>1. /\ Asleep \in SUBSET Workers /\ Asleep' \in SUBSET Workers
        /\ \A u \in Workers : u # t => (u \in Asleep <=> u \in Asleep')
    BY DEF Asleep
  <2>2. QED
    BY <1>1, <2>1, CardOne
<1>4. /\ Cardinality(Notifying')
           = Cardinality(Notifying) + Ind(t \in Notifying') - Ind(t \in Notifying)
      /\ Cardinality(Notifying') \in Nat
  <2>1. /\ Notifying \in SUBSET Workers /\ Notifying' \in SUBSET Workers
        /\ \A u \in Workers : u # t => (u \in Notifying <=> u \in Notifying')
    BY DEF Notifying
  <2>2. QED
    BY <1>1, <2>1, CardOne
<1>5. sword'.value + Cardinality(inside') = Permits /\ sword'.value <= Permits
  <2>1. /\ Cardinality(inside) \in Nat /\ Cardinality(inside') \in Nat
        /\ Cardinality(inside') = Cardinality(inside) + Ind(t \in inside') - Ind(t \in inside)
    <3>1. inside \in SUBSET Workers /\ inside' \in SUBSET Workers
      BY <1>1
    <3>2. QED
      BY <1>1, <3>1, CardOne
  <2>2. Ind(t \in inside') \in {0, 1} /\ Ind(t \in inside) \in {0, 1}
    BY DEF Ind
  <2>3. sword.value + Cardinality(inside) = Permits
    BY SemaCardinality DEF SemaInv, Sema!WordCounts
  <2>4. QED
    BY <1>1, <2>1, <2>2, <2>3
<1>6. /\ sword'.waiters = Cardinality({u \in Workers : waits'[u]})
      /\ sword'.waiters <= Cardinality(Workers)
  <2> DEFINE A == {u \in Workers : waits[u]}
             B == {u \in Workers : waits'[u]}
  <2>1. /\ A \in SUBSET Workers /\ B \in SUBSET Workers
        /\ (t \in A <=> waits[t]) /\ (t \in B <=> waits'[t])
    OBVIOUS
  <2>2. \A u \in Workers : u # t => (u \in A <=> u \in B)
    OBVIOUS
  <2>3. sword.waiters = Cardinality(A)
    BY SemaCardinality DEF SemaInv, Sema!WordCounts
  <2> HIDE DEF A, B
  <2>4. /\ Cardinality(A) \in Nat /\ Cardinality(B) \in Nat
        /\ Cardinality(B) = Cardinality(A) + Ind(t \in B) - Ind(t \in A)
    BY <1>1, <2>1, <2>2, CardOne
  <2>5. Ind(t \in A) = Ind(waits[t]) /\ Ind(t \in B) = Ind(waits'[t])
    BY <2>1 DEF Ind
  <2>6. Ind(waits[t]) \in {0, 1} /\ Ind(waits'[t]) \in {0, 1}
    BY DEF Ind
  <2>7. sword'.waiters = Cardinality(B)
    BY <1>1, <2>3, <2>4, <2>5, <2>6
  <2>8. Cardinality(B) <= Cardinality(Workers)
    BY <1>1, <2>1, FS_Subset
  <2>9. QED
    BY <2>7, <2>8 DEF B
<1>7. Sema!WordCounts'
  BY <1>5, <1>6, SemaCardinality DEF Sema!WordCounts
<1>8. Sema!TypeOK'
  <2>1. Cardinality(Workers) \in Nat
    BY <1>1, FS_CardinalityType
  <2>2. sword'.value \in 0..Permits + 1 /\ sword'.waiters \in 0..Cardinality(Workers)
    BY <1>1, <1>5, <1>6, <2>1
  <2>3. sword' \in Sema!Word
    BY <2>2, SemaCardinality DEF Sema!Word
  <2>4. QED
    BY <2>3 DEF Sema!TypeOK, SemaPCs
<1>9. ASSUME NEW u \in Workers PROVE SemaLocal(u)'
  <2>1. CASE u = t
    BY <2>1
  <2>2. CASE u # t
    BY <2>2 DEF SemaInv, SemaLocal
  <2>3. QED
    BY <2>1, <2>2
<1>10. QED
  BY <1>2, <1>3, <1>4, <1>7, <1>8, <1>9

(***************************************************************************)
(* A word of the semaphore that was read has its type.                     *)
(***************************************************************************)
LEMMA SemaWordType ==
  ASSUME SemaInv
  PROVE  sword \in Sema!Word /\ Sema!Zero \in Sema!Word
<1>1. 0 \in 0..Permits + 1 /\ 0 \in 0..Cardinality(Workers)
  BY SemaTypes
<1>2. QED
  BY <1>1, SemaCardinality DEF SemaInv, Sema!TypeOK, Sema!Zero, Sema!Word

(***************************************************************************)
(* A step that leaves the word, the sleepers and the posts alone.          *)
(***************************************************************************)
LEMMA SemaQuiet ==
  ASSUME SemaInv, NEW t \in Workers, NEW l \in SemaPCs, NEW o \in Sema!Word, Sema!Goto(t, l, o),
         UNCHANGED <<sword, waits, inside>>,
         \/ hpc[t] \in {"idle", "spin", "cas"} /\ l \in {"spin", "cas", "op"} /\ t \notin inside
         \/ hpc[t] = "sleep" /\ l \in {"op", "asleep"},
         l = "cas" => o.value > 0, l = "asleep" => sword.value = 0
  PROVE  SemaInv'
<1>1. /\ hpc' = [hpc EXCEPT ![t] = l] /\ sold' = [sold EXCEPT ![t] = o]
      /\ sword' = sword /\ waits' = waits /\ inside' = inside
  BY DEF Sema!Goto
<1>2. /\ hpc' \in [Workers -> SemaPCs] /\ sold' \in [Workers -> Sema!Word]
      /\ hpc'[t] = l /\ sold'[t] = o
      /\ \A u \in Workers : u # t => hpc'[u] = hpc[u] /\ sold'[u] = sold[u]
  BY <1>1, SemaTypes
<1>3. SemaLocal(t)'
  BY <1>1, <1>2 DEF SemaInv, SemaLocal
<1>4. sword' \in [value : Nat, waiters : Nat] /\ waits' \in [Workers -> BOOLEAN]
      /\ inside' \subseteq Workers
  BY <1>1, SemaTypes
<1>5. /\ sword'.value + Ind(t \in inside') = sword.value + Ind(t \in inside)
      /\ sword'.waiters + Ind(waits[t]) = sword.waiters + Ind(waits'[t])
  BY <1>1
<1>6. \A u \in Workers : u # t => /\ hpc'[u] = hpc[u] /\ waits'[u] = waits[u]
                                  /\ sold'[u] = sold[u] /\ (u \in inside' <=> u \in inside)
  BY <1>1, <1>2
<1>7. /\ Sema!TypeOK' /\ Sema!WordCounts'
      /\ \A u \in Workers : SemaLocal(u)'
      /\ Cardinality(Awake') = Cardinality(Awake) + Ind(t \in Awake') - Ind(t \in Awake)
      /\ Cardinality(Asleep') = Cardinality(Asleep) + Ind(t \in Asleep') - Ind(t \in Asleep)
      /\ Cardinality(Notifying')
           = Cardinality(Notifying) + Ind(t \in Notifying') - Ind(t \in Notifying)
  BY <1>2, <1>3, <1>4, <1>5, <1>6, SemaOne
<1>8. SemaTakers'
  <2>1. CASE sword.value = 0
    BY <1>1, <2>1 DEF SemaTakers
  <2>2. CASE l # "asleep"
    <3>1. Ind(t \in Awake') = Ind(t \in Awake)
      <4>1. t \in Awake' <=> t \in Awake
        BY <1>1, <1>2, <2>2 DEF Awake, SemaInv, SemaLocal
      <4>2. QED
        BY <4>1 DEF Ind
    <3>2. Ind(t \in Asleep') = 0 /\ Ind(t \in Asleep) = 0
      BY <1>2, <2>2 DEF Asleep, Ind
    <3>3. Ind(t \in Notifying') = 0 /\ Ind(t \in Notifying) = 0
      BY <1>2, <2>2 DEF Notifying, Ind
    <3>4. Ind(t \in Awake) \in {0, 1}
      BY DEF Ind
    <3>5. /\ Cardinality(Awake') = Cardinality(Awake) /\ Cardinality(Asleep') = Cardinality(Asleep)
          /\ Cardinality(Notifying') = Cardinality(Notifying)
      BY <1>7, <3>1, <3>2, <3>3, <3>4, SemaTypes
    <3>6. QED
      BY <1>1, <3>5 DEF SemaInv, SemaTakers
  <2>3. QED
    BY <2>1, <2>2
<1>9. QED
  BY <1>7, <1>8 DEF SemaInv

(***************************************************************************)
(* wait reads the word, in the spin loop and before it.                    *)
(***************************************************************************)
LEMMA SemaWaitInv ==
  ASSUME SemaInv, NEW t \in Workers, Sema!Wait(t) \/ Sema!SpinEnd(t)
  PROVE  SemaInv'
<1>1. ASSUME Sema!Wait(t) PROVE SemaInv'
  <2>1. PICK l \in SemaPCs : l = IF sword.value = 0 THEN "spin" ELSE "cas"
    BY DEF SemaPCs
  <2>2. /\ Sema!Goto(t, l, sword) /\ hpc[t] \in {"idle", "spin"} /\ t \notin inside
        /\ UNCHANGED <<sword, waits, inside>> /\ l \in {"spin", "cas"}
    BY <1>1, <2>1 DEF Sema!Wait
  <2>3. (l = "cas" => sword.value > 0) /\ (l = "asleep" => sword.value = 0)
    BY <2>1, SemaTypes
  <2>4. sword \in Sema!Word
    BY SemaWordType
  <2>5. QED
    BY <2>2, <2>3, <2>4, SemaQuiet
<1>2. ASSUME Sema!SpinEnd(t) PROVE SemaInv'
  <2>1. PICK l \in SemaPCs : l = "op"
    BY DEF SemaPCs
  <2>2. /\ Sema!Goto(t, l, Sema!Zero) /\ hpc[t] = "spin" /\ UNCHANGED <<sword, waits, inside>>
    BY <1>2, <2>1 DEF Sema!SpinEnd
  <2>3. t \notin inside
    BY <2>2 DEF SemaInv, SemaLocal
  <2>4. Sema!Zero \in Sema!Word
    BY SemaWordType
  <2>5. QED
    BY <2>1, <2>2, <2>3, <2>4, SemaQuiet
<1>3. QED
  BY <1>1, <1>2

(***************************************************************************)
(* A waiter sleeps only on a word without permits.                         *)
(***************************************************************************)
LEMMA SemaSleepInv ==
  ASSUME SemaInv, NEW t \in Workers, Sema!WaitSleep(t)
  PROVE  SemaInv'
<1>1. PICK l \in SemaPCs : l = IF sword = sold[t] THEN "asleep" ELSE "op"
  BY DEF SemaPCs
<1>2. /\ Sema!Goto(t, l, Sema!Zero) /\ hpc[t] = "sleep" /\ UNCHANGED <<sword, waits, inside>>
  BY <1>1 DEF Sema!WaitSleep
<1>3. l = "asleep" => sword.value = 0
  BY <1>1, <1>2 DEF SemaInv, SemaLocal
<1>4. Sema!Zero \in Sema!Word /\ sword.value >= 0
  BY SemaWordType, SemaTypes
<1>5. l \in {"asleep", "op"} /\ l # "cas"
  BY <1>1
<1>6. QED
  BY <1>2, <1>3, <1>4, <1>5, SemaQuiet

(***************************************************************************)
(* A permit is taken: by the exchange, by the operation on the word, or by *)
(* try_wait.                                                               *)
(***************************************************************************)
LEMMA SemaEnterInv ==
  ASSUME SemaInv, NEW t \in Workers, t \notin inside, sword.value > 0, hpc[t] \in {"idle", "cas", "op"},
         sword' = [value |-> sword.value - 1, waiters |-> sword.waiters - Ind(waits[t])],
         hpc' = [hpc EXCEPT ![t] = "idle"], sold' \in [Workers -> Sema!Word],
         \A u \in Workers : u # t => sold'[u] = sold[u],
         waits' = [waits EXCEPT ![t] = FALSE], inside' = inside \union {t}
  PROVE  SemaInv'
<1>1. /\ sword.value - 1 \in Nat /\ Ind(waits[t]) \in {0, 1}
      /\ sword.value \in Nat /\ sword.waiters \in Nat
  BY SemaTypes DEF Ind
<1>2. /\ sword.waiters - Ind(waits[t]) \in Nat
  <2>1. ASSUME waits[t] PROVE sword.waiters > 0
    <3>1. IsFiniteSet({u \in Workers : waits[u]}) /\ t \in {u \in Workers : waits[u]}
      BY <2>1, HostAssumption, FS_Subset
    <3>2. Cardinality({u \in Workers : waits[u]}) # 0
      BY <3>1, FS_EmptySet
    <3>3. QED
      BY <1>1, <3>2, SemaCardinality DEF SemaInv, Sema!WordCounts
  <2>2. QED
    BY <1>1, <2>1 DEF Ind
<1>3. /\ sword' \in [value : Nat, waiters : Nat] /\ sword'.value = sword.value - 1
      /\ sword'.waiters = sword.waiters - Ind(waits[t])
  BY <1>1, <1>2
<1>4. /\ hpc' \in [Workers -> SemaPCs] /\ waits' \in [Workers -> BOOLEAN]
      /\ inside' \subseteq Workers /\ hpc'[t] = "idle" /\ ~waits'[t]
      /\ \A u \in Workers : u # t => /\ hpc'[u] = hpc[u] /\ waits'[u] = waits[u]
                                     /\ sold'[u] = sold[u] /\ (u \in inside' <=> u \in inside)
  <2>1. "idle" \in SemaPCs
    BY DEF SemaPCs
  <2>2. QED
    BY <2>1, SemaTypes
<1>5. SemaLocal(t)'
  BY <1>4 DEF SemaLocal
<1>6. /\ sword'.value + Ind(t \in inside') = sword.value + Ind(t \in inside)
      /\ sword'.waiters + Ind(waits[t]) = sword.waiters + Ind(waits'[t])
  <2>1. Ind(t \in inside') = 1 /\ Ind(t \in inside) = 0 /\ Ind(waits'[t]) = 0
    BY <1>4 DEF Ind
  <2>2. sword'.value + 1 = sword.value + 0
    BY <1>1, <1>3
  <2>3. sword'.waiters + Ind(waits[t]) = sword.waiters + 0
    BY <1>1, <1>3
  <2>4. QED
    BY <2>1, <2>2, <2>3
<1>7. /\ Sema!TypeOK' /\ Sema!WordCounts'
      /\ \A u \in Workers : SemaLocal(u)'
      /\ Cardinality(Awake') = Cardinality(Awake) + Ind(t \in Awake') - Ind(t \in Awake)
      /\ Cardinality(Asleep') = Cardinality(Asleep) + Ind(t \in Asleep') - Ind(t \in Asleep)
      /\ Cardinality(Notifying')
           = Cardinality(Notifying) + Ind(t \in Notifying') - Ind(t \in Notifying)
  BY <1>3, <1>4, <1>5, <1>6, SemaOne
<1>8. SemaTakers'
  <2>1. /\ Ind(t \in Asleep') = 0 /\ Ind(t \in Asleep) = 0
        /\ Ind(t \in Notifying') = 0 /\ Ind(t \in Notifying) = 0
        /\ Ind(t \in Awake') = 0 /\ Ind(t \in Awake) \in {0, 1}
    BY <1>4 DEF Asleep, Notifying, Awake, Ind
  <2>2. /\ Cardinality(Awake') >= Cardinality(Awake) - 1
        /\ Cardinality(Asleep') = Cardinality(Asleep)
        /\ Cardinality(Notifying') = Cardinality(Notifying)
        /\ Cardinality(Awake') \in Int
    BY <1>7, <2>1, SemaTypes
  <2>3. \/ sword.value <= Cardinality(Awake) + Cardinality(Notifying)
        \/ Cardinality(Asleep) <= Cardinality(Notifying)
    BY DEF SemaInv, SemaTakers
  <2>4. QED
    BY <1>1, <1>3, <2>2, <2>3, SemaTypes DEF SemaTakers
<1>9. QED
  BY <1>7, <1>8 DEF SemaInv

(***************************************************************************)
(* The ways to take a permit.                                              *)
(***************************************************************************)
LEMMA SemaTakeInv ==
  ASSUME SemaInv, NEW t \in Workers,
         Sema!TryWait(t) \/ (Sema!WaitCas(t) /\ sword = sold[t])
           \/ (Sema!WaitOp(t) /\ sword.value > 0)
  PROVE  SemaInv'
<1>1. /\ sold \in [Workers -> Sema!Word] /\ Sema!Zero \in Sema!Word
      /\ waits \in [Workers -> BOOLEAN] /\ hpc \in [Workers -> SemaPCs]
      /\ sword \in [value : Nat, waiters : Nat]
  BY SemaTypes, SemaWordType
<1>2. ASSUME Sema!TryWait(t) PROVE SemaInv'
  <2>1. /\ hpc[t] = "idle" /\ t \notin inside /\ sword.value > 0
        /\ sword' = [sword EXCEPT !.value = @ - 1] /\ inside' = inside \union {t}
        /\ hpc' = hpc /\ sold' = sold /\ waits' = waits
    BY <1>2 DEF Sema!TryWait
  <2>2. waits[t] = FALSE
    BY <1>1, <2>1 DEF SemaInv, SemaLocal
  <2>3. waits' = [waits EXCEPT ![t] = FALSE] /\ hpc' = [hpc EXCEPT ![t] = "idle"]
    BY <1>1, <2>1, <2>2
  <2>4. Ind(waits[t]) = 0
    BY <2>2 DEF Ind
  <2>5. sword' = [value |-> sword.value - 1, waiters |-> sword.waiters - Ind(waits[t])]
    BY <1>1, <2>1, <2>4
  <2>6. QED
    BY <1>1, <2>1, <2>3, <2>5, SemaEnterInv
<1>3. ASSUME Sema!WaitCas(t), sword = sold[t] PROVE SemaInv'
  <2>1. /\ hpc[t] = "cas" /\ sword' = [sword EXCEPT !.value = @ - 1]
        /\ hpc' = [hpc EXCEPT ![t] = "idle"] /\ sold' = [sold EXCEPT ![t] = Sema!Zero]
        /\ waits' = [waits EXCEPT ![t] = FALSE] /\ inside' = inside \union {t}
    BY <1>3 DEF Sema!WaitCas, Sema!Enter, Sema!Goto
  <2>2. waits[t] = FALSE /\ sword.value > 0 /\ t \notin inside
    BY <1>1, <1>3, <2>1 DEF SemaInv, SemaLocal
  <2>3. Ind(waits[t]) = 0
    BY <2>2 DEF Ind
  <2>4. sword' = [value |-> sword.value - 1, waiters |-> sword.waiters - Ind(waits[t])]
    BY <1>1, <2>1, <2>3
  <2>5. sold' \in [Workers -> Sema!Word] /\ \A u \in Workers : u # t => sold'[u] = sold[u]
    BY <1>1, <2>1
  <2>6. QED
    BY <2>1, <2>2, <2>4, <2>5, SemaEnterInv
<1>4. ASSUME Sema!WaitOp(t), sword.value > 0 PROVE SemaInv'
  <2>1. /\ hpc[t] = "op"
        /\ sword' = [value |-> sword.value - 1, waiters |-> sword.waiters - Ind(waits[t])]
        /\ hpc' = [hpc EXCEPT ![t] = "idle"] /\ sold' = [sold EXCEPT ![t] = Sema!Zero]
        /\ waits' = [waits EXCEPT ![t] = FALSE] /\ inside' = inside \union {t}
    BY <1>4 DEF Sema!WaitOp, Sema!Enter, Sema!Goto, Ind
  <2>2. t \notin inside
    BY <2>1 DEF SemaInv, SemaLocal
  <2>3. sold' \in [Workers -> Sema!Word] /\ \A u \in Workers : u # t => sold'[u] = sold[u]
    BY <1>1, <2>1
  <2>4. QED
    BY <1>4, <2>1, <2>2, <2>3, SemaEnterInv
<1>5. QED
  BY <1>2, <1>3, <1>4

(***************************************************************************)
(* No permit is there: the exchange fails, or the waiter counts itself.    *)
(***************************************************************************)
LEMMA SemaMissInv ==
  ASSUME SemaInv, NEW t \in Workers,
         (Sema!WaitCas(t) /\ sword # sold[t]) \/ (Sema!WaitOp(t) /\ ~(sword.value > 0))
  PROVE  SemaInv'
<1>1. ASSUME Sema!WaitCas(t), sword # sold[t] PROVE SemaInv'
  <2>1. PICK l \in SemaPCs : l = "spin"
    BY DEF SemaPCs
  <2>2. /\ Sema!Goto(t, l, Sema!Zero) /\ hpc[t] = "cas" /\ UNCHANGED <<sword, waits, inside>>
    BY <1>1, <2>1 DEF Sema!WaitCas
  <2>3. t \notin inside
    BY <2>2 DEF SemaInv, SemaLocal
  <2>4. Sema!Zero \in Sema!Word
    BY SemaWordType
  <2>5. QED
    BY <2>1, <2>2, <2>3, <2>4, SemaQuiet
<1>2. ASSUME Sema!WaitOp(t), ~(sword.value > 0) PROVE SemaInv'
  <2>1. /\ hpc[t] = "op" /\ sword' = [sword EXCEPT !.waiters = @ + IF waits[t] THEN 0 ELSE 1]
        /\ hpc' = [hpc EXCEPT ![t] = "sleep"] /\ sold' = [sold EXCEPT ![t] = sword']
        /\ waits' = [waits EXCEPT ![t] = TRUE] /\ inside' = inside
    BY <1>2 DEF Sema!WaitOp, Sema!Goto
  <2>2. /\ sword \in [value : Nat, waiters : Nat] /\ sword.value = 0 /\ sword.waiters \in Nat
        /\ sword.waiters <= Cardinality(Workers)
    <3>1. sword.waiters \in 0..Cardinality(Workers)
      BY SemaCardinality DEF SemaInv, Sema!TypeOK, Sema!Word
    <3>2. QED
      BY <1>2, <3>1, SemaTypes
  <2>3. /\ sword' \in [value : Nat, waiters : Nat] /\ sword'.value = 0
        /\ sword'.waiters + Ind(waits[t]) = sword.waiters + 1
        /\ sword'.waiters = sword.waiters \/ (~waits[t] /\ sword'.waiters = sword.waiters + 1)
    <3>1. CASE waits[t]
      BY <2>1, <2>2, <3>1 DEF Ind
    <3>2. CASE ~waits[t]
      BY <2>1, <2>2, <3>2 DEF Ind
    <3>3. QED
      BY <3>1, <3>2
  <2>4. sword' \in Sema!Word
    <3>1. ASSUME ~waits[t] PROVE sword.waiters + 1 <= Cardinality(Workers)
      <4> DEFINE A == {u \in Workers : waits[u]}
      <4>1. A \subseteq Workers \ {t} /\ t \in Workers
        BY <3>1
      <4>2. sword.waiters = Cardinality(A)
        BY SemaCardinality DEF SemaInv, Sema!WordCounts
      <4>3. /\ IsFiniteSet(Workers \ {t})
            /\ Cardinality(Workers \ {t}) = Cardinality(Workers) - 1
        BY HostAssumption, FS_RemoveElement
      <4> HIDE DEF A
      <4>4. Cardinality(A) <= Cardinality(Workers) - 1
        BY <4>1, <4>3, FS_Subset
      <4>5. QED
        BY <2>2, <4>2, <4>4, SemaTypes
    <3>2. sword'.value \in 0..Permits + 1 /\ sword'.waiters \in 0..Cardinality(Workers)
      BY <2>2, <2>3, <3>1, SemaTypes
    <3>3. QED
      BY <2>3, <3>2, SemaCardinality DEF Sema!Word
  <2>5. /\ hpc' \in [Workers -> SemaPCs] /\ waits' \in [Workers -> BOOLEAN]
        /\ sold' \in [Workers -> Sema!Word] /\ inside' \subseteq Workers
        /\ hpc'[t] = "sleep" /\ waits'[t] /\ sold'[t] = sword'
        /\ \A u \in Workers : u # t => /\ hpc'[u] = hpc[u] /\ waits'[u] = waits[u]
                                       /\ sold'[u] = sold[u] /\ (u \in inside' <=> u \in inside)
    <3>1. "sleep" \in SemaPCs
      BY DEF SemaPCs
    <3>2. QED
      BY <2>1, <2>4, <3>1, SemaTypes
  <2>6. SemaLocal(t)'
    BY <2>1, <2>3, <2>5 DEF SemaInv, SemaLocal
  <2>7. /\ sword'.value + Ind(t \in inside') = sword.value + Ind(t \in inside)
        /\ sword'.waiters + Ind(waits[t]) = sword.waiters + Ind(waits'[t])
    <3>1. Ind(waits'[t]) = 1
      BY <2>5 DEF Ind
    <3>2. QED
      BY <2>1, <2>2, <2>3, <3>1
  <2>8. /\ Sema!TypeOK' /\ Sema!WordCounts' /\ \A u \in Workers : SemaLocal(u)'
    BY <2>3, <2>5, <2>6, <2>7, SemaOne
  <2>9. QED
    BY <2>3, <2>8 DEF SemaInv, SemaTakers
<1>3. QED
  BY <1>1, <1>2

(***************************************************************************)
(* A permit is given back: if nobody is notified, the waiters that are     *)
(* awake are enough.                                                       *)
(***************************************************************************)
LEMMA SemaPostInv ==
  ASSUME SemaInv, NEW t \in Workers, Sema!Post(t)
  PROVE  SemaInv'
<1>1. /\ hpc[t] = "idle" /\ t \in inside /\ inside' = inside \ {t} /\ waits' = waits
      /\ sword' = [sword EXCEPT !.value = @ + 1]
      /\ IF sword.waiters > 0 \/ sword.value >= Permits
         THEN hpc' = [hpc EXCEPT ![t] = "post"] /\ sold' = [sold EXCEPT ![t] = sword]
         ELSE hpc' = hpc /\ sold' = sold
  BY DEF Sema!Post, Sema!Goto
<1>2. /\ sword' \in [value : Nat, waiters : Nat] /\ sword'.value = sword.value + 1
      /\ sword'.waiters = sword.waiters /\ sword.value \in Nat /\ sword.waiters \in Nat
      /\ Permits \in Nat
  BY <1>1, SemaTypes
<1>3. /\ hpc' \in [Workers -> SemaPCs] /\ waits' \in [Workers -> BOOLEAN]
      /\ sold' \in [Workers -> Sema!Word] /\ inside' \subseteq Workers
      /\ hpc'[t] \in {"idle", "post"}
      /\ \A u \in Workers : u # t => /\ hpc'[u] = hpc[u] /\ waits'[u] = waits[u]
                                     /\ sold'[u] = sold[u] /\ (u \in inside' <=> u \in inside)
  <2>1. "post" \in SemaPCs /\ sword \in Sema!Word
    BY SemaWordType DEF SemaPCs
  <2>2. CASE sword.waiters > 0 \/ sword.value >= Permits
    BY <1>1, <2>1, <2>2, SemaTypes
  <2>3. CASE ~(sword.waiters > 0 \/ sword.value >= Permits)
    BY <1>1, <2>1, <2>3, SemaTypes
  <2>4. QED
    BY <2>2, <2>3
<1>4. ~waits[t]
  BY <1>1 DEF SemaInv, SemaLocal
<1>5. SemaLocal(t)'
  BY <1>1, <1>3, <1>4 DEF SemaLocal
<1>6. /\ sword'.value + Ind(t \in inside') = sword.value + Ind(t \in inside)
      /\ sword'.waiters + Ind(waits[t]) = sword.waiters + Ind(waits'[t])
  <2>1. Ind(t \in inside') = 0 /\ Ind(t \in inside) = 1
    BY <1>1 DEF Ind
  <2>2. Ind(waits'[t]) = Ind(waits[t])
    BY <1>1
  <2>3. QED
    BY <1>2, <2>1, <2>2
<1>7. /\ Sema!TypeOK' /\ Sema!WordCounts'
      /\ \A u \in Workers : SemaLocal(u)'
      /\ Cardinality(Awake') = Cardinality(Awake) + Ind(t \in Awake') - Ind(t \in Awake)
      /\ Cardinality(Asleep') = Cardinality(Asleep) + Ind(t \in Asleep') - Ind(t \in Asleep)
      /\ Cardinality(Notifying')
           = Cardinality(Notifying) + Ind(t \in Notifying') - Ind(t \in Notifying)
      /\ Cardinality(Notifying') \in Nat
  BY <1>2, <1>3, <1>5, <1>6, SemaOne
<1>8. /\ Ind(t \in Asleep') = 0 /\ Ind(t \in Asleep) = 0 /\ Ind(t \in Notifying) = 0
      /\ Ind(t \in Awake') = 0 /\ Ind(t \in Awake) = 0
  BY <1>1, <1>3 DEF Asleep, Notifying, Awake, Ind
<1>9. /\ Cardinality(Awake') = Cardinality(Awake) /\ Cardinality(Asleep') = Cardinality(Asleep)
      /\ Cardinality(Notifying') = Cardinality(Notifying) + Ind(t \in Notifying')
  <2>1. Ind(t \in Notifying') \in {0, 1}
    BY DEF Ind
  <2>2. QED
    BY <1>7, <1>8, <2>1, SemaTypes
<1>10. SemaTakers'
  <2>1. CASE sword.waiters > sword.value
    <3>1. sword.waiters > 0
      BY <1>2, <2>1
    <3>2. hpc'[t] = "post" /\ sold'[t] = sword
      BY <1>1, <3>1, SemaTypes
    <3>3. Ind(t \in Notifying') = 1
      BY <2>1, <3>2 DEF Ind, Notifying
    <3>4. \/ sword.value = 0
          \/ sword.value <= Cardinality(Awake) + Cardinality(Notifying)
          \/ Cardinality(Asleep) <= Cardinality(Notifying)
      BY DEF SemaInv, SemaTakers
    <3>5. QED
      BY <1>2, <1>9, <3>3, <3>4, SemaTypes DEF SemaTakers
  <2>2. CASE ~(sword.waiters > sword.value)
    <3>1. \/ sword.value = 0
          \/ sword.value <= Cardinality(Awake) + Cardinality(Notifying)
          \/ Cardinality(Asleep) <= Cardinality(Notifying)
      BY DEF SemaInv, SemaTakers
    <3>2. Cardinality(Asleep) <= Cardinality(Notifying)
      BY <1>2, <2>2, <3>1, SemaTypes
    <3>3. Ind(t \in Notifying') \in {0, 1}
      BY DEF Ind
    <3>4. QED
      BY <1>9, <3>2, <3>3, SemaTypes DEF SemaTakers
  <2>3. QED
    BY <2>1, <2>2
<1>11. QED
  BY <1>7, <1>10 DEF SemaInv

(***************************************************************************)
(* post notifies a sleeper, or there is none, or it need not.              *)
(***************************************************************************)
LEMMA SemaNotifyInv ==
  ASSUME SemaInv, NEW t \in Workers, Sema!PostNotify(t)
  PROVE  SemaInv'
<1>1. /\ hpc[t] = "post" /\ sold' = [sold EXCEPT ![t] = Sema!Zero]
      /\ sword' = sword /\ waits' = waits /\ inside' = inside
      /\ IF sold[t].waiters > sold[t].value /\ Asleep # {}
         THEN \E u \in Asleep : hpc' = [hpc EXCEPT ![t] = "idle", ![u] = "op"]
         ELSE hpc' = [hpc EXCEPT ![t] = "idle"]
  BY DEF Sema!PostNotify, Asleep
<1>2. /\ sold' \in [Workers -> Sema!Word] /\ \A u \in Workers : u # t => sold'[u] = sold[u]
  BY <1>1, SemaWordType, SemaTypes
<1>3. "idle" \in SemaPCs /\ "op" \in SemaPCs
  BY DEF SemaPCs
<1>4. /\ IsFiniteSet(Workers) /\ Awake \in SUBSET Workers /\ Awake' \in SUBSET Workers
      /\ Asleep \in SUBSET Workers /\ Asleep' \in SUBSET Workers
      /\ Notifying \in SUBSET Workers /\ Notifying' \in SUBSET Workers
  BY HostAssumption DEF Awake, Asleep, Notifying
<1>5. CASE sold[t].waiters > sold[t].value /\ Asleep # {}
  <2>1. PICK u \in Asleep : hpc' = [hpc EXCEPT ![t] = "idle", ![u] = "op"]
    BY <1>1, <1>5
  <2>2. u \in Workers /\ u # t /\ hpc[u] = "asleep" /\ waits[u]
    BY <1>1, <2>1 DEF Asleep, SemaInv, SemaLocal
  <2>3. /\ hpc' \in [Workers -> SemaPCs] /\ hpc'[t] = "idle" /\ hpc'[u] = "op"
        /\ \A v \in Workers : v # t /\ v # u => hpc'[v] = hpc[v]
    BY <1>3, <2>1, <2>2, SemaTypes
  <2>4. Cardinality(Notifying') = Cardinality(Notifying) - 1
    <3>1. /\ \A v \in Workers : v # t => (v \in Notifying <=> v \in Notifying')
          /\ t \in Notifying /\ t \notin Notifying'
      BY <1>1, <1>2, <1>5, <2>2, <2>3 DEF Notifying
    <3>2. Ind(t \in Notifying) = 1 /\ Ind(t \in Notifying') = 0
      BY <3>1 DEF Ind
    <3>3. Cardinality(Notifying')
            = Cardinality(Notifying) + Ind(t \in Notifying') - Ind(t \in Notifying)
      BY <1>4, <3>1, CardOne
    <3>4. QED
      BY <3>2, <3>3, SemaTypes
  <2>5. Cardinality(Asleep') = Cardinality(Asleep) - 1
    <3>1. /\ \A v \in Workers : v # u => (v \in Asleep <=> v \in Asleep')
          /\ u \in Asleep /\ u \notin Asleep'
      BY <1>1, <2>2, <2>3 DEF Asleep
    <3>2. Ind(u \in Asleep) = 1 /\ Ind(u \in Asleep') = 0
      BY <3>1 DEF Ind
    <3>3. Cardinality(Asleep') = Cardinality(Asleep) + Ind(u \in Asleep') - Ind(u \in Asleep)
      BY <1>4, <2>2, <3>1, CardOne
    <3>4. QED
      BY <3>2, <3>3, SemaTypes
  <2>6. Cardinality(Awake') = Cardinality(Awake) + 1
    <3>1. /\ \A v \in Workers : v # u => (v \in Awake <=> v \in Awake')
          /\ u \notin Awake /\ u \in Awake'
      BY <1>1, <2>2, <2>3 DEF Awake
    <3>2. Ind(u \in Awake) = 0 /\ Ind(u \in Awake') = 1
      BY <3>1 DEF Ind
    <3>3. Cardinality(Awake') = Cardinality(Awake) + Ind(u \in Awake') - Ind(u \in Awake)
      BY <1>4, <2>2, <3>1, CardOne
    <3>4. QED
      BY <3>2, <3>3, SemaTypes
  <2>7. SemaTakers'
    <3>1. SemaTakers
      BY DEF SemaInv
    <3>2. QED
      BY <1>1, <2>4, <2>5, <2>6, <3>1, SemaTypes DEF SemaTakers
  <2>8. Sema!TypeOK' /\ Sema!WordCounts'
    BY <1>1, <1>2, <2>3, SemaCardinality DEF SemaInv, Sema!TypeOK, Sema!WordCounts, SemaPCs
  <2>9. \A v \in Workers : SemaLocal(v)'
    <3>1. SUFFICES ASSUME NEW v \in Workers PROVE SemaLocal(v)'
      OBVIOUS
    <3>2. SemaLocal(v) /\ waits'[v] = waits[v] /\ (v \in inside' <=> v \in inside)
      BY <1>1 DEF SemaInv
    <3>3. CASE v = t
      BY <1>1, <2>3, <3>2, <3>3 DEF SemaLocal
    <3>4. CASE v = u
      BY <2>2, <2>3, <3>2, <3>4 DEF SemaLocal
    <3>5. CASE v # t /\ v # u
      BY <1>2, <2>3, <3>2, <3>5 DEF SemaLocal
    <3>6. QED
      BY <3>3, <3>4, <3>5
  <2>10. QED
    BY <2>7, <2>8, <2>9 DEF SemaInv
<1>6. CASE ~(sold[t].waiters > sold[t].value /\ Asleep # {})
  <2>1. /\ hpc' \in [Workers -> SemaPCs] /\ hpc'[t] = "idle"
        /\ \A v \in Workers : v # t => hpc'[v] = hpc[v]
    BY <1>1, <1>3, <1>6, SemaTypes
  <2>2. Sema!TypeOK' /\ Sema!WordCounts'
    BY <1>1, <1>2, <2>1, SemaCardinality DEF SemaInv, Sema!TypeOK, Sema!WordCounts, SemaPCs
  <2>3. \A v \in Workers : SemaLocal(v)'
    <3>1. SUFFICES ASSUME NEW v \in Workers PROVE SemaLocal(v)'
      OBVIOUS
    <3>2. SemaLocal(v) /\ waits'[v] = waits[v] /\ (v \in inside' <=> v \in inside)
      BY <1>1 DEF SemaInv
    <3>3. CASE v = t
      BY <1>1, <2>1, <3>2, <3>3 DEF SemaLocal
    <3>4. CASE v # t
      BY <1>2, <2>1, <3>2, <3>4 DEF SemaLocal
    <3>5. QED
      BY <3>3, <3>4
  <2>4. Awake' = Awake /\ Asleep' = Asleep
    BY <1>1, <2>1 DEF Awake, Asleep
  <2>5. SemaTakers'
    <3>1. CASE Asleep = {}
      <4>1. Cardinality(Asleep') = 0
        BY <2>4, <3>1, FS_EmptySet
      <4>2. Cardinality(Notifying') \in Nat
        BY <1>4, FS_Subset, FS_CardinalityType
      <4>3. QED
        BY <4>1, <4>2 DEF SemaTakers
    <3>2. CASE ~(sold[t].waiters > sold[t].value)
      <4>1. Notifying' = Notifying
        BY <1>1, <1>2, <2>1, <3>2 DEF Notifying
      <4>2. QED
        BY <1>1, <2>4, <4>1 DEF SemaInv, SemaTakers
    <3>3. QED
      BY <1>6, <3>1, <3>2
  <2>6. QED
    BY <2>2, <2>3, <2>5 DEF SemaInv
<1>7. QED
  BY <1>5, <1>6

(***************************************************************************)
(* Every step keeps the invariant of the semaphore.                        *)
(***************************************************************************)
LEMMA SemaNextInv ==
  ASSUME SemaInv, Sema!Next
  PROVE  SemaInv'
<1>1. PICK t \in Workers :
        \/ Sema!Wait(t) \/ Sema!WaitCas(t) \/ Sema!SpinEnd(t) \/ Sema!WaitOp(t)
        \/ Sema!WaitSleep(t) \/ Sema!TryWait(t) \/ Sema!Post(t) \/ Sema!PostNotify(t)
  BY DEF Sema!Next
<1>2. CASE Sema!Wait(t) \/ Sema!SpinEnd(t)
  BY <1>2, SemaWaitInv
<1>3. CASE Sema!WaitCas(t) \/ Sema!WaitOp(t)
  BY <1>3, SemaTakeInv, SemaMissInv
<1>4. CASE Sema!WaitSleep(t)
  BY <1>4, SemaSleepInv
<1>5. CASE Sema!TryWait(t)
  BY <1>5, SemaTakeInv
<1>6. CASE Sema!Post(t)
  BY <1>6, SemaPostInv
<1>7. CASE Sema!PostNotify(t)
  BY <1>7, SemaNotifyInv
<1>8. QED
  BY <1>1, <1>2, <1>3, <1>4, <1>5, <1>6, <1>7

(***************************************************************************)
(* The invariant holds of a new semaphore.                                 *)
(***************************************************************************)
LEMMA SemaInit ==
  ASSUME Sema!Init
  PROVE  SemaInv
<1>1. /\ sword = [value |-> Permits, waiters |-> 0] /\ hpc = [t \in Workers |-> "idle"]
      /\ sold = [t \in Workers |-> Sema!Zero] /\ waits = [t \in Workers |-> FALSE] /\ inside = {}
  BY DEF Sema!Init
<1>2. Permits \in Nat /\ Cardinality(Workers) \in Nat /\ Cardinality({}) = 0
  BY HostAssumption, FS_CardinalityType, FS_EmptySet
<1>3. {t \in Workers : waits[t]} = {} /\ Asleep = {} /\ Notifying = {}
  BY <1>1 DEF Asleep, Notifying
<1>4. Sema!WordCounts
  BY <1>1, <1>2, <1>3, SemaCardinality DEF Sema!WordCounts
<1>5. Sema!TypeOK
  <2>1. Permits \in 0..Permits + 1 /\ 0 \in 0..Permits + 1 /\ 0 \in 0..Cardinality(Workers)
    BY <1>2
  <2>2. sword \in Sema!Word /\ Sema!Zero \in Sema!Word
    BY <1>1, <2>1, SemaCardinality DEF Sema!Word, Sema!Zero
  <2>3. QED
    BY <1>1, <2>2 DEF Sema!TypeOK
<1>6. \A t \in Workers : SemaLocal(t)
  BY <1>1 DEF SemaLocal
<1>7. SemaTakers
  BY <1>2, <1>3 DEF SemaTakers
<1>8. QED
  BY <1>4, <1>5, <1>6, <1>7 DEF SemaInv

(***************************************************************************)
(* The invariant says that every permit has a taker.                       *)
(***************************************************************************)
LEMMA SemaPermitHasTaker ==
  ASSUME SemaInv
  PROVE  Sema!PermitHasTaker
<1> DEFINE A == {t \in Workers :
                   waits[t] /\ (hpc[t] = "op" \/ (hpc[t] = "sleep" /\ sword # sold[t]))}
<1>1. Sema!Takers = Cardinality(A) + Cardinality(Notifying)
  BY SemaCardinality DEF Sema!Takers, Notifying
<1>2. Cardinality(A) \in Nat
  <2>1. A \subseteq Workers
    OBVIOUS
  <2>2. QED
    BY <2>1, HostAssumption, FS_Subset, FS_CardinalityType
<1>3. CASE sword.value = 0
  BY <1>1, <1>2, <1>3, SemaTypes DEF Sema!PermitHasTaker
<1>4. CASE sword.value # 0
  <2>1. A = Awake
    BY <1>4 DEF Awake, SemaInv, SemaLocal
  <2>2. \/ sword.value <= Cardinality(Awake) + Cardinality(Notifying)
        \/ Cardinality(Asleep) <= Cardinality(Notifying)
    BY <1>4 DEF SemaInv, SemaTakers
  <2> HIDE DEF A
  <2>3. QED
    BY <1>1, <2>1, <2>2, SemaTypes DEF Sema!PermitHasTaker
<1>5. QED
  BY <1>3, <1>4

-----------------------------------------------------------------------------
(* GameRepository *)

\* Somebody refreshes, or is about to.
ThreadInv ==
  /\ starting # {} => rpc = "off" /\ needsRefresh
  /\ \A c, d \in starting : c = d
  /\ rpc # "off" => refreshRunning
  /\ rpc = "begin" => needsRefresh
  /\ needsRefresh => refreshRunning
  /\ leaving + Ind(refreshRunning) <= requests

\* Of the blocks that the refreshing thread waits for there is one at most.
PostsInv ==
  \A i \in 1..Len(posts) :
    /\ posts[i].op = "clear" => rpc = "clearing"
    /\ posts[i].op = "scanned" => rpc = "adding"
    /\ \A j \in 1..Len(posts) :
         posts[i].op \in {"clear", "scanned"} /\ posts[j].op \in {"clear", "scanned"} => i = j

\* A game is in the list, or a refresh will still come to it.
InSight(g) ==
  \/ g \in listed \/ needsRefresh \/ rpc = "clearing"
  \/ rpc \in {"scan", "adding"} /\ g \in todo
  \/ \E i \in 1..Len(posts) : posts[i].op = "scanned" /\ g \in posts[i].games

KnownInv == known \subseteq disk /\ \A g \in known : InSight(g)

\* Once nothing runs, the last block about the sign takes it away.
SignInv ==
  ~refreshRunning /\ leaving = 0 =>
    /\ \A i \in 1..Len(posts) : posts[i].op = "show" =>
         \E j \in 1..Len(posts) : i < j /\ posts[j].op = "hide"
    /\ isRefreshing => \E j \in 1..Len(posts) : posts[j].op = "hide"

GamesInv == Repository!TypeOK /\ ThreadInv /\ PostsInv /\ KnownInv /\ SignInv

(***************************************************************************)
(* What the types give the proofs.                                         *)
(***************************************************************************)
LEMMA GamesTypes ==
  ASSUME GamesInv
  PROVE  /\ posts \in Seq(Repository!Blocks) /\ Len(posts) \in Nat /\ leaving \in Nat /\ requests \in Nat
         /\ leaving <= MaxRequests /\ requests <= MaxRequests /\ MaxRequests \in Nat
         /\ Ind(refreshRunning) \in {0, 1}
<1>1. /\ posts \in Seq(Repository!Blocks) /\ leaving \in 0..MaxRequests
      /\ requests \in 0..MaxRequests /\ MaxRequests \in Nat
  BY HostAssumption DEF GamesInv, Repository!TypeOK
<1>2. QED
  BY <1>1 DEF Ind

(***************************************************************************)
(* A block that is posted comes last.                                      *)
(***************************************************************************)
LEMMA PostLast ==
  ASSUME GamesInv, NEW o \in {"show", "hide", "clear", "scanned", "installed", "announced"},
         NEW s \in SUBSET Games,
         posts' = Append(posts, Repository!Block(o, s))
  PROVE  /\ posts' \in Seq(Repository!Blocks) /\ Len(posts') = Len(posts) + 1 /\ Len(posts) \in Nat
         /\ posts'[Len(posts) + 1].op = o /\ posts'[Len(posts) + 1].games = s
         /\ \A i \in 1..Len(posts') : i \in 1..Len(posts) \/ i = Len(posts) + 1
         /\ \A i \in 1..Len(posts) : posts'[i] = posts[i] /\ i \in 1..Len(posts')
         /\ Len(posts) + 1 \in 1..Len(posts')
<1>1. PICK b \in Repository!Blocks : b = Repository!Block(o, s) /\ b.op = o /\ b.games = s
  BY DEF Repository!Block, Repository!Blocks
<1>2. posts \in Seq(Repository!Blocks) /\ Len(posts) \in Nat /\ posts' = Append(posts, b)
  BY <1>1, GamesTypes
<1>3. QED
  BY <1>1, <1>2

(***************************************************************************)
(* queueRefresh: the request is recorded, and a refresh is begun unless    *)
(* one runs.                                                               *)
(***************************************************************************)
LEMMA RequestInv ==
  ASSUME GamesInv, NEW c \in Callers, Repository!Request(c)
  PROVE  GamesInv'
<1>1. /\ c \notin starting /\ requests < MaxRequests /\ requests' = requests + 1
      /\ known' = known \union disk /\ needsRefresh' = TRUE /\ refreshRunning' = TRUE
      /\ starting' = IF refreshRunning THEN starting ELSE starting \union {c}
      /\ UNCHANGED <<isRefreshing, posts, rpc, todo, leaving, listed, deleting, disk, fresh>>
  BY DEF Repository!Request
<1>2. requests \in Nat /\ leaving \in Nat /\ MaxRequests \in Nat /\ Ind(refreshRunning) \in {0, 1}
  BY GamesTypes
<1>3. Repository!TypeOK'
  <2>1. requests' \in 0..MaxRequests
    BY <1>1, <1>2
  <2>2. starting' \subseteq Callers /\ known' \subseteq Games
    BY <1>1 DEF GamesInv, Repository!TypeOK
  <2>3. QED
    BY <1>1, <2>1, <2>2 DEF GamesInv, Repository!TypeOK
<1>4. ThreadInv'
  <2>1. leaving' + Ind(refreshRunning') <= requests'
    <3>1. Ind(refreshRunning') = 1
      BY <1>1 DEF Ind
    <3>2. leaving + Ind(refreshRunning) <= requests
      BY DEF GamesInv, ThreadInv
    <3>3. QED
      BY <1>1, <1>2, <3>1, <3>2
  <2>2. /\ starting' # {} => rpc' = "off"
        /\ \A d, e \in starting' : d = e
    <3>1. CASE refreshRunning
      BY <1>1, <3>1 DEF GamesInv, ThreadInv
    <3>2. CASE ~refreshRunning
      <4>1. starting = {} /\ rpc = "off"
        BY <3>2 DEF GamesInv, ThreadInv
      <4>2. QED
        BY <1>1, <3>2, <4>1
    <3>3. QED
      BY <3>1, <3>2
  <2>3. QED
    BY <1>1, <2>1, <2>2 DEF ThreadInv
<1>5. PostsInv'
  BY <1>1 DEF GamesInv, PostsInv
<1>6. KnownInv'
  BY <1>1 DEF GamesInv, KnownInv, InSight
<1>7. SignInv'
  BY <1>1 DEF SignInv
<1>8. QED
  BY <1>3, <1>4, <1>5, <1>6, <1>7 DEF GamesInv

(***************************************************************************)
(* The refreshing thread is started.                                       *)
(***************************************************************************)
LEMMA StartInv ==
  ASSUME GamesInv, NEW c \in Callers, Repository!StartRefresh(c)
  PROVE  GamesInv'
<1>1. /\ c \in starting /\ starting' = starting \ {c} /\ rpc' = "begin"
      /\ UNCHANGED <<needsRefresh, refreshRunning, todo, leaving, listed, deleting, disk, fresh,
                     requests, known>>
      /\ \/ isRefreshing' = TRUE /\ posts' = posts
         \/ isRefreshing' = isRefreshing /\ posts' = Append(posts, Repository!Block("show", {}))
  BY DEF Repository!StartRefresh
<1>2. /\ rpc = "off" /\ needsRefresh /\ refreshRunning /\ starting = {c}
  BY <1>1 DEF GamesInv, ThreadInv
<1>3. /\ posts' \in Seq(Repository!Blocks)
      /\ \A i \in 1..Len(posts') : (i \in 1..Len(posts) /\ posts'[i] = posts[i]) \/ posts'[i].op = "show"
  <2>1. CASE posts' = posts
    BY <2>1, GamesTypes
  <2>2. CASE posts' = Append(posts, Repository!Block("show", {}))
    <3>1. PICK o \in {"show", "hide", "clear", "scanned", "installed", "announced"}, s \in SUBSET Games :
            o = "show" /\ s = {}
      OBVIOUS
    <3>2. posts' = Append(posts, Repository!Block(o, s))
      BY <2>2, <3>1
    <3>3. /\ posts' \in Seq(Repository!Blocks) /\ posts'[Len(posts) + 1].op = o
          /\ \A i \in 1..Len(posts') : i \in 1..Len(posts) \/ i = Len(posts) + 1
          /\ \A i \in 1..Len(posts) : posts'[i] = posts[i]
      BY <3>2, PostLast
    <3>4. QED
      BY <3>1, <3>3
  <2>3. QED
    BY <1>1, <2>1, <2>2
<1>4. Repository!TypeOK'
  <2>1. isRefreshing' \in BOOLEAN
    BY <1>1, Zenon DEF GamesInv, Repository!TypeOK
  <2>2. QED
    BY <1>1, <1>3, <2>1 DEF GamesInv, Repository!TypeOK
<1>5. ThreadInv'
  <2>1. leaving' + Ind(refreshRunning') <= requests'
    BY <1>1 DEF GamesInv, ThreadInv
  <2>2. QED
    BY <1>1, <1>2, <2>1 DEF ThreadInv
<1>6. PostsInv'
  <2>1. \A i \in 1..Len(posts) : posts[i].op \notin {"clear", "scanned"}
    BY <1>2 DEF GamesInv, PostsInv
  <2>2. \A i \in 1..Len(posts') : posts'[i].op \notin {"clear", "scanned"}
    BY <1>3, <2>1
  <2>3. QED
    BY <1>1, <2>2 DEF PostsInv
<1>7. KnownInv'
  BY <1>1, <1>2 DEF GamesInv, KnownInv, InSight
<1>8. SignInv'
  BY <1>1, <1>2 DEF SignInv
<1>9. QED
  BY <1>4, <1>5, <1>6, <1>7, <1>8 DEF GamesInv

(***************************************************************************)
(* A refresh takes the request up and clears the list.                     *)
(***************************************************************************)
LEMMA RefreshBeginInv ==
  ASSUME GamesInv, Repository!RefreshBegin
  PROVE  GamesInv'
<1>1. /\ rpc = "begin" /\ needsRefresh' = FALSE /\ rpc' = "clearing"
      /\ posts' = Append(posts, Repository!Block("clear", {}))
      /\ UNCHANGED <<refreshRunning, isRefreshing, starting, todo, leaving, listed, deleting, disk, fresh,
                     requests, known>>
  BY DEF Repository!RefreshBegin
<1>2. refreshRunning /\ starting = {}
  BY <1>1 DEF GamesInv, ThreadInv
<1>3. PICK o \in {"show", "hide", "clear", "scanned", "installed", "announced"}, s \in SUBSET Games :
        o = "clear" /\ s = {}
  OBVIOUS
<1>4. /\ posts' \in Seq(Repository!Blocks) /\ posts'[Len(posts) + 1].op = "clear"
      /\ \A i \in 1..Len(posts') : i \in 1..Len(posts) \/ i = Len(posts) + 1
      /\ \A i \in 1..Len(posts) : posts'[i] = posts[i]
  BY <1>1, <1>3, PostLast
<1>5. Repository!TypeOK'
  BY <1>1, <1>4 DEF GamesInv, Repository!TypeOK
<1>6. ThreadInv'
  <2>1. leaving' + Ind(refreshRunning') <= requests'
    BY <1>1 DEF GamesInv, ThreadInv
  <2>2. QED
    BY <1>1, <1>2, <2>1 DEF ThreadInv
<1>7. PostsInv'
  <2>1. \A i \in 1..Len(posts) : posts[i].op \notin {"clear", "scanned"}
    BY <1>1 DEF GamesInv, PostsInv
  <2>2. \A i \in 1..Len(posts') :
          /\ posts'[i].op # "scanned"
          /\ posts'[i].op = "clear" => i = Len(posts) + 1
    BY <1>4, <2>1
  <2>3. QED
    BY <1>1, <2>2 DEF PostsInv
<1>8. KnownInv'
  BY <1>1 DEF GamesInv, KnownInv, InSight
<1>9. SignInv'
  BY <1>1, <1>2 DEF SignInv
<1>10. QED
  BY <1>5, <1>6, <1>7, <1>8, <1>9 DEF GamesInv

(***************************************************************************)
(* The scan comes to a game.                                               *)
(***************************************************************************)
LEMMA ScanInv ==
  ASSUME GamesInv, NEW g \in Games, Repository!Scan(g)
  PROVE  GamesInv'
<1>1. /\ rpc = "scan" /\ g \in todo /\ todo' = todo \ {g}
      /\ UNCHANGED <<needsRefresh, refreshRunning, isRefreshing, starting, leaving, listed, deleting, disk,
                     fresh, requests, known>>
      /\ IF g \in disk THEN posts' = Append(posts, Repository!Block("scanned", {g})) /\ rpc' = "adding"
         ELSE posts' = posts /\ rpc' = rpc
  BY DEF Repository!Scan
<1>2. refreshRunning /\ starting = {}
  BY <1>1 DEF GamesInv, ThreadInv
<1>3. \A i \in 1..Len(posts) : posts[i].op \notin {"clear", "scanned"}
  BY <1>1 DEF GamesInv, PostsInv
<1>4. ThreadInv'
  <2>1. leaving' + Ind(refreshRunning') <= requests'
    BY <1>1 DEF GamesInv, ThreadInv
  <2>2. rpc' # "begin" /\ starting' = {} /\ refreshRunning'
    BY <1>1, <1>2
  <2>3. needsRefresh' => refreshRunning'
    BY <2>2
  <2>4. QED
    BY <2>1, <2>2, <2>3 DEF ThreadInv
<1>5. SignInv'
  BY <1>1, <1>2 DEF SignInv
<1>6. CASE g \in disk
  <2>1. PICK o \in {"show", "hide", "clear", "scanned", "installed", "announced"}, s \in SUBSET Games :
          o = "scanned" /\ s = {g}
    OBVIOUS
  <2>2. /\ posts' \in Seq(Repository!Blocks) /\ posts'[Len(posts) + 1].op = "scanned"
        /\ posts'[Len(posts) + 1].games = {g} /\ Len(posts) + 1 \in 1..Len(posts')
        /\ \A i \in 1..Len(posts') : i \in 1..Len(posts) \/ i = Len(posts) + 1
        /\ \A i \in 1..Len(posts) : posts'[i] = posts[i]
    BY <1>1, <1>6, <2>1, PostLast
  <2>3. Repository!TypeOK'
    BY <1>1, <1>6, <2>2 DEF GamesInv, Repository!TypeOK
  <2>4. PostsInv'
    <3>1. \A i \in 1..Len(posts') :
            /\ posts'[i].op # "clear"
            /\ posts'[i].op = "scanned" => i = Len(posts) + 1
      BY <1>3, <2>2
    <3>2. QED
      BY <1>1, <1>6, <3>1 DEF PostsInv
  <2>5. KnownInv'
    <3>1. ASSUME NEW h \in known PROVE InSight(h)'
      <4>1. h \in listed \/ needsRefresh \/ h \in todo
        BY <1>1, <1>3 DEF GamesInv, KnownInv, InSight
      <4>2. CASE h = g
        BY <2>2, <4>2 DEF InSight
      <4>3. CASE h # g
        BY <1>1, <1>6, <4>1, <4>3 DEF InSight
      <4>4. QED
        BY <4>2, <4>3
    <3>2. QED
      BY <1>1, <3>1 DEF GamesInv, KnownInv
  <2>6. QED
    BY <1>4, <1>5, <2>3, <2>4, <2>5 DEF GamesInv
<1>7. CASE g \notin disk
  <2>1. Repository!TypeOK'
    BY <1>1, <1>7 DEF GamesInv, Repository!TypeOK
  <2>2. PostsInv'
    BY <1>1, <1>7 DEF GamesInv, PostsInv
  <2>3. KnownInv'
    <3>1. ASSUME NEW h \in known PROVE InSight(h)'
      <4>1. (h \in listed \/ needsRefresh \/ h \in todo) /\ h # g
        BY <1>1, <1>3, <1>7 DEF GamesInv, KnownInv, InSight
      <4>2. QED
        BY <1>1, <1>7, <4>1 DEF InSight
    <3>2. QED
      BY <1>1, <3>1 DEF GamesInv, KnownInv
  <2>4. QED
    BY <1>4, <1>5, <2>1, <2>2, <2>3 DEF GamesInv
<1>8. QED
  BY <1>6, <1>7

(***************************************************************************)
(* The scan is at its end: once more, or the thread leaves its loop.       *)
(***************************************************************************)
LEMMA RefreshEndInv ==
  ASSUME GamesInv, Repository!RefreshEnd
  PROVE  GamesInv'
<1>1. /\ rpc = "scan" /\ todo = {}
      /\ UNCHANGED <<needsRefresh, isRefreshing, posts, starting, todo, listed, deleting, disk, fresh,
                     requests, known>>
      /\ IF needsRefresh THEN rpc' = "begin" /\ refreshRunning' = refreshRunning /\ leaving' = leaving
         ELSE rpc' = "off" /\ refreshRunning' = FALSE /\ leaving' = leaving + 1
  BY DEF Repository!RefreshEnd
<1>2. /\ refreshRunning /\ starting = {} /\ leaving + Ind(refreshRunning) <= requests
      /\ leaving \in Nat /\ requests \in Nat /\ requests <= MaxRequests /\ MaxRequests \in Nat
  BY <1>1, GamesTypes DEF GamesInv, ThreadInv
<1>3. Ind(refreshRunning) = 1
  BY <1>2 DEF Ind
<1>4. \A i \in 1..Len(posts) : posts[i].op \notin {"clear", "scanned"}
  BY <1>1 DEF GamesInv, PostsInv
<1>5. leaving' + Ind(refreshRunning') <= requests /\ leaving' \in 0..MaxRequests
  <2>0. leaving + 1 <= requests
    BY <1>2, <1>3
  <2>1. CASE needsRefresh
    <3>1. Ind(refreshRunning') = 1 /\ leaving' = leaving
      BY <1>1, <1>2, <2>1 DEF Ind
    <3>2. QED
      BY <1>2, <2>0, <3>1
  <2>2. CASE ~needsRefresh
    <3>1. Ind(refreshRunning') = 0 /\ leaving' = leaving + 1
      BY <1>1, <2>2 DEF Ind
    <3>2. leaving + 1 \in Nat
      BY <1>2
    <3>3. QED
      BY <1>2, <2>0, <3>1, <3>2
  <2>3. QED
    BY <2>1, <2>2
<1>6. Repository!TypeOK'
  <2>1. refreshRunning' \in BOOLEAN
    BY <1>1, Zenon DEF GamesInv, Repository!TypeOK
  <2>2. QED
    BY <1>1, <1>5, <2>1 DEF GamesInv, Repository!TypeOK
<1>7. ThreadInv'
  BY <1>1, <1>2, <1>5 DEF ThreadInv
<1>8. PostsInv'
  BY <1>1, <1>4 DEF GamesInv, PostsInv
<1>9. KnownInv'
  <2>1. \A h \in known : h \in listed \/ needsRefresh
    BY <1>1, <1>4 DEF GamesInv, KnownInv, InSight
  <2>2. QED
    BY <1>1, <2>1 DEF GamesInv, KnownInv, InSight
<1>10. SignInv'
  <2>1. refreshRunning' \/ leaving' # 0
    <3>1. leaving + 1 # 0
      BY <1>2
    <3>2. QED
      BY <1>1, <1>2, <3>1
  <2>2. QED
    BY <2>1 DEF SignInv
<1>11. QED
  BY <1>6, <1>7, <1>8, <1>9, <1>10 DEF GamesInv

(***************************************************************************)
(* A thread that has left its loop has the sign taken away.                *)
(***************************************************************************)
LEMMA RefreshLeaveInv ==
  ASSUME GamesInv, Repository!RefreshLeave
  PROVE  GamesInv'
<1>1. /\ leaving > 0 /\ leaving' = leaving - 1
      /\ posts' = Append(posts, Repository!Block("hide", {}))
      /\ UNCHANGED <<needsRefresh, refreshRunning, isRefreshing, starting, rpc, todo, listed, deleting, disk,
                     fresh, requests, known>>
  BY DEF Repository!RefreshLeave
<1>2. PICK o \in {"show", "hide", "clear", "scanned", "installed", "announced"}, s \in SUBSET Games :
        o = "hide" /\ s = {}
  OBVIOUS
<1>3. /\ posts' \in Seq(Repository!Blocks) /\ posts'[Len(posts) + 1].op = "hide"
      /\ Len(posts) + 1 \in 1..Len(posts') /\ Len(posts) \in Nat
      /\ \A i \in 1..Len(posts') : i \in 1..Len(posts) \/ i = Len(posts) + 1
      /\ \A i \in 1..Len(posts) : posts'[i] = posts[i] /\ i \in 1..Len(posts')
  BY <1>1, <1>2, PostLast
<1>4. leaving' \in 0..MaxRequests /\ leaving' + Ind(refreshRunning') <= requests
  <2>1. leaving + Ind(refreshRunning) <= requests
    BY DEF GamesInv, ThreadInv
  <2>2. QED
    BY <1>1, <2>1, GamesTypes
<1>5. Repository!TypeOK'
  BY <1>1, <1>3, <1>4 DEF GamesInv, Repository!TypeOK
<1>6. ThreadInv'
  BY <1>1, <1>4 DEF GamesInv, ThreadInv
<1>7. PostsInv'
  <2>1. \A i \in 1..Len(posts') : posts'[i].op # "hide" => i \in 1..Len(posts) /\ posts'[i] = posts[i]
    BY <1>3
  <2>2. QED
    BY <1>1, <2>1 DEF GamesInv, PostsInv
<1>8. KnownInv'
  BY <1>1, <1>3 DEF GamesInv, KnownInv, InSight
<1>9. SignInv'
  <2>1. ASSUME NEW i \in 1..Len(posts'), posts'[i].op = "show" PROVE i < Len(posts) + 1
    BY <1>3, <2>1
  <2>2. QED
    BY <1>3, <2>1 DEF SignInv
<1>10. QED
  BY <1>5, <1>6, <1>7, <1>8, <1>9 DEF GamesInv

(***************************************************************************)
(* The main thread runs a block.                                           *)
(***************************************************************************)
LEMMA MainRunInv ==
  ASSUME GamesInv, Repository!MainRun
  PROVE  GamesInv'
<1> DEFINE b == Head(posts)
<1>1. /\ posts # <<>> /\ posts' = Tail(posts)
      /\ isRefreshing' = CASE b.op = "show" -> TRUE [] b.op = "hide" -> FALSE
                           [] OTHER -> isRefreshing
      /\ listed' = IF b.op = "clear" THEN {} ELSE listed \union b.games
      /\ deleting' = IF b.op = "clear" THEN {} ELSE deleting
      /\ rpc' = IF b.op \in {"clear", "scanned"} THEN "scan" ELSE rpc
      /\ todo' = IF b.op = "clear" THEN Games ELSE todo
      /\ known' = IF b.op = "installed" THEN known \union (b.games \cap disk) ELSE known
      /\ UNCHANGED <<needsRefresh, refreshRunning, starting, leaving, disk, fresh, requests>>
  BY DEF Repository!MainRun
<1>2. posts \in Seq(Repository!Blocks) /\ Len(posts) \in Nat
  BY GamesTypes
<1>3. /\ Len(posts) >= 1 /\ b \in Repository!Blocks /\ posts' \in Seq(Repository!Blocks)
      /\ Len(posts') = Len(posts) - 1 /\ 1 \in 1..Len(posts) /\ posts[1] = b
      /\ \A i \in 1..Len(posts') : posts'[i] = posts[i + 1] /\ i + 1 \in 1..Len(posts)
  BY <1>1, <1>2
<1>4. \A i \in 1..Len(posts) : i # 1 => /\ i - 1 \in 1..Len(posts') /\ posts'[i - 1] = posts[i]
                                        /\ (i - 1) + 1 = i
  <2>1. SUFFICES ASSUME NEW i \in 1..Len(posts), i # 1
                 PROVE  i - 1 \in 1..Len(posts') /\ posts'[i - 1] = posts[i] /\ (i - 1) + 1 = i
    OBVIOUS
  <2>2. i - 1 \in 1..Len(posts') /\ (i - 1) + 1 = i
    BY <1>2, <1>3, <2>1
  <2>3. QED
    BY <1>3, <2>2
<1> HIDE DEF b
<1>5. b.games \subseteq Games /\ b.op \in {"show", "hide", "clear", "scanned", "installed", "announced"}
  BY <1>3 DEF Repository!Blocks
<1>6. /\ b.op = "clear" => rpc = "clearing"
      /\ b.op = "scanned" => rpc = "adding"
      /\ b.op \in {"clear", "scanned"} =>
           \A j \in 1..Len(posts) : j # 1 => posts[j].op \notin {"clear", "scanned"}
  BY <1>3 DEF GamesInv, PostsInv
<1>7. Repository!TypeOK'
  <2>1. isRefreshing' \in BOOLEAN
    <3>1. isRefreshing \in BOOLEAN
      BY DEF GamesInv, Repository!TypeOK
    <3>2. CASE b.op = "show"
      BY <1>1, <3>2
    <3>3. CASE b.op = "hide"
      BY <1>1, <3>3
    <3>4. CASE b.op \notin {"show", "hide"}
      BY <1>1, <3>1, <3>4
    <3>5. QED
      BY <3>2, <3>3, <3>4
  <2>2. /\ listed' \subseteq Games /\ todo' \subseteq Games /\ known' \subseteq Games
        /\ deleting' \subseteq listed'
    BY <1>1, <1>5 DEF GamesInv, Repository!TypeOK
  <2>3. rpc' \in {"off", "begin", "clearing", "scan", "adding"}
    BY <1>1 DEF GamesInv, Repository!TypeOK
  <2>4. QED
    BY <1>1, <1>3, <2>1, <2>2, <2>3 DEF GamesInv, Repository!TypeOK
<1>8. ThreadInv'
  <2>1. leaving' + Ind(refreshRunning') <= requests'
    BY <1>1 DEF GamesInv, ThreadInv
  <2>2. /\ rpc' = "begin" => rpc = "begin"
        /\ rpc' # "off" => rpc # "off"
        /\ rpc = "off" => rpc' = "off"
    BY <1>1, <1>6
  <2>3. QED
    BY <1>1, <2>1, <2>2 DEF GamesInv, ThreadInv
<1>9. PostsInv'
  <2>1. SUFFICES ASSUME NEW i \in 1..Len(posts')
                 PROVE  /\ posts'[i].op = "clear" => rpc' = "clearing"
                        /\ posts'[i].op = "scanned" => rpc' = "adding"
                        /\ \A j \in 1..Len(posts') :
                             posts'[i].op \in {"clear", "scanned"} /\ posts'[j].op \in {"clear", "scanned"}
                               => i = j
    BY DEF PostsInv
  <2>2. posts'[i] = posts[i + 1] /\ i + 1 \in 1..Len(posts) /\ i + 1 # 1
    BY <1>2, <1>3
  <2>3. posts'[i].op \in {"clear", "scanned"} => rpc' = rpc
    BY <1>1, <1>6, <2>2
  <2>4. \A j \in 1..Len(posts') :
          posts'[i].op \in {"clear", "scanned"} /\ posts'[j].op \in {"clear", "scanned"} => i = j
    <3>1. SUFFICES ASSUME NEW j \in 1..Len(posts'), posts'[i].op \in {"clear", "scanned"},
                          posts'[j].op \in {"clear", "scanned"}
                   PROVE  i = j
      OBVIOUS
    <3>2. posts'[j] = posts[j + 1] /\ j + 1 \in 1..Len(posts)
      BY <1>3
    <3>3. i + 1 = j + 1
      BY <2>2, <3>1, <3>2 DEF GamesInv, PostsInv
    <3>4. QED
      BY <3>3
  <2>5. QED
    BY <1>1, <2>2, <2>3, <2>4 DEF GamesInv, PostsInv
<1>10. KnownInv'
  <2>1. known' \subseteq disk'
    BY <1>1 DEF GamesInv, KnownInv
  <2>2. ASSUME NEW g \in known' PROVE InSight(g)'
    <3>1. CASE b.op = "clear"
      <4>1. g \in Games /\ g \in todo' /\ rpc' = "scan"
        BY <1>1, <1>7, <3>1 DEF Repository!TypeOK
      <4>2. QED
        BY <4>1 DEF InSight
    <3>2. CASE b.op # "clear" /\ g \in b.games
      BY <1>1, <3>2 DEF InSight
    <3>3. CASE b.op # "clear" /\ g \notin b.games
      <4>1. /\ g \in known /\ listed \subseteq listed' /\ todo' = todo /\ needsRefresh' = needsRefresh
            /\ InSight(g)
        BY <1>1, <3>3 DEF GamesInv, KnownInv
      <4>2. CASE g \in listed \/ needsRefresh
        BY <4>1, <4>2 DEF InSight
      <4>3. CASE rpc = "clearing"
        <5>1. rpc' = "clearing"
          BY <1>1, <1>6, <3>3, <4>3
        <5>2. QED
          BY <5>1 DEF InSight
      <4>4. CASE rpc \in {"scan", "adding"} /\ g \in todo
        <5>1. rpc' \in {"scan", "adding"}
          BY <1>1, <4>4
        <5>2. QED
          BY <4>1, <4>4, <5>1 DEF InSight
      <4>5. ASSUME NEW i \in 1..Len(posts), posts[i].op = "scanned", g \in posts[i].games
            PROVE  InSight(g)'
        <5>1. i # 1
          BY <1>3, <3>3, <4>5
        <5>2. i - 1 \in 1..Len(posts') /\ posts'[i - 1] = posts[i]
          BY <1>4, <5>1
        <5>3. QED
          BY <4>5, <5>2 DEF InSight
      <4>6. QED
        BY <4>1, <4>2, <4>3, <4>4, <4>5 DEF InSight
    <3>4. QED
      BY <3>1, <3>2, <3>3
  <2>3. QED
    BY <1>1, <2>1, <2>2 DEF GamesInv, KnownInv
<1>11. SignInv'
  <2>1. SUFFICES ASSUME ~refreshRunning, leaving = 0
                 PROVE  /\ \A i \in 1..Len(posts') : posts'[i].op = "show" =>
                             \E j \in 1..Len(posts') : i < j /\ posts'[j].op = "hide"
                        /\ isRefreshing' => \E j \in 1..Len(posts') : posts'[j].op = "hide"
    BY <1>1 DEF SignInv
  <2>2. /\ \A i \in 1..Len(posts) : posts[i].op = "show" =>
             \E j \in 1..Len(posts) : i < j /\ posts[j].op = "hide"
        /\ isRefreshing => \E j \in 1..Len(posts) : posts[j].op = "hide"
    BY <2>1 DEF GamesInv, SignInv
  <2>3. ASSUME NEW i \in 1..Len(posts'), posts'[i].op = "show"
        PROVE  \E j \in 1..Len(posts') : i < j /\ posts'[j].op = "hide"
    <3>1. posts[i + 1].op = "show" /\ i + 1 \in 1..Len(posts)
      BY <1>3, <2>3
    <3>2. PICK k \in 1..Len(posts) : i + 1 < k /\ posts[k].op = "hide"
      BY <2>2, <3>1
    <3>3. k # 1 /\ i < k - 1
      BY <1>2, <3>2
    <3>4. k - 1 \in 1..Len(posts') /\ posts'[k - 1] = posts[k]
      BY <1>4, <3>3
    <3>5. QED
      BY <3>2, <3>3, <3>4
  <2>4. ASSUME isRefreshing' PROVE \E j \in 1..Len(posts') : posts'[j].op = "hide"
    <3>1. b.op # "hide" /\ (b.op = "show" \/ isRefreshing)
      BY <1>1, <1>5, <2>4
    <3>2. PICK k \in 1..Len(posts) : posts[k].op = "hide"
      <4>1. CASE b.op = "show"
        <5>1. posts[1].op = "show" /\ 1 \in 1..Len(posts)
          BY <1>3, <4>1
        <5>2. QED
          BY <2>2, <5>1
      <4>2. CASE isRefreshing
        BY <2>2, <4>2
      <4>3. QED
        BY <3>1, <4>1, <4>2
    <3>3. k # 1
      BY <1>3, <3>1, <3>2
    <3>4. k - 1 \in 1..Len(posts') /\ posts'[k - 1] = posts[k]
      BY <1>4, <3>3
    <3>5. QED
      BY <3>2, <3>4
  <2>5. QED
    BY <2>3, <2>4
<1>12. QED
  BY <1>7, <1>8, <1>9, <1>10, <1>11 DEF GamesInv

(***************************************************************************)
(* A game is added, wherever it is.                                        *)
(***************************************************************************)
LEMMA AddInv ==
  ASSUME GamesInv, NEW o \in {"installed", "announced"}, NEW g \in Games,
         posts' = Append(posts, Repository!Block(o, {g})), fresh' \subseteq fresh,
         UNCHANGED <<needsRefresh, refreshRunning, isRefreshing, starting, rpc, todo, leaving,
                     listed, deleting, disk, requests, known>>
  PROVE  GamesInv'
<1>1. /\ needsRefresh' = needsRefresh /\ refreshRunning' = refreshRunning
      /\ isRefreshing' = isRefreshing /\ starting' = starting /\ rpc' = rpc /\ todo' = todo
      /\ leaving' = leaving /\ listed' = listed /\ deleting' = deleting /\ disk' = disk
      /\ requests' = requests /\ known' = known
  OBVIOUS
<1>2. PICK s \in SUBSET Games : s = {g}
  OBVIOUS
<1>3. /\ posts' \in Seq(Repository!Blocks) /\ posts'[Len(posts) + 1].op = o
      /\ \A i \in 1..Len(posts') : i \in 1..Len(posts) \/ i = Len(posts) + 1
      /\ \A i \in 1..Len(posts) : posts'[i] = posts[i] /\ i \in 1..Len(posts')
  <2>1. posts' = Append(posts, Repository!Block(o, s))
    BY <1>2
  <2>2. o \in {"show", "hide", "clear", "scanned", "installed", "announced"}
    OBVIOUS
  <2>3. QED
    BY <2>1, <2>2, PostLast
<1>4. \A i \in 1..Len(posts') : \/ i \in 1..Len(posts) /\ posts'[i] = posts[i]
                                \/ posts'[i].op \notin {"show", "hide", "clear", "scanned"}
  BY <1>3
<1>5. Repository!TypeOK'
  BY <1>1, <1>3 DEF GamesInv, Repository!TypeOK
<1>6. ThreadInv'
  BY <1>1 DEF GamesInv, ThreadInv
<1>7. PostsInv'
  BY <1>1, <1>4 DEF GamesInv, PostsInv
<1>8. KnownInv'
  BY <1>1, <1>3 DEF GamesInv, KnownInv, InSight
<1>9. SignInv'
  <2>1. SUFFICES ASSUME ~refreshRunning', leaving' = 0
                 PROVE  /\ \A i \in 1..Len(posts') : posts'[i].op = "show" =>
                             \E j \in 1..Len(posts') : i < j /\ posts'[j].op = "hide"
                        /\ isRefreshing' => \E j \in 1..Len(posts') : posts'[j].op = "hide"
    BY DEF SignInv
  <2>2. /\ \A i \in 1..Len(posts) : posts[i].op = "show" =>
             \E j \in 1..Len(posts) : i < j /\ posts[j].op = "hide"
        /\ isRefreshing => \E j \in 1..Len(posts) : posts[j].op = "hide"
    BY <1>1, <2>1 DEF GamesInv, SignInv
  <2>3. \A i \in 1..Len(posts') : posts'[i].op = "show" => i \in 1..Len(posts) /\ posts[i].op = "show"
    BY <1>4
  <2>4. QED
    BY <1>1, <1>3, <2>2, <2>3
<1>10. QED
  BY <1>5, <1>6, <1>7, <1>8, <1>9 DEF GamesInv

(***************************************************************************)
(* A game comes into its directory, or the user deletes one.               *)
(***************************************************************************)
LEMMA FilesInv ==
  ASSUME GamesInv, NEW g \in Games,
         Repository!Install(g) \/ Repository!Delete(g) \/ Repository!RemoveGame(g)
  PROVE  GamesInv'
<1>1. /\ needsRefresh' = needsRefresh /\ refreshRunning' = refreshRunning
      /\ isRefreshing' = isRefreshing /\ posts' = posts /\ starting' = starting /\ rpc' = rpc
      /\ todo' = todo /\ leaving' = leaving /\ requests' = requests
  BY DEF Repository!Install, Repository!Delete, Repository!RemoveGame
<1>2. /\ known' \subseteq known /\ (known \subseteq disk => known' \subseteq disk')
      /\ \A h \in known' : h \in listed => h \in listed'
      /\ listed' \subseteq listed /\ disk' \subseteq disk \union {g} /\ fresh' \subseteq fresh \union {g}
      /\ (deleting \subseteq listed => deleting' \subseteq listed')
  BY DEF Repository!Install, Repository!Delete, Repository!RemoveGame
<1>3. Repository!TypeOK'
  <2>1. /\ known' \subseteq Games /\ listed' \subseteq Games /\ disk' \subseteq Games
        /\ fresh' \subseteq Games /\ deleting' \subseteq listed'
    BY <1>2 DEF GamesInv, Repository!TypeOK
  <2>2. QED
    BY <1>1, <2>1 DEF GamesInv, Repository!TypeOK
<1>4. ThreadInv'
  BY <1>1 DEF GamesInv, ThreadInv
<1>5. PostsInv'
  BY <1>1 DEF GamesInv, PostsInv
<1>6. KnownInv'
  BY <1>1, <1>2 DEF GamesInv, KnownInv, InSight
<1>7. SignInv'
  BY <1>1 DEF GamesInv, SignInv
<1>8. QED
  BY <1>3, <1>4, <1>5, <1>6, <1>7 DEF GamesInv

(***************************************************************************)
(* Installations and imports add games, and the user deletes them.         *)
(***************************************************************************)
LEMMA InstallInv ==
  ASSUME GamesInv, NEW g \in Games,
         \/ Repository!Install(g) \/ Repository!InstallReport(g) \/ Repository!Announce(g)
         \/ Repository!Delete(g) \/ Repository!RemoveGame(g)
  PROVE  GamesInv'
<1>1. CASE Repository!InstallReport(g)
  <2>1. PICK o \in {"installed", "announced"} : o = "installed"
    OBVIOUS
  <2>2. QED
    BY <1>1, <2>1, AddInv DEF Repository!InstallReport
<1>2. CASE Repository!Announce(g)
  <2>1. PICK o \in {"installed", "announced"} : o = "announced"
    OBVIOUS
  <2>2. QED
    BY <1>2, <2>1, AddInv DEF Repository!Announce
<1>3. QED
  BY <1>1, <1>2, FilesInv

(***************************************************************************)
(* Every step keeps the invariant of the list.                             *)
(***************************************************************************)
LEMMA GamesNextInv ==
  ASSUME GamesInv, Repository!Next
  PROVE  GamesInv'
<1>1. CASE \E c \in Callers : Repository!Request(c)
  BY <1>1, RequestInv
<1>2. CASE Repository!RefreshThreads
  BY <1>2, StartInv, RefreshBeginInv, ScanInv, RefreshEndInv, RefreshLeaveInv
     DEF Repository!RefreshThreads
<1>3. CASE Repository!MainRun
  BY <1>3, MainRunInv
<1>4. CASE \E g \in Games : \/ Repository!Install(g) \/ Repository!InstallReport(g)
                            \/ Repository!Announce(g) \/ Repository!Delete(g)
                            \/ Repository!RemoveGame(g)
  BY <1>4, InstallInv
<1>5. QED
  BY <1>1, <1>2, <1>3, <1>4 DEF Repository!Next

(***************************************************************************)
(* The invariant holds when the application starts.                        *)
(***************************************************************************)
LEMMA GamesInit ==
  ASSUME Repository!Init
  PROVE  GamesInv
<1>1. /\ needsRefresh = FALSE /\ refreshRunning = FALSE /\ isRefreshing = FALSE /\ posts = <<>>
      /\ starting = {} /\ rpc = "off" /\ todo = {} /\ leaving = 0 /\ listed = {} /\ disk = {}
      /\ deleting = {} /\ fresh = {} /\ requests = 0 /\ known = {}
  BY DEF Repository!Init
<1>2. Len(posts) = 0 /\ posts \in Seq(Repository!Blocks) /\ 0 \in 0..MaxRequests
  BY <1>1, HostAssumption
<1>3. Repository!TypeOK
  BY <1>1, <1>2 DEF Repository!TypeOK
<1>4. ThreadInv
  BY <1>1 DEF ThreadInv, Ind
<1>5. PostsInv /\ SignInv
  BY <1>1, <1>2 DEF PostsInv, SignInv
<1>6. KnownInv
  BY <1>1 DEF KnownInv
<1>7. QED
  BY <1>3, <1>4, <1>5, <1>6 DEF GamesInv

(***************************************************************************)
(* The invariant says that no game is missed and that the sign settles.    *)
(***************************************************************************)
LEMMA GamesComplete ==
  ASSUME GamesInv
  PROVE  Repository!NoGameMissed /\ Repository!SignSettles
<1>1. Repository!NoGameMissed
  <2>1. SUFFICES ASSUME ~refreshRunning, NEW g \in known PROVE g \in listed
    BY DEF Repository!NoGameMissed
  <2>2. rpc = "off" /\ ~needsRefresh
    BY <2>1 DEF GamesInv, ThreadInv
  <2>3. \A i \in 1..Len(posts) : posts[i].op # "scanned"
    BY <2>2 DEF GamesInv, PostsInv
  <2>4. QED
    BY <2>2, <2>3 DEF GamesInv, KnownInv, InSight
<1>2. Repository!SignSettles
  <2>1. SUFFICES ASSUME ~refreshRunning, leaving = 0, posts = <<>> PROVE ~isRefreshing
    BY DEF Repository!SignSettles
  <2>2. Len(posts) = 0
    BY <2>1
  <2>3. QED
    BY <2>1, <2>2 DEF GamesInv, SignInv
<1>3. QED
  BY <1>1, <1>2

-----------------------------------------------------------------------------
(* The parts together *)

\* Each behaviour is about one of the parts, whose invariant it keeps.
HostInv ==
  /\ kind = "sema" => SemaInv
  /\ kind = "cond" => CondInv
  /\ kind = "compile" => CompileInv
  /\ kind = "calls" => CallsInv
  /\ kind = "games" => GamesInv

(***************************************************************************)
(* Every step of the callbacks keeps their invariant.                      *)
(***************************************************************************)
LEMMA CallsNextInv ==
  ASSUME CallsInv, Calls!Next
  PROVE  CallsInv'
<1>1. CASE Calls!InvokeAsync \/ \E c \in Callers :
             Calls!InvokeSync(c) \/ Calls!SyncTest(c) \/ Calls!SyncWake(c)
  BY <1>1, CallersInv
<1>2. CASE Calls!Process
  BY <1>2, CallsLookInv, CallsProcessInv DEF Calls!Process
<1>3. QED
  BY <1>1, <1>2 DEF Calls!Next

(***************************************************************************)
(* Every step of the compilation queue keeps its invariant.                *)
(***************************************************************************)
LEMMA CompileNextInv ==
  ASSUME CompileInv, Compile!Next
  PROVE  CompileInv'
<1>1. CASE \E p \in Pushers : Compile!Push(p) \/ Compile!PushTag(p)
  BY <1>1, CompilePushInv
<1>2. CASE Compile!Process
  BY <1>2, CompileWaitInv, CompilePopInv, CompileCompileInv DEF Compile!Process
<1>3. QED
  BY <1>1, <1>2 DEF Compile!Next

(***************************************************************************)
(* Nothing happens to the part that a behaviour is about.                  *)
(***************************************************************************)
LEMMA HostStutter ==
  ASSUME HostInv, UNCHANGED hostVars
  PROVE  HostInv'
<1>1. /\ kind' = kind /\ UNCHANGED semaVars /\ UNCHANGED condVars /\ UNCHANGED compileVars
      /\ UNCHANGED callVars /\ UNCHANGED gameVars
  BY DEF hostVars
<1>2. kind = "sema" => SemaInv'
  BY <1>1 DEF semaVars, HostInv, SemaInv, Sema!TypeOK, Sema!WordCounts, SemaLocal, SemaTakers,
     Awake, Asleep, Notifying
<1>3. kind = "cond" => CondInv'
  BY <1>1 DEF condVars, HostInv, CondInv, Cond!TypeOK, Cond!WaitersCounted, CondLocal, CondSeen,
     CondWoken
<1>4. kind = "compile" => CompileInv'
  BY <1>1 DEF compileVars, HostInv, CompileInv, InHand
<1>5. kind = "calls" => CallsInv'
  BY <1>1 DEF callVars, HostInv, CallsInv, Calls!TypeOK
<1>6. kind = "games" => GamesInv'
  BY <1>1 DEF gameVars, HostInv, GamesInv, Repository!TypeOK, ThreadInv, PostsInv, KnownInv, InSight,
     SignInv
<1>7. QED
  BY <1>1, <1>2, <1>3, <1>4, <1>5, <1>6 DEF HostInv

(***************************************************************************)
(* A step keeps the invariant of the part that the behaviour is about.     *)
(***************************************************************************)
LEMMA HostStep ==
  ASSUME HostInv, HostNext
  PROVE  HostInv'
<1>1. kind' = kind
  BY DEF HostNext
<1>2. kind = "sema" => Sema!Next
  BY DEF HostNext
<1>3. kind = "cond" => Cond!Next
  BY DEF HostNext
<1>4. kind = "compile" => Compile!Next
  BY DEF HostNext
<1>5. kind = "calls" => Calls!Next
  BY DEF HostNext
<1>6. kind = "games" => Repository!Next
  BY DEF HostNext
<1>7. QED
  BY <1>1, <1>2, <1>3, <1>4, <1>5, <1>6, SemaNextInv, CondNextInv, CompileNextInv, CallsNextInv,
     GamesNextInv DEF HostInv

(***************************************************************************)
(* The invariant of each part holds in every behaviour about it.           *)
(***************************************************************************)
THEOREM HostInvariance ==
  HostSpec => []HostInv
<1>1. HostInit => HostInv
  BY SemaInit, CondInit, CompileInit, CallsInit, GamesInit DEF HostInit, HostInv
<1>2. HostInv /\ [HostNext]_hostVars => HostInv'
  BY HostStep, HostStutter
<1>3. QED
  BY <1>1, <1>2, PTL DEF HostSpec

(***************************************************************************)
(* No wake-up is lost, for any number of threads, permits and workloads    *)
(* and at any limit of the counters: semaphore_base counts exactly and     *)
(* every permit has a taker although post does not always notify; no       *)
(* consumer of cond_variable sleeps through the arrival of data; the       *)
(* compilation queue compiles every workload once, in order, and leaves    *)
(* none behind.                                                            *)
(***************************************************************************)
THEOREM NoHostWakeupIsLost ==
  HostSpec => []HostNoWakeupLost
<1>1. HostInv => HostNoWakeupLost
  <2>1. SemaInv => Sema!TypeOK /\ Sema!WordCounts /\ Sema!PermitHasTaker
    BY SemaPermitHasTaker DEF SemaInv
  <2>2. CondInv => Cond!TypeOK /\ Cond!WaitersCounted /\ Cond!DataIsSeen
    BY CondDataIsSeen DEF CondInv
  <2>3. CompileInv => Compile!TypeOK /\ Compile!NoneStranded
    BY CompileNone
  <2>4. SUFFICES ASSUME HostInv PROVE HostNoWakeupLost
    OBVIOUS
  <2>5. CASE kind = "sema"
    BY <2>1, <2>4, <2>5 DEF HostInv, HostNoWakeupLost
  <2>6. CASE kind = "cond"
    BY <2>2, <2>4, <2>6 DEF HostInv, HostNoWakeupLost
  <2>7. CASE kind = "compile"
    BY <2>3, <2>4, <2>7 DEF HostInv, HostNoWakeupLost
  <2>8. CASE kind \notin {"sema", "cond", "compile"}
    BY <2>8 DEF HostNoWakeupLost
  <2>9. QED
    BY <2>5, <2>6, <2>7, <2>8
<1>2. QED
  BY <1>1, HostInvariance, PTL

(***************************************************************************)
(* invokeSync does not return before its callback has run, for any number  *)
(* of callers and callbacks and whatever wakes them.                       *)
(***************************************************************************)
THEOREM InvokeSyncIsSync ==
  HostSpec => []CallsSyncIsSync
<1>1. HostInv => CallsSyncIsSync
  BY CallsSync DEF HostInv, CallsSyncIsSync, CallsInv
<1>2. QED
  BY <1>1, HostInvariance, PTL

(***************************************************************************)
(* For any games and callers, no request to refresh is lost, and no game   *)
(* that is in the directories a refresh scans; games outside of them and   *)
(* ones not yet extracted may be added and dropped again.  The sign of a   *)
(* running refresh is taken away in the end.                               *)
(***************************************************************************)
THEOREM ListIsComplete ==
  HostSpec => []GamesListIsComplete
<1>1. HostInv => GamesListIsComplete
  BY GamesComplete DEF HostInv, GamesListIsComplete, GamesInv
<1>2. QED
  BY <1>1, HostInvariance, PTL

-----------------------------------------------------------------------------
(* The shortcut of the semaphores *)

\* Between the table's lock and the last access to the caches.
Creates == {"c_cached", "c_id", "c_obj", "c_max"}
Destroys == {"d_dead", "d_id", "d_obj"}
SpHolds == {"r_obj", "r_id"} \union Creates \union Destroys

\* Object o is the semaphore with identifier id.
Names(id, o) == o \in 1..Len(objs) /\ objs[o] = id

\* Object o is a semaphore whose entry is s.
Shares(s, o) == o \in 1..Len(objs) /\ objs[o] # NoId /\ Slot(objs[o]) = s

Gone(o) == \A i \in Indices : table[i].obj # o

TableInv == \A i \in Indices :
  table[i].obj # NoObj => Names([idx |-> i, gen |-> table[i].gen], table[i].obj)

FastInv == \A s \in 0..FastSlots - 1 : fast[s].obj # NoObj => Shares(s, fast[s].obj)

\* What a thread at l, with identifier a and object o, knows.
Knows(l, a, o) ==
  /\ l # "idle" => a \in Ids
  /\ l \in SpHolds => Names(a, o)
  /\ l \in Destroys => Gone(o)
  /\ l = "f_op" => Shares(Slot(a), o)

SharedInv ==
  /\ TypeOK /\ TableInv /\ FastInv /\ UncreatedIsTrue /\ DestroyedAreGone
  /\ \A t \in Threads : Knows(pc[t], arg[t], obj[t])

(***************************************************************************)
(* Identifiers, their entries and what they find.                          *)
(***************************************************************************)
LEMMA SpIds ==
  ASSUME TypeOK, NEW id \in Ids
  PROVE  /\ Slot(id) \in 0..FastSlots - 1 /\ DeadSlot(id) \in 0..DeadSlots - 1
         /\ Lookup(id) \in Objects \union {NoObj} /\ id # NoId
         /\ id.idx \in Indices /\ id.gen \in 0..Gens - 1 /\ id = [idx |-> id.idx, gen |-> id.gen]
<1> USE SizesAssumption
<1>1. id.idx \in Indices /\ id.gen \in 0..Gens - 1 /\ id = [idx |-> id.idx, gen |-> id.gen]
  BY DEF Ids
<1>2. id.idx \in Nat
  BY <1>1 DEF Indices
<1>3. id.idx % FastSlots \in 0..FastSlots - 1 /\ id.idx % DeadSlots \in 0..DeadSlots - 1
  BY <1>2
<1>4. Lookup(id) \in Objects \union {NoObj}
  BY <1>1 DEF TypeOK, Lookup
<1>5. id # NoId
  BY <1>2 DEF NoId
<1>6. QED
  BY <1>1, <1>3, <1>4, <1>5 DEF Slot, DeadSlot

(***************************************************************************)
(* What a thread reads of its own variables.                               *)
(***************************************************************************)
LEMMA SpOwn ==
  ASSUME SharedInv, NEW t \in Threads
  PROVE  /\ TypeOK /\ Knows(pc[t], arg[t], obj[t])
         /\ pc[t] \in PCs /\ arg[t] \in Ids \union {NoId} /\ obj[t] \in Objects \union {NoObj}
         /\ arg = [arg EXCEPT ![t] = arg[t]] /\ obj = [obj EXCEPT ![t] = obj[t]]
         /\ maxIndex <= maxIndex /\ maxIndex \in -1..IdCount - 1
         /\ pc[t] \in Creates <=> Recording(t)
<1>1. TypeOK /\ Knows(pc[t], arg[t], obj[t])
  BY DEF SharedInv
<1>2. /\ pc[t] \in PCs /\ arg[t] \in Ids \union {NoId} /\ obj[t] \in Objects \union {NoObj}
      /\ arg = [arg EXCEPT ![t] = arg[t]] /\ obj = [obj EXCEPT ![t] = obj[t]]
  BY <1>1 DEF TypeOK
<1>3. maxIndex <= maxIndex /\ maxIndex \in -1..IdCount - 1
  BY <1>1, SizesAssumption DEF TypeOK
<1>4. QED
  BY <1>1, <1>2, <1>3 DEF Recording, Creates

(***************************************************************************)
(* A step of one thread that leaves the table alone.                       *)
(***************************************************************************)
LEMMA SpStep ==
  ASSUME SharedInv, NEW t \in Threads,
         NEW l \in PCs, NEW a \in Ids \union {NoId}, NEW o \in Objects \union {NoObj},
         pc' = [pc EXCEPT ![t] = l], arg' = [arg EXCEPT ![t] = a], obj' = [obj EXCEPT ![t] = o],
         sawDead' \in [Threads -> BOOLEAN], UNCHANGED idm,
         fast' \in [0..FastSlots - 1 -> [id : Ids \union {NoId}, obj : Objects \union {NoObj}]],
         cached' \in [0..FastSlots - 1 -> Ids \union {NoId}],
         dead' \in [0..DeadSlots - 1 -> Ids \union {NoId}],
         maxIndex' \in -1..IdCount - 1, maxIndex <= maxIndex',
         FastInv', DestroyedAreGone', Knows(l, a, o),
         pc[t] \in Creates => (l \in Creates /\ o = obj[t]) \/ arg[t].idx <= maxIndex'
  PROVE  SharedInv'
<1> USE SizesAssumption
<1>1. table' = table /\ highest' = highest /\ objs' = objs
  BY DEF idm
<1>2. /\ pc' \in [Threads -> PCs] /\ pc'[t] = l /\ \A u \in Threads \ {t} : pc'[u] = pc[u]
      /\ arg' \in [Threads -> Ids \union {NoId}] /\ arg'[t] = a
      /\ \A u \in Threads \ {t} : arg'[u] = arg[u]
      /\ obj' \in [Threads -> Objects \union {NoObj}] /\ obj'[t] = o
      /\ \A u \in Threads \ {t} : obj'[u] = obj[u]
  BY DEF SharedInv, TypeOK
<1>3. TypeOK'
  BY <1>1, <1>2 DEF SharedInv, TypeOK
<1>4. TableInv'
  BY <1>1 DEF SharedInv, TableInv, Names
<1>5. UncreatedIsTrue'
  <2>1. SUFFICES ASSUME NEW p \in 1..Len(objs), objs[p] # NoId
                 PROVE  objs[p].idx <= maxIndex' \/ \E u \in Threads : Recording(u)' /\ obj'[u] = p
    BY <1>1 DEF UncreatedIsTrue
  <2>2. CASE objs[p].idx <= maxIndex
    <3>1. objs \in Seq(Ids \union {NoId}) /\ maxIndex \in Int /\ maxIndex' \in Int
      BY DEF SharedInv, TypeOK
    <3>2. objs[p] \in Ids
      BY <2>1, <3>1
    <3>3. objs[p].idx \in Int
      BY <3>2 DEF Ids, Indices
    <3>4. QED
      BY <2>2, <3>1, <3>3
  <2>3. CASE ~(objs[p].idx <= maxIndex)
    <3>1. PICK u \in Threads : Recording(u) /\ obj[u] = p
      BY <2>1, <2>3 DEF SharedInv, UncreatedIsTrue
    <3>2. CASE u # t
      BY <1>2, <3>1, <3>2 DEF Recording
    <3>3. CASE u = t
      <4>1. pc[t] \in Creates /\ objs[p] = arg[t]
        BY <3>1, <3>3, SpOwn DEF Knows, Names, SpHolds
      <4>2. QED
        BY <1>2, <3>1, <3>3, <4>1 DEF Recording, Creates
    <3>4. QED
      BY <3>2, <3>3
  <2>4. QED
    BY <2>2, <2>3
<1>6. ASSUME NEW u \in Threads PROVE Knows(pc[u], arg[u], obj[u])'
  <2>1. Knows(pc'[u], arg'[u], obj'[u])
    BY <1>2 DEF SharedInv
  <2>2. QED
    BY <1>1, <2>1 DEF Knows, Names, Gone, Shares, Slot
<1>7. QED
  BY <1>3, <1>4, <1>5, <1>6 DEF SharedInv

(***************************************************************************)
(* The caches that a step leaves alone.                                    *)
(***************************************************************************)
LEMMA SpSame ==
  ASSUME SharedInv, UNCHANGED idm
  PROVE  /\ fast' = fast =>
              /\ fast' \in [0..FastSlots - 1 -> [id : Ids \union {NoId}, obj : Objects \union {NoObj}]]
              /\ FastInv'
         /\ cached' = cached => cached' \in [0..FastSlots - 1 -> Ids \union {NoId}]
         /\ dead' = dead => dead' \in [0..DeadSlots - 1 -> Ids \union {NoId}] /\ DestroyedAreGone'
         /\ maxIndex' = maxIndex => maxIndex' \in -1..IdCount - 1 /\ maxIndex <= maxIndex'
         /\ sawDead' = sawDead => sawDead' \in [Threads -> BOOLEAN]
<1>1. table' = table /\ objs' = objs
  BY DEF idm
<1>2. TypeOK /\ FastInv /\ DestroyedAreGone
  BY DEF SharedInv
<1>3. fast' = fast => FastInv'
  BY <1>1, <1>2 DEF FastInv, Shares, Slot
<1>4. dead' = dead => DestroyedAreGone'
  BY <1>1, <1>2 DEF DestroyedAreGone
<1>5. maxIndex' = maxIndex => maxIndex' \in -1..IdCount - 1 /\ maxIndex <= maxIndex'
  BY <1>2, SizesAssumption DEF TypeOK
<1>6. sawDead' = sawDead => sawDead' \in [Threads -> BOOLEAN]
  BY <1>2, Zenon DEF TypeOK
<1>7. QED
  BY <1>2, <1>3, <1>4, <1>5, <1>6 DEF TypeOK

(***************************************************************************)
(* A step that only reads, and leaves the thread at l.                     *)
(***************************************************************************)
LEMMA SpReads ==
  ASSUME SharedInv, NEW t \in Threads, pc[t] \notin Creates, UNCHANGED idm, UNCHANGED caches,
         NEW l \in PCs, NEW a \in Ids \union {NoId}, NEW o \in Objects \union {NoObj},
         pc' = [pc EXCEPT ![t] = l], arg' = [arg EXCEPT ![t] = a], obj' = [obj EXCEPT ![t] = o],
         sawDead' \in [Threads -> BOOLEAN], Knows(l, a, o)
  PROVE  SharedInv'
<1>1. fast' = fast /\ cached' = cached /\ dead' = dead /\ maxIndex' = maxIndex
  BY DEF caches
<1>2. /\ fast' \in [0..FastSlots - 1 -> [id : Ids \union {NoId}, obj : Objects \union {NoObj}]]
      /\ cached' \in [0..FastSlots - 1 -> Ids \union {NoId}]
      /\ dead' \in [0..DeadSlots - 1 -> Ids \union {NoId}]
      /\ maxIndex' \in -1..IdCount - 1 /\ maxIndex <= maxIndex' /\ FastInv' /\ DestroyedAreGone'
  BY <1>1, SpSame
<1>3. QED
  BY <1>2, SpStep

\* The local variables after Return.
SpIdle(t) ==
  /\ pc' = [pc EXCEPT ![t] = "idle"]
  /\ arg' = [arg EXCEPT ![t] = NoId]
  /\ obj' = [obj EXCEPT ![t] = NoObj]

(***************************************************************************)
(* Return gives a thread back its initial variables.                       *)
(***************************************************************************)
LEMMA SpReturns ==
  ASSUME SharedInv, NEW t \in Threads, Return(t)
  PROVE  /\ SpIdle(t) /\ sawDead' \in [Threads -> BOOLEAN] /\ Knows("idle", NoId, NoObj)
         /\ "idle" \in PCs
<1>1. SpIdle(t)
  BY DEF SpIdle, Return, Goto
<1>2. sawDead' \in [Threads -> BOOLEAN]
  BY Zenon DEF SharedInv, TypeOK, Return
<1>3. Knows("idle", NoId, NoObj) /\ "idle" \in PCs
  BY DEF Knows, SpHolds, Creates, Destroys, PCs
<1>4. QED
  BY <1>1, <1>2, <1>3

(***************************************************************************)
(* A call that only reads returns.                                         *)
(***************************************************************************)
LEMMA SpReadsReturn ==
  ASSUME SharedInv, NEW t \in Threads, pc[t] \notin Creates, UNCHANGED idm, UNCHANGED caches, Return(t)
  PROVE  SharedInv'
<1>1. PICK l \in PCs, a \in Ids \union {NoId}, o \in Objects \union {NoObj} :
        l = "idle" /\ a = NoId /\ o = NoObj
  BY DEF PCs
<1>2. /\ pc' = [pc EXCEPT ![t] = l] /\ arg' = [arg EXCEPT ![t] = a] /\ obj' = [obj EXCEPT ![t] = o]
      /\ sawDead' \in [Threads -> BOOLEAN] /\ Knows(l, a, o)
  BY <1>1, SpReturns DEF SpIdle
<1>3. QED
  BY <1>2, SpReads

(***************************************************************************)
(* A call begins.                                                          *)
(***************************************************************************)
LEMMA SpCallInv ==
  ASSUME SharedInv, NEW t \in Threads, NEW id \in Ids, Call(t, id)
  PROVE  SharedInv'
<1>1. PICK l \in PCs : l \in {"f_id", "n_plain"} /\ Begin(t, l, id, NoObj)
  BY DEF Call, PCs
<1>2. PICK o \in Objects \union {NoObj} : o = NoObj
  OBVIOUS
<1>3. /\ pc' = [pc EXCEPT ![t] = l] /\ arg' = [arg EXCEPT ![t] = id] /\ obj' = [obj EXCEPT ![t] = o]
  BY <1>1, <1>2 DEF Begin, Goto
<1>4. sawDead' \in [Threads -> BOOLEAN]
  BY Zenon DEF SharedInv, TypeOK, Call
<1>5. Knows(l, id, o)
  BY <1>1 DEF Knows, SpHolds, Creates, Destroys
<1>6. pc[t] \notin Creates /\ UNCHANGED idm /\ UNCHANGED caches
  BY DEF Call, Creates
<1>7. QED
  BY <1>3, <1>4, <1>5, <1>6, SpReads

(***************************************************************************)
(* A step that leaves the identifier and the object of the thread.         *)
(***************************************************************************)
LEMMA SpGoesOn ==
  ASSUME SharedInv, NEW t \in Threads, pc[t] \notin Creates, pc[t] # "idle",
         UNCHANGED <<idm, caches, arg, obj, sawDead>>,
         NEW l \in PCs, l \notin SpHolds, l # "f_op", Goto(t, l)
  PROVE  SharedInv'
<1>1. arg[t] \in Ids
  BY SpOwn DEF Knows
<1>2. Knows(l, arg[t], obj[t])
  BY <1>1 DEF Knows, SpHolds
<1>3. sawDead' \in [Threads -> BOOLEAN]
  BY SpSame
<1>4. /\ pc' = [pc EXCEPT ![t] = l] /\ arg' = [arg EXCEPT ![t] = arg[t]]
      /\ obj' = [obj EXCEPT ![t] = obj[t]]
  BY SpOwn DEF Goto
<1>5. QED
  BY <1>2, <1>3, <1>4, SpOwn, SpReads

(***************************************************************************)
(* The steps of the shortcut.                                              *)
(***************************************************************************)
LEMMA SpFastInv ==
  ASSUME SharedInv, NEW t \in Threads,
         \/ FastId(t) \/ FastObj(t) \/ FastOp(t)
         \/ EsrchCached(t) \/ EsrchDestroyed(t) \/ EsrchUncreated(t) \/ ReturnEsrch(t)
  PROVE  SharedInv'
<1>1. CASE FastId(t) \/ EsrchCached(t) \/ EsrchDestroyed(t) \/ EsrchUncreated(t)
  <2>1. PICK l \in PCs : /\ l \in {"f_obj", "e_cached", "esrch", "e_dead", "e_max", "n_lookup"}
                         /\ Goto(t, l)
    <3>1. CASE FastId(t)
      BY <3>1 DEF FastId, PCs
    <3>2. CASE EsrchCached(t)
      BY <3>2 DEF EsrchCached, Esrch, PCs
    <3>3. CASE EsrchDestroyed(t)
      BY <3>3 DEF EsrchDestroyed, Esrch, PCs
    <3>4. CASE EsrchUncreated(t)
      BY <3>4 DEF EsrchUncreated, Esrch, PCs
    <3>5. QED
      BY <1>1, <3>1, <3>2, <3>3, <3>4
  <2>2. /\ pc[t] \in {"f_id", "e_cached", "e_dead", "e_max"}
        /\ UNCHANGED <<idm, caches, arg, obj, sawDead>>
    BY <1>1 DEF FastId, EsrchCached, EsrchDestroyed, EsrchUncreated, Esrch
  <2>3. pc[t] \notin Creates /\ pc[t] # "idle" /\ l \notin SpHolds /\ l # "f_op"
    BY <2>1, <2>2 DEF SpHolds, Creates, Destroys
  <2>4. QED
    BY <2>1, <2>2, <2>3, SpGoesOn
<1>2. CASE FastObj(t)
  <2>1. arg[t] \in Ids /\ pc[t] \notin Creates
    BY <1>2, SpOwn DEF FastObj, Knows, Creates
  <2>2. Slot(arg[t]) \in 0..FastSlots - 1 /\ TypeOK
    BY <2>1, SpIds, SpOwn
  <2>3. PICK o \in Objects \union {NoObj} : o = fast[Slot(arg[t])].obj
    BY <2>2 DEF TypeOK
  <2>4. obj' = [obj EXCEPT ![t] = o] /\ obj'[t] = o
    BY <1>2, <2>2, <2>3 DEF FastObj, TypeOK
  <2>5. PICK l \in PCs : l = (IF o = NoObj THEN "e_cached" ELSE "f_op") /\ Goto(t, l)
    BY <1>2, <2>4 DEF FastObj, PCs
  <2>6. Knows(l, arg[t], o)
    <3>1. o # NoObj => Shares(Slot(arg[t]), o)
      BY <2>2, <2>3 DEF SharedInv, FastInv
    <3>2. QED
      BY <2>1, <2>5, <3>1 DEF Knows, SpHolds, Creates, Destroys
  <2>7. /\ UNCHANGED idm /\ UNCHANGED caches /\ arg' = [arg EXCEPT ![t] = arg[t]]
        /\ pc' = [pc EXCEPT ![t] = l] /\ sawDead' = sawDead
    BY <1>2, <2>5, SpOwn DEF FastObj, Goto
  <2>8. sawDead' \in [Threads -> BOOLEAN] /\ arg[t] \in Ids \union {NoId}
    BY <2>1, <2>7, SpSame
  <2>9. QED
    BY <2>1, <2>4, <2>6, <2>7, <2>8, SpReads
<1>3. CASE FastOp(t)
  <2>1. pc[t] = "f_op" /\ pc[t] \notin Creates /\ UNCHANGED idm /\ UNCHANGED caches
    BY <1>3 DEF FastOp, Creates
  <2>2. CASE Return(t)
    BY <2>1, <2>2, SpReadsReturn
  <2>3. CASE Begin(t, "e_cached", arg[t], NoObj) /\ sawDead' = sawDead
    <3>1. PICK l \in PCs, o \in Objects \union {NoObj} : l = "e_cached" /\ o = NoObj
      BY DEF PCs
    <3>2. arg[t] \in Ids
      BY <2>1, SpOwn DEF Knows
    <3>3. /\ pc' = [pc EXCEPT ![t] = l] /\ arg' = [arg EXCEPT ![t] = arg[t]]
          /\ obj' = [obj EXCEPT ![t] = o] /\ sawDead' \in [Threads -> BOOLEAN] /\ Knows(l, arg[t], o)
      BY <2>1, <2>3, <3>1, <3>2, SpSame DEF Begin, Goto, Knows, SpHolds, Creates, Destroys
    <3>4. QED
      BY <2>1, <3>2, <3>3, SpReads
  <2>4. QED
    BY <1>3, <2>2, <2>3 DEF FastOp
<1>4. CASE ReturnEsrch(t)
  BY <1>4, SpReadsReturn DEF ReturnEsrch, Creates
<1>5. QED
  BY <1>1, <1>2, <1>3, <1>4

(***************************************************************************)
(* The table finds the semaphore that an identifier names.                 *)
(***************************************************************************)
LEMMA SpLookup ==
  ASSUME SharedInv, NEW id \in Ids, Lookup(id) # NoObj
  PROVE  Names(id, Lookup(id)) /\ table[id.idx].gen = id.gen /\ table[id.idx].obj = Lookup(id)
<1>1. /\ id.idx \in Indices /\ id = [idx |-> id.idx, gen |-> id.gen]
  BY SpIds DEF SharedInv
<1>2. table[id.idx].gen = id.gen /\ Lookup(id) = table[id.idx].obj
  BY DEF Lookup
<1>3. QED
  BY <1>1, <1>2 DEF SharedInv, TableInv

(***************************************************************************)
(* The ordinary path: idm::get finds the object, or the call fails.        *)
(***************************************************************************)
LEMMA SpNormalInv ==
  ASSUME SharedInv, NEW t \in Threads, NormalLookup(t)
  PROVE  SharedInv'
<1>1. pc[t] \in {"n_lookup", "n_plain"} /\ UNCHANGED idm /\ UNCHANGED caches
  BY DEF NormalLookup
<1>2. pc[t] \notin Creates /\ arg[t] \in Ids /\ pc[t] # "idle"
  BY <1>1, SpOwn DEF Creates, Knows
<1>3. CASE Lookup(arg[t]) # NoObj
  <2>1. Begin(t, "r_obj", arg[t], Lookup(arg[t])) /\ sawDead' = sawDead
    BY <1>3 DEF NormalLookup
  <2>2. PICK l \in PCs, o \in Objects \union {NoObj} : l = "r_obj" /\ o = Lookup(arg[t])
    BY <1>2, SpIds, SpOwn DEF PCs
  <2>3. /\ pc' = [pc EXCEPT ![t] = l] /\ arg' = [arg EXCEPT ![t] = arg[t]] /\ obj' = [obj EXCEPT ![t] = o]
    BY <2>1, <2>2 DEF Begin, Goto
  <2>4. Knows(l, arg[t], o)
    BY <1>2, <1>3, <2>2, SpLookup DEF Knows, Destroys
  <2>5. sawDead' \in [Threads -> BOOLEAN]
    BY <1>1, <2>1, SpSame
  <2>6. QED
    BY <1>1, <1>2, <2>3, <2>4, <2>5, SpReads
<1>4. CASE Lookup(arg[t]) = NoObj /\ Goto(t, "r_esrch") /\ UNCHANGED <<arg, obj, sawDead>>
  <2>1. PICK l \in PCs : l = "r_esrch"
    BY DEF PCs
  <2>2. l \notin SpHolds /\ l # "f_op" /\ Goto(t, l)
    BY <1>4, <2>1 DEF SpHolds, Creates, Destroys
  <2>3. QED
    BY <1>1, <1>2, <1>4, <2>2, SpGoesOn
<1>5. CASE Return(t)
  BY <1>1, <1>2, <1>5, SpReadsReturn
<1>6. QED
  BY <1>3, <1>4, <1>5 DEF NormalLookup

(***************************************************************************)
(* An entry of the object cache changes: it has a semaphore of its own, or *)
(* none.                                                                   *)
(***************************************************************************)
LEMMA SpEntry ==
  ASSUME SharedInv, UNCHANGED idm, NEW s \in 0..FastSlots - 1,
         NEW e \in [id : Ids \union {NoId}, obj : Objects \union {NoObj}],
         fast' = [fast EXCEPT ![s] = e], e.obj # NoObj => Shares(s, e.obj)
  PROVE  /\ fast' \in [0..FastSlots - 1 -> [id : Ids \union {NoId}, obj : Objects \union {NoObj}]]
         /\ FastInv'
<1>1. objs' = objs /\ TypeOK /\ FastInv
  BY DEF idm, SharedInv
<1>2. fast' \in [0..FastSlots - 1 -> [id : Ids \union {NoId}, obj : Objects \union {NoObj}]]
  BY <1>1 DEF TypeOK
<1>3. fast'[s] = e /\ \A r \in 0..FastSlots - 1 : r # s => fast'[r] = fast[r]
  BY <1>1 DEF TypeOK
<1>4. ASSUME NEW r \in 0..FastSlots - 1, fast'[r].obj # NoObj PROVE Shares(r, fast'[r].obj)
  BY <1>1, <1>3, <1>4 DEF FastInv
<1>5. FastInv'
  BY <1>1, <1>4 DEF FastInv, Shares, Slot
<1>6. QED
  BY <1>2, <1>5

(***************************************************************************)
(* create and destroy take the identifier out of the object cache, then    *)
(* the pointer.                                                            *)
(***************************************************************************)
LEMMA SpCleanInv ==
  ASSUME SharedInv, NEW t \in Threads,
         RecordCreatedFastId(t) \/ RecordDestroyedFastId(t) \/ ClearFastObj(t)
  PROVE  SharedInv'
<1> DEFINE s == Slot(arg[t])
<1>1. /\ pc[t] \in {"c_id", "d_id", "c_obj", "d_obj"}
      /\ UNCHANGED idm /\ cached' = cached /\ dead' = dead /\ maxIndex' = maxIndex
  BY DEF RecordCreatedFastId, RecordDestroyedFastId, ClearFastObj
<1>2. /\ arg[t] \in Ids /\ Names(arg[t], obj[t]) /\ TypeOK
      /\ pc[t] \in Destroys => Gone(obj[t])
  BY <1>1, SpOwn DEF Knows, SpHolds, Creates, Destroys
<1>3. s \in 0..FastSlots - 1 /\ arg[t] # NoId
  BY <1>2, SpIds
<1>4. fast[s] \in [id : Ids \union {NoId}, obj : Objects \union {NoObj}]
  BY <1>2, <1>3 DEF TypeOK
<1>5. PICK e \in [id : Ids \union {NoId}, obj : Objects \union {NoObj}] :
        fast' = [fast EXCEPT ![s] = e] /\ (e.obj = fast[s].obj \/ e.obj = NoObj)
  <2>1. CASE fast' = fast
    <3>1. fast = [fast EXCEPT ![s] = fast[s]]
      BY <1>2, <1>3 DEF TypeOK
    <3>2. QED
      BY <1>4, <2>1, <3>1
  <2>2. CASE fast' = [fast EXCEPT ![s].id = NoId]
    <3>1. PICK e \in [id : Ids \union {NoId}, obj : Objects \union {NoObj}] :
            e = [fast[s] EXCEPT !.id = NoId]
      BY <1>4
    <3>2. e.obj = fast[s].obj /\ fast' = [fast EXCEPT ![s] = e]
      BY <1>4, <2>2, <3>1
    <3>3. QED
      BY <3>2
  <2>3. CASE fast' = [fast EXCEPT ![s].obj = NoObj]
    <3>1. PICK e \in [id : Ids \union {NoId}, obj : Objects \union {NoObj}] :
            e = [fast[s] EXCEPT !.obj = NoObj]
      BY <1>4
    <3>2. e.obj = NoObj /\ fast' = [fast EXCEPT ![s] = e]
      BY <1>4, <2>3, <3>1
    <3>3. QED
      BY <3>2
  <2>4. QED
    BY <2>1, <2>2, <2>3 DEF RecordCreatedFastId, RecordDestroyedFastId, ClearFastObj
<1>6. /\ fast' \in [0..FastSlots - 1 -> [id : Ids \union {NoId}, obj : Objects \union {NoObj}]]
      /\ FastInv'
  <2>1. e.obj # NoObj => Shares(s, e.obj)
    BY <1>3, <1>5 DEF SharedInv, FastInv
  <2> HIDE DEF s
  <2>2. QED
    BY <1>1, <1>3, <1>5, <2>1, SpEntry
<1>7. PICK l \in PCs, a \in Ids \union {NoId}, o \in Objects \union {NoObj} :
        /\ pc' = [pc EXCEPT ![t] = l] /\ arg' = [arg EXCEPT ![t] = a] /\ obj' = [obj EXCEPT ![t] = o]
        /\ sawDead' \in [Threads -> BOOLEAN] /\ Knows(l, a, o)
        /\ pc[t] \in Creates => l \in Creates /\ o = obj[t]
  <2>1. CASE Return(t) /\ pc[t] \in Destroys
    <3>1. pc[t] \notin Creates
      BY <2>1 DEF Creates, Destroys
    <3>2. QED
      BY <2>1, <3>1, SpReturns DEF SpIdle
  <2>2. ASSUME NEW l \in {"c_obj", "c_max", "d_obj"}, Goto(t, l), UNCHANGED <<arg, obj, sawDead>>,
               pc[t] \in Creates => l \in Creates, pc[t] \notin Creates => pc[t] \in Destroys /\ l \in Destroys
        PROVE  \E m \in PCs, a \in Ids \union {NoId}, o \in Objects \union {NoObj} :
                 /\ pc' = [pc EXCEPT ![t] = m] /\ arg' = [arg EXCEPT ![t] = a] /\ obj' = [obj EXCEPT ![t] = o]
                 /\ sawDead' \in [Threads -> BOOLEAN] /\ Knows(m, a, o)
                 /\ pc[t] \in Creates => m \in Creates /\ o = obj[t]
    <3>1. Knows(l, arg[t], obj[t])
      BY <1>2, <2>2 DEF Knows, Creates, Destroys
    <3>2. l \in PCs /\ sawDead' \in [Threads -> BOOLEAN]
      BY <1>1, <2>2, SpSame DEF PCs
    <3>3. /\ pc' = [pc EXCEPT ![t] = l] /\ arg' = [arg EXCEPT ![t] = arg[t]]
          /\ obj' = [obj EXCEPT ![t] = obj[t]]
      BY <2>2, SpOwn DEF Goto
    <3>4. QED
      BY <2>2, <3>1, <3>2, <3>3, SpOwn
  <2>3. CASE RecordCreatedFastId(t)
    <3>1. PICK l \in {"c_obj", "c_max", "d_obj"} : l # "d_obj" /\ Goto(t, l)
      BY <2>3 DEF RecordCreatedFastId
    <3>2. pc[t] \in Creates /\ l \in Creates /\ UNCHANGED <<arg, obj, sawDead>>
      BY <2>3, <3>1 DEF RecordCreatedFastId, Creates
    <3>3. QED
      BY <2>2, <3>1, <3>2
  <2>4. CASE RecordDestroyedFastId(t)
    <3>1. pc[t] \in Destroys /\ pc[t] \notin Creates
      BY <2>4 DEF RecordDestroyedFastId, Destroys, Creates
    <3>2. CASE Goto(t, "d_obj") /\ UNCHANGED <<arg, obj, sawDead>>
      <4>1. PICK l \in {"c_obj", "c_max", "d_obj"} : l = "d_obj"
        OBVIOUS
      <4>2. l \in Destroys /\ Goto(t, l)
        BY <3>2, <4>1 DEF Destroys
      <4>3. QED
        BY <2>2, <3>1, <3>2, <4>2
    <3>3. QED
      BY <2>1, <2>4, <3>1, <3>2 DEF RecordDestroyedFastId
  <2>5. CASE ClearFastObj(t)
    <3>1. CASE pc[t] = "c_obj"
      <4>1. PICK l \in {"c_obj", "c_max", "d_obj"} : l = "c_max"
        OBVIOUS
      <4>2. l \in Creates /\ Goto(t, l) /\ UNCHANGED <<arg, obj, sawDead>> /\ pc[t] \in Creates
        BY <2>5, <3>1, <4>1 DEF ClearFastObj, Creates
      <4>3. QED
        BY <2>2, <4>2
    <3>2. CASE pc[t] # "c_obj"
      <4>1. Return(t) /\ pc[t] \in Destroys
        BY <2>5, <3>2 DEF ClearFastObj, Destroys
      <4>2. QED
        BY <2>1, <4>1
    <3>3. QED
      BY <3>1, <3>2
  <2>6. QED
    BY <2>3, <2>4, <2>5
<1>8. /\ cached' \in [0..FastSlots - 1 -> Ids \union {NoId}]
      /\ dead' \in [0..DeadSlots - 1 -> Ids \union {NoId}]
      /\ maxIndex' \in -1..IdCount - 1 /\ maxIndex <= maxIndex' /\ DestroyedAreGone'
  BY <1>1, SpSame
<1>9. QED
  BY <1>1, <1>6, <1>7, <1>8, SpStep

(***************************************************************************)
(* create forgets that its identifier was not found.                       *)
(***************************************************************************)
LEMMA SpForgetInv ==
  ASSUME SharedInv, NEW t \in Threads, RecordCreatedCached(t)
  PROVE  SharedInv'
<1>1. /\ pc[t] = "c_cached" /\ Goto(t, "c_id")
      /\ UNCHANGED idm /\ fast' = fast /\ dead' = dead /\ maxIndex' = maxIndex
      /\ arg' = arg /\ obj' = obj /\ sawDead' = sawDead
      /\ cached' = [cached EXCEPT ![Slot(arg[t])] = IF @ = arg[t] THEN NoId ELSE @]
  BY DEF RecordCreatedCached
<1>2. arg[t] \in Ids /\ Names(arg[t], obj[t]) /\ TypeOK
  BY <1>1, SpOwn DEF Knows, SpHolds, Creates
<1>3. PICK l \in PCs : l = "c_id"
  BY DEF PCs
<1>4. /\ Knows(l, arg[t], obj[t]) /\ l \in Creates
      /\ pc' = [pc EXCEPT ![t] = l] /\ arg' = [arg EXCEPT ![t] = arg[t]] /\ obj' = [obj EXCEPT ![t] = obj[t]]
  BY <1>1, <1>2, <1>3, SpOwn DEF Knows, Creates, Destroys, Goto
<1>5. cached' \in [0..FastSlots - 1 -> Ids \union {NoId}]
  BY <1>1, <1>2 DEF TypeOK
<1>6. /\ fast' \in [0..FastSlots - 1 -> [id : Ids \union {NoId}, obj : Objects \union {NoObj}]] /\ FastInv'
      /\ dead' \in [0..DeadSlots - 1 -> Ids \union {NoId}] /\ DestroyedAreGone'
      /\ maxIndex' \in -1..IdCount - 1 /\ maxIndex <= maxIndex' /\ sawDead' \in [Threads -> BOOLEAN]
  BY <1>1, SpSame
<1>7. QED
  BY <1>1, <1>4, <1>5, <1>6, SpOwn, SpStep

(***************************************************************************)
(* create records its index before it returns.                             *)
(***************************************************************************)
LEMMA SpMaxInv ==
  ASSUME SharedInv, NEW t \in Threads, RecordCreatedMax(t)
  PROVE  SharedInv'
<1> USE SizesAssumption
<1>1. /\ pc[t] = "c_max" /\ Return(t) /\ UNCHANGED idm /\ fast' = fast /\ cached' = cached /\ dead' = dead
      /\ maxIndex' = IF arg[t].idx > maxIndex THEN arg[t].idx ELSE maxIndex
  BY DEF RecordCreatedMax
<1>2. arg[t] \in Ids /\ TypeOK
  BY <1>1, SpOwn DEF Knows
<1>3. arg[t].idx \in 0..IdCount - 1 /\ maxIndex \in -1..IdCount - 1
  BY <1>2, SpIds, SpOwn DEF Indices
<1>4. maxIndex' \in -1..IdCount - 1 /\ maxIndex <= maxIndex' /\ arg[t].idx <= maxIndex'
  BY <1>1, <1>3
<1>5. PICK l \in PCs, a \in Ids \union {NoId}, o \in Objects \union {NoObj} :
        l = "idle" /\ a = NoId /\ o = NoObj
  BY DEF PCs
<1>6. /\ pc' = [pc EXCEPT ![t] = l] /\ arg' = [arg EXCEPT ![t] = a] /\ obj' = [obj EXCEPT ![t] = o]
      /\ sawDead' \in [Threads -> BOOLEAN] /\ Knows(l, a, o)
  BY <1>1, <1>5, SpReturns DEF SpIdle
<1>7. /\ fast' \in [0..FastSlots - 1 -> [id : Ids \union {NoId}, obj : Objects \union {NoObj}]] /\ FastInv'
      /\ cached' \in [0..FastSlots - 1 -> Ids \union {NoId}]
      /\ dead' \in [0..DeadSlots - 1 -> Ids \union {NoId}] /\ DestroyedAreGone'
  BY <1>1, SpSame
<1>8. QED
  BY <1>1, <1>4, <1>6, <1>7, SpStep

(***************************************************************************)
(* destroy remembers the identifier, whose semaphore has left the table.   *)
(***************************************************************************)
LEMMA SpRememberInv ==
  ASSUME SharedInv, NEW t \in Threads, RecordDestroyed(t)
  PROVE  SharedInv'
<1>1. /\ pc[t] = "d_dead" /\ Goto(t, "d_id") /\ dead' = [dead EXCEPT ![DeadSlot(arg[t])] = arg[t]]
      /\ UNCHANGED idm /\ fast' = fast /\ cached' = cached /\ maxIndex' = maxIndex
      /\ arg' = arg /\ obj' = obj /\ sawDead' = sawDead
  BY DEF RecordDestroyed
<1>2. arg[t] \in Ids /\ Names(arg[t], obj[t]) /\ Gone(obj[t]) /\ TypeOK
  BY <1>1, SpOwn DEF Knows, SpHolds, Destroys
<1>3. dead' \in [0..DeadSlots - 1 -> Ids \union {NoId}]
  BY <1>1, <1>2 DEF TypeOK
<1>4. DestroyedAreGone'
  <2>1. objs' = objs /\ table' = table
    BY <1>1 DEF idm
  <2>2. SUFFICES ASSUME NEW s \in 0..DeadSlots - 1, dead'[s] # NoId
                 PROVE  \E o \in 1..Len(objs) : objs[o] = dead'[s] /\ \A i \in Indices : table[i].obj # o
    BY <2>1 DEF DestroyedAreGone
  <2>3. CASE dead'[s] = arg[t]
    BY <1>2, <2>3 DEF Names, Gone
  <2>4. CASE dead'[s] # arg[t]
    <3>1. dead'[s] = dead[s]
      BY <1>1, <1>2, <2>4 DEF TypeOK
    <3>2. QED
      BY <2>2, <3>1 DEF SharedInv, DestroyedAreGone
  <2>5. QED
    BY <2>3, <2>4
<1>5. PICK l \in PCs : l = "d_id"
  BY DEF PCs
<1>6. /\ Knows(l, arg[t], obj[t]) /\ pc[t] \notin Creates
      /\ pc' = [pc EXCEPT ![t] = l] /\ arg' = [arg EXCEPT ![t] = arg[t]] /\ obj' = [obj EXCEPT ![t] = obj[t]]
  BY <1>1, <1>2, <1>5, SpOwn DEF Knows, Creates, Goto
<1>7. /\ fast' \in [0..FastSlots - 1 -> [id : Ids \union {NoId}, obj : Objects \union {NoObj}]] /\ FastInv'
      /\ cached' \in [0..FastSlots - 1 -> Ids \union {NoId}]
      /\ maxIndex' \in -1..IdCount - 1 /\ maxIndex <= maxIndex' /\ sawDead' \in [Threads -> BOOLEAN]
  BY <1>1, SpSame
<1>8. QED
  BY <1>1, <1>3, <1>4, <1>6, <1>7, SpOwn, SpStep

(***************************************************************************)
(* An ordinary call remembers what it found: the pointer, then the         *)
(* identifier, or that there is none.                                      *)
(***************************************************************************)
LEMMA SpRecordInv ==
  ASSUME SharedInv, NEW t \in Threads,
         RecordCachedEsrch(t) \/ RecordFastObj(t) \/ RecordFastId(t)
  PROVE  SharedInv'
<1> DEFINE s == Slot(arg[t])
<1>1. pc[t] \in {"r_esrch", "r_obj", "r_id"} /\ UNCHANGED idm /\ dead' = dead /\ maxIndex' = maxIndex
  BY DEF RecordCachedEsrch, RecordFastObj, RecordFastId
<1>2. arg[t] \in Ids /\ TypeOK /\ pc[t] \notin Creates /\ (pc[t] # "r_esrch" => Names(arg[t], obj[t]))
  BY <1>1, SpOwn DEF Knows, SpHolds, Creates
<1>3. s \in 0..FastSlots - 1 /\ arg[t] # NoId
  BY <1>2, SpIds
<1>4. fast[s] \in [id : Ids \union {NoId}, obj : Objects \union {NoObj}]
  BY <1>2, <1>3 DEF TypeOK
<1>5. cached' \in [0..FastSlots - 1 -> Ids \union {NoId}]
  BY <1>2 DEF RecordCachedEsrch, RecordFastObj, RecordFastId, TypeOK
<1>6. /\ fast' \in [0..FastSlots - 1 -> [id : Ids \union {NoId}, obj : Objects \union {NoObj}]]
      /\ FastInv'
  <2>1. CASE RecordCachedEsrch(t)
    <3>1. fast' = fast
      BY <2>1 DEF RecordCachedEsrch
    <3>2. QED
      BY <1>1, <3>1, SpSame
  <2>2. CASE RecordFastObj(t)
    <3>1. PICK e \in [id : Ids \union {NoId}, obj : Objects \union {NoObj}] :
            e = [fast[s] EXCEPT !.obj = obj[t]]
      BY <1>4, SpOwn
    <3>2. e.obj = obj[t] /\ fast' = [fast EXCEPT ![s] = e]
      BY <1>4, <2>2, <3>1 DEF RecordFastObj
    <3>3. Names(arg[t], obj[t])
      BY <1>2, <2>2 DEF RecordFastObj
    <3>4. Shares(s, e.obj)
      BY <1>3, <3>2, <3>3 DEF Names, Shares
    <3> HIDE DEF s
    <3>5. QED
      BY <1>1, <1>3, <3>2, <3>4, SpEntry
  <2>3. CASE RecordFastId(t)
    <3>1. PICK e \in [id : Ids \union {NoId}, obj : Objects \union {NoObj}] :
            e = [fast[s] EXCEPT !.id = arg[t]]
      BY <1>2, <1>4
    <3>2. e.obj = fast[s].obj /\ fast' = [fast EXCEPT ![s] = e]
      BY <1>4, <2>3, <3>1 DEF RecordFastId
    <3>3. e.obj # NoObj => Shares(s, e.obj)
      BY <1>3, <3>2 DEF SharedInv, FastInv
    <3> HIDE DEF s
    <3>4. QED
      BY <1>1, <1>3, <3>2, <3>3, SpEntry
  <2>4. QED
    BY <2>1, <2>2, <2>3
<1>7. PICK l \in PCs, a \in Ids \union {NoId}, o \in Objects \union {NoObj} :
        /\ pc' = [pc EXCEPT ![t] = l] /\ arg' = [arg EXCEPT ![t] = a] /\ obj' = [obj EXCEPT ![t] = o]
        /\ sawDead' \in [Threads -> BOOLEAN] /\ Knows(l, a, o)
  <2>1. CASE Return(t)
    BY <2>1, SpReturns DEF SpIdle
  <2>2. CASE RecordFastObj(t)
    <3>1. PICK l \in PCs : l = "r_id"
      BY DEF PCs
    <3>2. Goto(t, l) /\ arg' = arg /\ obj' = obj /\ sawDead' = sawDead
      BY <2>2, <3>1 DEF RecordFastObj
    <3>3. Knows(l, arg[t], obj[t])
      BY <1>2, <2>2, <3>1 DEF RecordFastObj, Knows, Destroys
    <3>4. /\ pc' = [pc EXCEPT ![t] = l] /\ arg' = [arg EXCEPT ![t] = arg[t]]
          /\ obj' = [obj EXCEPT ![t] = obj[t]] /\ sawDead' \in [Threads -> BOOLEAN]
      BY <1>1, <3>2, SpOwn, SpSame DEF Goto
    <3>5. QED
      BY <3>3, <3>4, SpOwn
  <2>3. QED
    BY <2>1, <2>2 DEF RecordCachedEsrch, RecordFastId
<1>8. /\ dead' \in [0..DeadSlots - 1 -> Ids \union {NoId}] /\ DestroyedAreGone'
      /\ maxIndex' \in -1..IdCount - 1 /\ maxIndex <= maxIndex'
  BY <1>1, SpSame
<1>9. QED
  BY <1>1, <1>2, <1>5, <1>6, <1>7, <1>8, SpStep

(***************************************************************************)
(* The next identifier is one, whether or not its counter wraps.           *)
(***************************************************************************)
LEMMA SpNextIs ==
  ASSUME TypeOK, highest < IdCount \/ FreeIndices # {}
  PROVE  NextIndex \in Indices /\ NextGen \in 0..Gens - 1
<1> USE SizesAssumption
<1>1. highest \in 0..IdCount /\ \A i \in Indices : table[i].gen \in 0..Gens - 1
  BY DEF TypeOK
<1>2. CASE highest < IdCount
  BY <1>1, <1>2 DEF NextIndex, NextGen, Indices
<1>3. CASE ~(highest < IdCount)
  <2>1. FreeIndices # {} /\ FreeIndices \subseteq Nat
    BY <1>3 DEF FreeIndices, Indices
  <2>2. \E i \in FreeIndices : \A j \in FreeIndices : i <= j
    BY <2>1, FirstExists
  <2>3. NextIndex \in FreeIndices
    BY <1>3, <2>2 DEF NextIndex
  <2>4. NextIndex \in Indices
    BY <2>3 DEF FreeIndices
  <2>5. PICK g \in 0..Gens - 1 : g = table[NextIndex].gen
    BY <1>1, <2>4
  <2>6. (g + 1) % Gens \in 0..Gens - 1
    OBVIOUS
  <2>7. NextGen = (g + 1) % Gens
    BY <1>3, <2>5 DEF NextGen
  <2>8. QED
    BY <2>4, <2>6, <2>7
<1>4. QED
  BY <1>2, <1>3

(***************************************************************************)
(* An object is created: id is NoId if it is no semaphore.  The semaphores *)
(* created before keep their identifiers, and do not return to the table.  *)
(***************************************************************************)
LEMMA SpCreated ==
  ASSUME SharedInv, Len(objs) < MaxObjs, NEW o \in Objects \union {NoObj}, CreateId(o),
         NEW id \in Ids \union {NoId}, objs' = Append(objs, id), UNCHANGED <<fast, dead>>,
         o # NoObj => o = Len(objs) + 1 /\ id = [idx |-> NextIndex, gen |-> NextGen]
  PROVE  /\ table' \in [Indices -> [gen : 0..Gens - 1, obj : Objects \union {NoObj}]]
         /\ highest' \in 0..IdCount /\ objs' \in Seq(Ids \union {NoId})
         /\ Len(objs') = Len(objs) + 1 /\ Len(objs) \in Nat /\ objs'[Len(objs) + 1] = id
         /\ \A p \in 1..Len(objs) : p \in 1..Len(objs') /\ objs'[p] = objs[p] /\ (Gone(p) => Gone(p)')
         /\ TableInv' /\ FastInv' /\ DestroyedAreGone'
<1> USE SizesAssumption
<1>1. /\ TypeOK /\ TableInv /\ FastInv /\ DestroyedAreGone
      /\ objs \in Seq(Ids \union {NoId}) /\ highest \in 0..IdCount
  BY DEF SharedInv, TypeOK
<1>2. /\ NextIndex \in Indices /\ NextGen \in 0..Gens - 1
  BY <1>1, SpNextIs DEF CreateId
<1> DEFINE n == NextIndex
           g == NextGen
<1>3. /\ table' = [table EXCEPT ![n] = [gen |-> g, obj |-> o]]
      /\ highest' \in 0..IdCount
  BY <1>1 DEF CreateId
<1>4. n \in Indices /\ g \in 0..Gens - 1 /\ (o # NoObj => o = Len(objs) + 1 /\ id = [idx |-> n, gen |-> g])
  BY <1>2
<1> HIDE DEF n, g
<1>5. /\ table' \in [Indices -> [gen : 0..Gens - 1, obj : Objects \union {NoObj}]]
      /\ table'[n].obj = o /\ table'[n].gen = g
      /\ \A i \in Indices : i # n => table'[i] = table[i]
  BY <1>1, <1>3, <1>4 DEF TypeOK
<1>6. /\ objs' \in Seq(Ids \union {NoId}) /\ Len(objs') = Len(objs) + 1 /\ Len(objs) \in Nat
      /\ objs'[Len(objs) + 1] = id /\ Len(objs) + 1 \in 1..Len(objs')
      /\ \A p \in 1..Len(objs) : p \in 1..Len(objs') /\ objs'[p] = objs[p] /\ p # Len(objs) + 1
  BY <1>1
<1>7. ASSUME NEW p \in 1..Len(objs), Gone(p) PROVE Gone(p)'
  <2>1. o # p
    BY <1>4, <1>6 DEF NoObj
  <2>2. QED
    BY <1>5, <1>7, <2>1 DEF Gone
<1>8. TableInv'
  <2>1. SUFFICES ASSUME NEW i \in Indices, table'[i].obj # NoObj
                 PROVE  /\ table'[i].obj \in 1..Len(objs')
                        /\ objs'[table'[i].obj] = [idx |-> i, gen |-> table'[i].gen]
    BY DEF TableInv, Names
  <2>2. CASE i = n
    BY <1>4, <1>5, <1>6, <2>1, <2>2
  <2>3. CASE i # n
    BY <1>1, <1>5, <1>6, <2>1, <2>3 DEF TableInv, Names
  <2>4. QED
    BY <2>2, <2>3
<1>9. FastInv'
  <2>1. SUFFICES ASSUME NEW s \in 0..FastSlots - 1, fast[s].obj # NoObj
                 PROVE  Shares(s, fast[s].obj)'
    BY DEF FastInv
  <2>2. Shares(s, fast[s].obj)
    BY <1>1, <2>1 DEF FastInv
  <2>3. QED
    BY <1>6, <2>2 DEF Shares, Slot
<1>10. DestroyedAreGone'
  <2>1. SUFFICES ASSUME NEW s \in 0..DeadSlots - 1, dead[s] # NoId
                 PROVE  \E p \in 1..Len(objs') : objs'[p] = dead[s] /\ Gone(p)'
    BY DEF DestroyedAreGone, Gone
  <2>2. PICK p \in 1..Len(objs) : objs[p] = dead[s] /\ Gone(p)
    BY <1>1, <2>1 DEF DestroyedAreGone, Gone
  <2>3. QED
    BY <1>6, <1>7, <2>2
<1>11. QED
  BY <1>3, <1>5, <1>6, <1>7, <1>8, <1>9, <1>10

(***************************************************************************)
(* A thread keeps what it knows when an object is created.                 *)
(***************************************************************************)
LEMMA SpKnowsStill ==
  ASSUME NEW l, NEW a, NEW o, Knows(l, a, o), Len(objs) \in Nat,
         \A p \in 1..Len(objs) : p \in 1..Len(objs') /\ objs'[p] = objs[p] /\ (Gone(p) => Gone(p)')
  PROVE  /\ l # "idle" => a \in Ids
         /\ l \in SpHolds => o \in 1..Len(objs') /\ objs'[o] = a
         /\ l \in Destroys => Gone(o)'
         /\ l = "f_op" => o \in 1..Len(objs') /\ objs'[o] # NoId /\ Slot(objs'[o]) = Slot(a)
<1>1. l \in Destroys => l \in SpHolds
  BY DEF SpHolds
<1>2. QED
  BY <1>1 DEF Knows, Names, Shares

(***************************************************************************)
(* A semaphore is created, or an object of another kind.                   *)
(***************************************************************************)
LEMMA SpCreateInv ==
  ASSUME SharedInv, NEW t \in Threads, Create(t) \/ OtherObject(t)
  PROVE  SharedInv'
<1> USE SizesAssumption
<1>1. TypeOK /\ objs \in Seq(Ids \union {NoId}) /\ Len(objs) \in Nat
  BY DEF SharedInv, TypeOK
<1>2. /\ pc[t] = "idle" /\ Len(objs) < MaxObjs
      /\ fast' = fast /\ cached' = cached /\ dead' = dead /\ maxIndex' = maxIndex /\ sawDead' = sawDead
  BY DEF Create, OtherObject, caches
<1>3. sawDead' \in [Threads -> BOOLEAN]
  BY <1>1, <1>2, Zenon DEF TypeOK
<1>4. CASE Create(t)
  <2> DEFINE k == Len(objs) + 1
  <2>1. PICK id \in Ids : id = [idx |-> NextIndex, gen |-> NextGen]
    <3>1. NextIndex \in Indices /\ NextGen \in 0..Gens - 1
      BY <1>1, <1>4, SpNextIs DEF Create, CreateId
    <3>2. QED
      BY <3>1 DEF Ids
  <2>2. CreateId(k) /\ objs' = Append(objs, id) /\ Begin(t, "c_cached", id, k)
    BY <1>4, <2>1 DEF Create
  <2>3. k \in Objects /\ k \in Nat
    BY <1>1, <1>2 DEF Objects
  <2>4. /\ table' \in [Indices -> [gen : 0..Gens - 1, obj : Objects \union {NoObj}]]
        /\ highest' \in 0..IdCount /\ objs' \in Seq(Ids \union {NoId})
        /\ Len(objs') = Len(objs) + 1 /\ objs'[Len(objs) + 1] = id
        /\ \A p \in 1..Len(objs) : p \in 1..Len(objs') /\ objs'[p] = objs[p] /\ (Gone(p) => Gone(p)')
        /\ TableInv' /\ FastInv' /\ DestroyedAreGone'
    BY <1>2, <2>1, <2>2, <2>3, SpCreated
  <2>5. /\ pc' \in [Threads -> PCs] /\ pc'[t] = "c_cached" /\ \A u \in Threads \ {t} : pc'[u] = pc[u]
        /\ arg' \in [Threads -> Ids \union {NoId}] /\ arg'[t] = id
        /\ \A u \in Threads \ {t} : arg'[u] = arg[u]
        /\ obj' \in [Threads -> Objects \union {NoObj}] /\ obj'[t] = k
        /\ \A u \in Threads \ {t} : obj'[u] = obj[u]
    <3>1. /\ "c_cached" \in PCs /\ pc' = [pc EXCEPT ![t] = "c_cached"]
          /\ arg' = [arg EXCEPT ![t] = id] /\ obj' = [obj EXCEPT ![t] = k]
      BY <2>2 DEF Begin, Goto, PCs
    <3> HIDE DEF k
    <3>2. QED
      BY <1>1, <2>3, <3>1 DEF TypeOK
  <2>6. TypeOK'
    BY <1>1, <1>2, <1>3, <2>4, <2>5 DEF TypeOK
  <2>7. UncreatedIsTrue'
    <3>1. SUFFICES ASSUME NEW p \in 1..Len(objs'), objs'[p] # NoId
                   PROVE  objs'[p].idx <= maxIndex \/ \E u \in Threads : Recording(u)' /\ obj'[u] = p
      BY <1>2 DEF UncreatedIsTrue
    <3>2. CASE p = k
      BY <2>5, <3>2 DEF Recording
    <3>3. CASE p # k
      <4>1. p \in 1..Len(objs) /\ objs'[p] = objs[p]
        BY <1>1, <2>4, <3>3
      <4>2. objs[p].idx <= maxIndex \/ \E u \in Threads : Recording(u) /\ obj[u] = p
        BY <3>1, <4>1 DEF SharedInv, UncreatedIsTrue
      <4>3. ~Recording(t)
        BY <1>2 DEF Recording
      <4>4. QED
        BY <2>5, <4>1, <4>2, <4>3 DEF Recording
    <3>4. QED
      BY <3>2, <3>3
  <2>8. ASSUME NEW u \in Threads PROVE Knows(pc[u], arg[u], obj[u])'
    <3>1. CASE u = t
      <4>1. k \in 1..Len(objs') /\ objs'[k] = id
        BY <1>1, <2>4
      <4>2. QED
        BY <2>5, <3>1, <4>1 DEF Knows, Names, Destroys
    <3>2. CASE u # t
      <4>1. /\ pc'[u] = pc[u] /\ arg'[u] = arg[u] /\ obj'[u] = obj[u]
            /\ Knows(pc[u], arg[u], obj[u])
        BY <2>5, <3>2 DEF SharedInv
      <4>2. /\ pc[u] # "idle" => arg[u] \in Ids
            /\ pc[u] \in SpHolds => obj[u] \in 1..Len(objs') /\ objs'[obj[u]] = arg[u]
            /\ pc[u] \in Destroys => Gone(obj[u])'
            /\ pc[u] = "f_op" => /\ obj[u] \in 1..Len(objs') /\ objs'[obj[u]] # NoId
                                 /\ Slot(objs'[obj[u]]) = Slot(arg[u])
        <5>1. pc[u] \in Destroys => obj[u] \in 1..Len(objs) /\ Gone(obj[u])
          BY <4>1 DEF Knows, Names, SpHolds
        <5>2. QED
          BY <1>1, <2>4, <4>1, <5>1, SpKnowsStill DEF Gone
      <4>3. QED
        BY <4>1, <4>2 DEF Knows, Names, Shares, Slot, Gone
    <3>3. QED
      BY <3>1, <3>2
  <2>9. QED
    BY <2>4, <2>6, <2>7, <2>8 DEF SharedInv
<1>5. CASE OtherObject(t)
  <2>1. PICK o \in Objects \union {NoObj}, id \in Ids \union {NoId} : o = NoObj /\ id = NoId
    OBVIOUS
  <2>2. CreateId(o) /\ objs' = Append(objs, id) /\ pc' = pc /\ arg' = arg /\ obj' = obj
    BY <1>5, <2>1 DEF OtherObject
  <2>4. /\ table' \in [Indices -> [gen : 0..Gens - 1, obj : Objects \union {NoObj}]]
        /\ highest' \in 0..IdCount /\ objs' \in Seq(Ids \union {NoId})
        /\ Len(objs') = Len(objs) + 1 /\ objs'[Len(objs) + 1] = id
        /\ \A p \in 1..Len(objs) : p \in 1..Len(objs') /\ objs'[p] = objs[p] /\ (Gone(p) => Gone(p)')
        /\ TableInv' /\ FastInv' /\ DestroyedAreGone'
    BY <1>2, <2>1, <2>2, SpCreated
  <2>5. TypeOK'
    BY <1>1, <1>2, <1>3, <2>2, <2>4 DEF TypeOK
  <2>6. UncreatedIsTrue'
    <3>1. SUFFICES ASSUME NEW p \in 1..Len(objs'), objs'[p] # NoId
                   PROVE  objs'[p].idx <= maxIndex \/ \E u \in Threads : Recording(u) /\ obj[u] = p
      BY <1>2, <2>2 DEF UncreatedIsTrue, Recording
    <3>2. p \in 1..Len(objs) /\ objs'[p] = objs[p]
      BY <1>1, <2>1, <2>4, <3>1
    <3>3. QED
      BY <3>1, <3>2 DEF SharedInv, UncreatedIsTrue
  <2>7. ASSUME NEW u \in Threads PROVE Knows(pc[u], arg[u], obj[u])'
    <3>1. Knows(pc[u], arg[u], obj[u])
      BY DEF SharedInv
    <3>2. /\ pc[u] # "idle" => arg[u] \in Ids
          /\ pc[u] \in SpHolds => obj[u] \in 1..Len(objs') /\ objs'[obj[u]] = arg[u]
          /\ pc[u] \in Destroys => Gone(obj[u])'
          /\ pc[u] = "f_op" => /\ obj[u] \in 1..Len(objs') /\ objs'[obj[u]] # NoId
                               /\ Slot(objs'[obj[u]]) = Slot(arg[u])
      <4>1. pc[u] \in Destroys => obj[u] \in 1..Len(objs) /\ Gone(obj[u])
        BY <3>1 DEF Knows, Names, SpHolds
      <4>2. QED
        BY <1>1, <2>2, <2>4, <3>1, <4>1, SpKnowsStill DEF Gone
    <3>3. QED
      BY <2>2, <3>2 DEF Knows, Names, Shares, Slot, Gone
  <2>8. QED
    BY <2>4, <2>5, <2>6, <2>7 DEF SharedInv
<1>6. QED
  BY <1>4, <1>5

(***************************************************************************)
(* A semaphore is destroyed: it leaves the table for good.                 *)
(***************************************************************************)
LEMMA SpDestroyInv ==
  ASSUME SharedInv, NEW t \in Threads, NEW id \in Ids, Destroy(t, id)
  PROVE  SharedInv'
<1> DEFINE n == id.idx
<1>1. /\ pc[t] = "idle" /\ Lookup(id) # NoObj /\ table' = [table EXCEPT ![n].obj = NoObj]
      /\ highest' = highest /\ objs' = objs /\ fast' = fast /\ cached' = cached /\ dead' = dead
      /\ maxIndex' = maxIndex /\ Begin(t, "d_dead", id, Lookup(id))
      /\ sawDead' = [u \in Threads |-> sawDead[u] \/ arg[u] = id]
  BY DEF Destroy, Withdraw, caches
<1>2. TypeOK /\ n \in Indices /\ Lookup(id) \in Objects \union {NoObj}
  BY SpIds DEF SharedInv
<1>3. PICK l \in PCs, o \in Objects \union {NoObj} : l = "d_dead" /\ o = Lookup(id)
  BY <1>2 DEF PCs
<1>4. Names(id, o) /\ table[n].obj = o /\ o # NoObj
  BY <1>1, <1>3, SpLookup
<1> HIDE DEF n
<1>5. /\ table' \in [Indices -> [gen : 0..Gens - 1, obj : Objects \union {NoObj}]]
      /\ table'[n].obj = NoObj /\ \A i \in Indices : i # n => table'[i] = table[i]
  BY <1>1, <1>2 DEF TypeOK
<1>6. Gone(o)'
  <2>1. SUFFICES ASSUME NEW i \in Indices, i # n, table[i].obj = o PROVE FALSE
    BY <1>4, <1>5 DEF Gone
  <2>2. objs[o] = [idx |-> i, gen |-> table[i].gen] /\ objs[o] = [idx |-> n, gen |-> table[n].gen]
    BY <1>2, <1>4, <2>1 DEF SharedInv, TableInv, Names
  <2>3. QED
    BY <2>1, <2>2
<1>7. ASSUME NEW p, Gone(p), p # NoObj PROVE Gone(p)'
  BY <1>5, <1>7 DEF Gone
<1>8. /\ pc' \in [Threads -> PCs] /\ pc'[t] = l /\ \A u \in Threads \ {t} : pc'[u] = pc[u]
      /\ arg' \in [Threads -> Ids \union {NoId}] /\ arg'[t] = id
      /\ \A u \in Threads \ {t} : arg'[u] = arg[u]
      /\ obj' \in [Threads -> Objects \union {NoObj}] /\ obj'[t] = o
      /\ \A u \in Threads \ {t} : obj'[u] = obj[u]
  BY <1>1, <1>2, <1>3 DEF TypeOK, Begin, Goto
<1>9. sawDead' \in [Threads -> BOOLEAN]
  BY <1>1, Zenon
<1>10. TypeOK'
  BY <1>1, <1>2, <1>5, <1>8, <1>9 DEF TypeOK
<1>11. TableInv'
  BY <1>1, <1>5 DEF SharedInv, TableInv, Names
<1>12. FastInv'
  BY <1>1 DEF SharedInv, FastInv, Shares, Slot
<1>13. UncreatedIsTrue'
  <2>1. ~Recording(t)
    BY <1>1 DEF Recording
  <2>2. SUFFICES ASSUME NEW p \in 1..Len(objs), objs[p] # NoId
                 PROVE  objs[p].idx <= maxIndex \/ \E u \in Threads : Recording(u)' /\ obj'[u] = p
    BY <1>1 DEF UncreatedIsTrue
  <2>3. objs[p].idx <= maxIndex \/ \E u \in Threads : Recording(u) /\ obj[u] = p
    BY <2>2 DEF SharedInv, UncreatedIsTrue
  <2>4. QED
    BY <1>8, <2>1, <2>3 DEF Recording
<1>14. DestroyedAreGone'
  <2>1. SUFFICES ASSUME NEW s \in 0..DeadSlots - 1, dead[s] # NoId
                 PROVE  \E p \in 1..Len(objs) : objs[p] = dead[s] /\ Gone(p)'
    BY <1>1 DEF DestroyedAreGone, Gone
  <2>2. PICK p \in 1..Len(objs) : objs[p] = dead[s] /\ Gone(p)
    BY <2>1 DEF SharedInv, DestroyedAreGone, Gone
  <2>3. p # NoObj
    BY DEF NoObj
  <2>4. QED
    BY <1>7, <2>2, <2>3
<1>15. ASSUME NEW u \in Threads PROVE Knows(pc[u], arg[u], obj[u])'
  <2>1. CASE u = t
    BY <1>1, <1>3, <1>4, <1>6, <1>8, <2>1 DEF Knows, Names, Gone
  <2>2. CASE u # t
    <3>1. /\ pc'[u] = pc[u] /\ arg'[u] = arg[u] /\ obj'[u] = obj[u] /\ Knows(pc[u], arg[u], obj[u])
      BY <1>8, <2>2 DEF SharedInv
    <3>2. pc[u] \in Destroys => Gone(obj[u])'
      <4>1. SUFFICES ASSUME pc[u] \in Destroys PROVE Gone(obj[u])'
        OBVIOUS
      <4>2. Gone(obj[u]) /\ obj[u] \in 1..Len(objs)
        BY <3>1, <4>1 DEF Knows, Names, SpHolds
      <4>3. obj[u] # NoObj
        BY <4>2 DEF NoObj
      <4>4. \A i \in Indices : table'[i].obj # obj[u]
        BY <1>5, <4>2, <4>3 DEF Gone
      <4>5. QED
        BY <3>1, <4>4 DEF Gone
    <3>3. QED
      BY <1>1, <3>1, <3>2 DEF Knows, Names, Shares, Slot, Gone
  <2>3. QED
    BY <2>1, <2>2
<1>16. QED
  BY <1>10, <1>11, <1>12, <1>13, <1>14, <1>15 DEF SharedInv

(***************************************************************************)
(* Before anything was created.                                            *)
(***************************************************************************)
LEMMA SpInit ==
  ASSUME Init
  PROVE  SharedInv
<1> USE SizesAssumption
<1>1. TypeOK
  <2>1. 0 \in 0..Gens - 1 /\ highest \in 0..IdCount /\ maxIndex \in -1..IdCount - 1
    BY DEF Init
  <2>2. sawDead \in [Threads -> BOOLEAN]
    BY Zenon DEF Init
  <2>3. "idle" \in PCs /\ objs \in Seq(Ids \union {NoId})
    BY DEF PCs, Init
  <2>4. QED
    BY <2>1, <2>2, <2>3 DEF Init, TypeOK
<1>2. Len(objs) = 0 /\ \A t \in Threads : pc[t] = "idle"
  BY DEF Init
<1>3. TableInv /\ FastInv
  BY DEF Init, TableInv, FastInv
<1>4. UncreatedIsTrue /\ DestroyedAreGone
  BY <1>2 DEF Init, UncreatedIsTrue, DestroyedAreGone
<1>5. \A t \in Threads : Knows(pc[t], arg[t], obj[t])
  BY <1>2 DEF Knows, SpHolds, Creates, Destroys
<1>6. QED
  BY <1>1, <1>3, <1>4, <1>5 DEF SharedInv

(***************************************************************************)
(* Every step of every thread keeps the invariant.                         *)
(***************************************************************************)
LEMMA SpNextInv ==
  ASSUME SharedInv, [Next]_vars
  PROVE  SharedInv'
<1>1. CASE Next
  BY <1>1, SpCallInv, SpFastInv, SpNormalInv, SpCleanInv, SpForgetInv, SpMaxInv, SpRememberInv, SpRecordInv,
     SpCreateInv, SpDestroyInv DEF Next
<1>2. CASE UNCHANGED vars
  <2>1. /\ table' = table /\ highest' = highest /\ objs' = objs /\ fast' = fast /\ cached' = cached
        /\ dead' = dead /\ maxIndex' = maxIndex /\ pc' = pc /\ arg' = arg /\ obj' = obj /\ sawDead' = sawDead
    BY <1>2 DEF vars, idm, caches
  <2>2. TypeOK'
    BY <2>1 DEF SharedInv, TypeOK
  <2>3. TableInv' /\ FastInv' /\ UncreatedIsTrue' /\ DestroyedAreGone'
    BY <2>1 DEF SharedInv, TableInv, FastInv, Names, Shares, Slot, UncreatedIsTrue, Recording, DestroyedAreGone
  <2>4. ASSUME NEW u \in Threads PROVE Knows(pc[u], arg[u], obj[u])'
    BY <2>1 DEF SharedInv, Knows, Names, Shares, Slot, Gone
  <2>5. QED
    BY <2>2, <2>3, <2>4 DEF SharedInv
<1>3. QED
  BY <1>1, <1>2

(***************************************************************************)
(* The caches of the shortcut, shared by any number of threads, of any     *)
(* size, and with counters that wrap: a hit is a semaphore of the entry it *)
(* was found in; the answer that an identifier was never created is not    *)
(* given of a semaphore whose create has returned; and destroyed_ids holds *)
(* only identifiers whose semaphore left the table.                        *)
(***************************************************************************)
THEOREM SuperpathStaysShared == Spec => []SuperpathShared
<1>1. Init => SharedInv
  BY SpInit
<1>2. SharedInv /\ [Next]_vars => SharedInv'
  BY SpNextInv
<1>3. SharedInv => SuperpathShared
  <2>1. SharedInv => HitSharesEntry
    BY DEF SharedInv, HitSharesEntry, Knows, Shares
  <2>2. QED
    BY <2>1 DEF SharedInv, SuperpathShared
<1>4. QED
  BY <1>1, <1>2, <1>3, PTL DEF Spec
=============================================================================
