------------------------- MODULE MainThreadProcessor -------------------------
(***************************************************************************)
(* The thread of the Android bridge that runs callbacks with a Java        *)
(* environment (MainThreadProcessor).  Other threads push callbacks, and   *)
(* with invokeSync wait until theirs has run: the processor then sets a    *)
(* flag on the caller's stack and notifies the address of the flag.        *)
(***************************************************************************)
EXTENDS Integers, Sequences, FiniteSets

CONSTANTS
  Callers,    \* threads that push callbacks
  MaxCalls    \* bound: callbacks

VARIABLES
  calls,      \* queue: the callers whose callback waits, oldest first
  made,       \* callbacks pushed so far
  cpc,        \* cpc[c]: "idle", "test", "asleep" or "awake" in invokeSync
  flag,       \* flag[c]: wakeup of c
  ppc,        \* the processor: "look", "wait", "call", "set", "notify"
  signalled,  \* cv was notified while the processor waited
  current     \* the caller whose callback the processor has, or {}

mtpVars == <<calls, made, cpc, flag, ppc, signalled, current>>

Init ==
  /\ calls = <<>>
  /\ made = 0
  /\ cpc = [c \in Callers |-> "idle"]
  /\ flag = [c \in Callers |-> FALSE]
  /\ ppc = "look"
  /\ signalled = FALSE
  /\ current = {}

-----------------------------------------------------------------------------
(* push, invokeAsync, invokeSync *)

\* Variant for mutation: cv is not notified for a synchronous call.
PushQuiet(s) ==
  /\ made < MaxCalls
  /\ made' = made + 1
  /\ calls' = Append(calls, s)
  /\ signalled' = (signalled \/ (ppc = "wait" /\ s = {}))
  /\ UNCHANGED <<ppc, current>>

\* A callback of c, or of nobody who waits, is queued and cv notified.
Push(s) ==
  /\ made < MaxCalls
  /\ made' = made + 1
  /\ calls' = Append(calls, s)
  /\ signalled' = (signalled \/ ppc = "wait")
  /\ UNCHANGED <<ppc, current>>

InvokeAsync == Push({}) /\ UNCHANGED <<cpc, flag>>

InvokeSync(c) ==
  /\ cpc[c] = "idle"
  /\ Push({c})
  /\ cpc' = [cpc EXCEPT ![c] = "test"]
  /\ flag' = [flag EXCEPT ![c] = FALSE]

\* Variant for mutation: the flag is not tested again after the wait.
SyncTestOnce(c) ==
  /\ cpc[c] \in {"test", "awake"}
  /\ cpc' = [cpc EXCEPT ![c] = IF flag[c] \/ cpc[c] = "awake" THEN "idle" ELSE "asleep"]
  /\ UNCHANGED <<calls, made, flag, ppc, signalled, current>>

\* The flag is tested, and the wait begun only if it is still not set.
SyncTest(c) ==
  /\ cpc[c] \in {"test", "awake"}
  /\ cpc' = [cpc EXCEPT ![c] = IF flag[c] THEN "idle" ELSE "asleep"]
  /\ UNCHANGED <<calls, made, flag, ppc, signalled, current>>

\* The wait on an address may also end by itself.
SyncWake(c) ==
  /\ cpc[c] = "asleep"
  /\ cpc' = [cpc EXCEPT ![c] = "awake"]
  /\ UNCHANGED <<calls, made, flag, ppc, signalled, current>>

-----------------------------------------------------------------------------
(* process *)

\* Under the mutex: a callback is taken, or cv awaited.
ProcessLook ==
  /\ ppc = "look"
  /\ IF calls = <<>> THEN ppc' = "wait" /\ UNCHANGED <<calls, current>>
     ELSE ppc' = "call" /\ current' = Head(calls) /\ calls' = Tail(calls)
  /\ UNCHANGED <<made, cpc, flag, signalled>>

ProcessWake ==
  /\ ppc = "wait" /\ signalled
  /\ signalled' = FALSE
  /\ ppc' = "look"
  /\ UNCHANGED <<calls, made, cpc, flag, current>>

ProcessCall ==
  /\ ppc = "call"
  /\ ppc' = IF current = {} THEN "look" ELSE "set"
  /\ UNCHANGED <<calls, made, cpc, flag, signalled, current>>

ProcessSet ==
  /\ ppc = "set"
  /\ flag' = [c \in Callers |-> flag[c] \/ c \in current]
  /\ ppc' = "notify"
  /\ UNCHANGED <<calls, made, cpc, signalled, current>>

ProcessNotify ==
  /\ ppc = "notify"
  /\ cpc' = [c \in Callers |-> IF c \in current /\ cpc[c] = "asleep" THEN "awake" ELSE cpc[c]]
  /\ current' = {}
  /\ ppc' = "look"
  /\ UNCHANGED <<calls, made, flag, signalled>>

Process == ProcessLook \/ ProcessWake \/ ProcessCall \/ ProcessSet \/ ProcessNotify

Next ==
  \/ InvokeAsync
  \/ \E c \in Callers : InvokeSync(c) \/ SyncTest(c) \/ SyncWake(c)
  \/ Process

\* The processor runs, and callers test their flag; a wait need not end by itself.
Fairness == WF_mtpVars(Process) /\ \A c \in Callers : WF_mtpVars(SyncTest(c))

Spec == Init /\ [][Next]_mtpVars /\ Fairness

-----------------------------------------------------------------------------
(* Properties *)

TypeOK ==
  /\ calls \in Seq({{}} \union {{c} : c \in Callers})
  /\ made \in 0..MaxCalls
  /\ cpc \in [Callers -> {"idle", "test", "asleep", "awake"}]
  /\ flag \in [Callers -> BOOLEAN]
  /\ ppc \in {"look", "wait", "call", "set", "notify"}
  /\ signalled \in BOOLEAN
  /\ current \subseteq Callers

\* The callbacks that have not run.
Waiting == UNION ({calls[i] : i \in 1..Len(calls)} \union {IF ppc = "call" THEN current ELSE {}})

(***************************************************************************)
(* invokeSync returns after its callback has run, also when the processor  *)
(* still notifies the flag of an earlier call at the same place on the     *)
(* stack; and the processor does not wait while a callback is queued.      *)
(***************************************************************************)
SyncIsSync ==
  /\ \A c \in Waiting : cpc[c] # "idle"
  /\ ppc = "wait" /\ ~signalled => calls = <<>>

(***************************************************************************)
(* Every call of invokeSync returns.                                       *)
(***************************************************************************)
SyncReturns == \A c \in Callers : (cpc[c] # "idle") ~> (cpc[c] = "idle")
=============================================================================
