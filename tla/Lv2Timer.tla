------------------------------ MODULE Lv2Timer ------------------------------
(***************************************************************************)
(* The timers of the LV2 kernel (lv2_timer, lv2_timer_thread and the       *)
(* sys_timer system calls).  One host thread looks at all timers and then  *)
(* sleeps until the next one expires, or without end if none will.  The    *)
(* system calls also let a timer expire that is due (check_unlocked), and  *)
(* start wakes the thread.  Every call reads the time before it has the    *)
(* mutex of the timer.                                                     *)
(*                                                                         *)
(* Time is a number; a sleep of finite length may end at any moment.       *)
(* Creating and destroying timers, pausing and savestates are left out.    *)
(***************************************************************************)
EXTENDS Integers, FiniteSets, FiniteSetsExt

CONSTANTS
  Threads,    \* guest threads
  Timers,     \* timers
  Periods,    \* what timers are started with, 0 for a single expiration
  Asked,      \* the periods of running timers that guests call for
  MaxTime,    \* bound: the last moment
  MaxTicks    \* bound: how often a timer expires

VARIABLES
  clock,     \* get_guest_system_time
  port,      \* port[m]: timer m has an event queue
  run,       \* run[m]: state is SYS_TIMER_STATE_RUN
  expire,    \* expire[m]
  period,    \* period[m]
  sends,     \* sends[m]: events sent since the start
  first,     \* first[m]: the first expiration since the start
  pc,        \* pc[t]: guest thread t is "idle", in a "call", or about to "poke"
  now,       \* now[t]: the time that t has read
  tpc,       \* the timer thread: "sleep", "scan", "lock"
  tnow,      \* the time that it has read
  todo,      \* the timers that it has not looked at
  cur,       \* the timer whose mutex it is about to lock
  forever,   \* sleep_time is umax
  poked      \* it has been notified

timerVars == <<port, run, expire, period, sends, first>>
threadVars == <<tpc, tnow, todo, cur, forever, poked>>
vars == <<clock, timerVars, pc, now, threadVars>>

Init ==
  /\ clock = 0
  /\ port = [m \in Timers |-> FALSE]
  /\ run = [m \in Timers |-> FALSE]
  /\ expire = [m \in Timers |-> 0]
  /\ period = [m \in Timers |-> 0]
  /\ sends = [m \in Timers |-> 0]
  /\ first = [m \in Timers |-> 0]
  /\ pc = [t \in Threads |-> "idle"]
  /\ now = [t \in Threads |-> 0]
  /\ tpc = "sleep"
  /\ tnow = 0
  /\ todo = {}
  /\ cur = CHOOSE m \in Timers : TRUE
  /\ forever = FALSE
  /\ poked = FALSE

-----------------------------------------------------------------------------
(* lv2_timer::check_unlocked *)

Due(m, time) == run[m] /\ time >= expire[m]

\* If the timer is due, its event is sent and it is set for the next time, or
\* stopped.
Expire(m) ==
  /\ sends' = [sends EXCEPT ![m] = @ + 1]
  /\ expire' = [expire EXCEPT ![m] = @ + period[m]]
  /\ run' = [run EXCEPT ![m] = period[m] > 0]
  /\ UNCHANGED <<period, first>>

CheckUnlocked(m, time) ==
  IF Due(m, time) THEN Expire(m) ELSE UNCHANGED <<sends, expire, run, period, first>>

-----------------------------------------------------------------------------
(* The timer thread *)

\* It wakes up and reads the time.
ThreadWake ==
  /\ tpc = "sleep"
  /\ poked \/ ~forever
  /\ poked' = FALSE
  /\ tnow' = clock
  /\ todo' = Timers
  /\ forever' = TRUE
  /\ tpc' = "scan"
  /\ UNCHANGED <<clock, timerVars, pc, now, cur>>

\* check: the timer is looked at without its mutex.
ThreadLook(m) ==
  /\ tpc = "scan" /\ m \in todo
  /\ IF Due(m, tnow)
     THEN tpc' = "lock" /\ cur' = m /\ UNCHANGED <<todo, forever>>
     ELSE /\ todo' = todo \ {m}
          /\ forever' = (forever /\ ~run[m])
          /\ UNCHANGED <<tpc, cur>>
  /\ UNCHANGED <<clock, timerVars, pc, now, tnow, poked>>

\* Variant for mutation: what was seen without the mutex is relied on.
ThreadCheckTrusting ==
  /\ tpc = "lock"
  /\ Expire(cur)
  /\ tpc' = "scan"
  /\ todo' = IF run'[cur] /\ tnow >= expire'[cur] THEN todo ELSE todo \ {cur}
  /\ forever' = (forever /\ ~run'[cur])
  /\ UNCHANGED <<clock, port, pc, now, tnow, cur, poked>>

\* check_unlocked under the mutex: it returns umax if the timer is not due
\* (any more), else the time to the next expiration; 0 means once more.
ThreadCheck ==
  /\ tpc = "lock"
  /\ CheckUnlocked(cur, tnow)
  /\ tpc' = "scan"
  /\ IF Due(cur, tnow) /\ run'[cur] /\ tnow >= expire'[cur]
     THEN UNCHANGED <<todo, forever>>
     ELSE /\ todo' = todo \ {cur}
          /\ forever' = (forever /\ ~(Due(cur, tnow) /\ run'[cur]))
  /\ UNCHANGED <<clock, port, pc, now, tnow, cur, poked>>

ThreadSleep ==
  /\ tpc = "scan" /\ todo = {}
  /\ tpc' = "sleep"
  /\ UNCHANGED <<clock, timerVars, pc, now, tnow, todo, cur, forever, poked>>

-----------------------------------------------------------------------------
(* The system calls *)

\* A call reads the time.
Begin(t) ==
  /\ pc[t] = "idle"
  /\ pc' = [pc EXCEPT ![t] = "call"]
  /\ now' = [now EXCEPT ![t] = clock]
  /\ UNCHANGED <<clock, timerVars, threadVars>>

Calling(t, then) ==
  /\ pc[t] = "call"
  /\ pc' = [pc EXCEPT ![t] = then]
  /\ now' = [now EXCEPT ![t] = 0]
  /\ UNCHANGED clock

\* Variant for mutation: the time is rounded down to the period.
StartTimeEarly(start, base, p) ==
  CASE p = 0 -> base
    [] p > 0 /\ base = 0 -> start + p
    [] p > 0 /\ base > 0 /\ start < base + p -> base + p
    [] OTHER -> (start - (start % p)) + (base % p)

\* When a timer started at this time expires first.
StartTime(start, base, p) ==
  CASE p = 0 -> base
    [] p > 0 /\ base = 0 -> start + p
    [] p > 0 /\ base > 0 /\ start < base + p -> base + p
    [] OTHER -> LET r == (start - (start % p)) + (base % p)
                IN IF r < start THEN r + p ELSE r

\* _sys_timer_start of a timer that is stopped, or that the call lets expire
\* for the last time; ETIMEDOUT if a single expiration is past.
Start(t, m, base, p) ==
  /\ Calling(t, "poke")
  /\ port[m]
  /\ run[m] => Due(m, now[t]) /\ period[m] = 0
  /\ p > 0 \/ now[t] < base
  /\ expire' = [expire EXCEPT ![m] = StartTime(now[t], base, p)]
  /\ first' = [first EXCEPT ![m] = expire'[m]]
  /\ sends' = [sends EXCEPT ![m] = 0]
  /\ period' = [period EXCEPT ![m] = p]
  /\ run' = [run EXCEPT ![m] = TRUE]
  /\ UNCHANGED <<port, threadVars>>

\* Variant for mutation: the thread is notified only if it sleeps.
PokeSleeper(t) ==
  /\ pc[t] = "poke"
  /\ pc' = [pc EXCEPT ![t] = "idle"]
  /\ poked' = (poked \/ tpc = "sleep")
  /\ UNCHANGED <<clock, timerVars, now, tpc, tnow, todo, cur, forever>>

\* Its end: the timer thread is notified.
Poke(t) ==
  /\ pc[t] = "poke"
  /\ pc' = [pc EXCEPT ![t] = "idle"]
  /\ poked' = TRUE
  /\ UNCHANGED <<clock, timerVars, now, tpc, tnow, todo, cur, forever>>

\* sys_timer_get_information, or start of a running timer (EBUSY): a timer
\* that is due expires in the call.
GetInformation(t, m) ==
  /\ Calling(t, "idle")
  /\ run[m] => period[m] \in Asked
  /\ CheckUnlocked(m, now[t])
  /\ UNCHANGED <<port, threadVars>>

\* sys_timer_stop, and sys_timer_disconnect_event_queue.
Stop(t, m, disconnect) ==
  /\ Calling(t, "idle")
  /\ port[m]
  /\ sends' = [sends EXCEPT ![m] = IF Due(m, now[t]) THEN @ + 1 ELSE @]
  /\ expire' = [expire EXCEPT ![m] = IF Due(m, now[t]) THEN @ + period[m] ELSE @]
  /\ run' = [run EXCEPT ![m] = FALSE]
  /\ port' = [port EXCEPT ![m] = ~disconnect]
  /\ UNCHANGED <<period, first, threadVars>>

\* sys_timer_connect_event_queue
Connect(t, m) ==
  /\ Calling(t, "idle")
  /\ ~port[m]
  /\ port' = [port EXCEPT ![m] = TRUE]
  /\ UNCHANGED <<run, expire, period, sends, first, threadVars>>

Tick ==
  /\ clock < MaxTime
  /\ clock' = clock + 1
  /\ UNCHANGED <<timerVars, pc, now, threadVars>>

Bounded == \A m \in Timers : sends[m] < MaxTicks

Thread == ThreadWake \/ (\E m \in Timers : ThreadLook(m)) \/ ThreadCheck \/ ThreadSleep

Next ==
  \/ Bounded /\ Thread
  \/ Tick
  \/ \E t \in Threads :
       \/ Begin(t) \/ Poke(t)
       \/ \E m \in Timers :
            \/ \E p \in Periods, base \in 0..MaxTime : Start(t, m, base, p)
            \/ Bounded /\ GetInformation(t, m)
            \/ Bounded /\ \E disconnect \in BOOLEAN : Stop(t, m, disconnect)
            \/ Connect(t, m)

Spec == Init /\ [][Next]_vars

-----------------------------------------------------------------------------
(* Properties *)

TypeOK ==
  /\ clock \in 0..MaxTime
  /\ port \in [Timers -> BOOLEAN] /\ run \in [Timers -> BOOLEAN]
  /\ expire \in [Timers -> Nat] /\ first \in [Timers -> Nat]
  /\ period \in [Timers -> Periods \union {0}]
  /\ sends \in [Timers -> 0..MaxTicks]
  /\ pc \in [Threads -> {"idle", "call", "poke"}] /\ now \in [Threads -> 0..MaxTime]
  /\ tpc \in {"sleep", "scan", "lock"} /\ tnow \in 0..MaxTime
  /\ todo \subseteq Timers /\ cur \in Timers
  /\ forever \in BOOLEAN /\ poked \in BOOLEAN

(***************************************************************************)
(* "Set next expiration time and check again": the timer thread does not   *)
(* sleep without end while a timer runs, unless a notification is on the   *)
(* way.                                                                    *)
(***************************************************************************)
RunningIsWatched ==
  tpc = "sleep" /\ forever /\ ~poked =>
    (\A m \in Timers : ~run[m]) \/ (\E t \in Threads : pc[t] = "poke")

(***************************************************************************)
(* One event for each expiration: the thread and the calls, who all let a  *)
(* due timer expire, neither send an event twice nor skip one.             *)
(***************************************************************************)
OneEventEach ==
  \A m \in Timers :
    IF period[m] = 0 THEN sends[m] <= IF run[m] THEN 0 ELSE 1
    ELSE run[m] => expire[m] = first[m] + sends[m] * period[m]

\* The loop of which the code says that it is "optimized from" it.
LoopTime(start, base, p) ==
  Min({base + k * p : k \in {i \in 1..start + 1 : base + i * p >= start \/ i = start + 1}})

(***************************************************************************)
(* The first expiration of a periodic timer is that of the loop in LV2.    *)
(***************************************************************************)
StartFollowsLoop ==
  \A start \in 0..8, base \in 1..8, p \in 1..4 :
    StartTime(start, base, p) = LoopTime(start, base, p)
=============================================================================
