------------------------------ MODULE Lv2Event ------------------------------
(***************************************************************************)
(* An event queue of the LV2 kernel and a port connected to it             *)
(* (lv2_event_queue, lv2_event_port, the sys_event system calls).  An      *)
(* event goes to a waiting receiver, who finds it in its registers, or     *)
(* into the queue up to its size.  Everything that touches the queue holds *)
(* its internal mutex, so a call is one step up to awake.                  *)
(*                                                                         *)
(* A sender that has awakened a more urgent receiver stays in its call     *)
(* until it runs again, and the port counts it as busy.  If it is stopped  *)
(* there it leaves with cpu_flag::again although the event is sent.  The   *)
(* branch of port_send for loaded_from_savestate is not taken: the flag is *)
(* set only for threads that were asleep when the state was saved.         *)
(*                                                                         *)
(* Queues of the SPU type are left out.  Each event is sent by one call,   *)
(* so that events can be told apart.                                       *)
(***************************************************************************)
EXTENDS Lv2Obj

CONSTANTS
  MaxEvents,  \* bound: how many events are sent
  QueueSize   \* size

VARIABLES
  alive,      \* the queue's counter exists is not 0
  events,     \* events, oldest first
  pq,         \* waiting receivers, newest first
  given,      \* given[t]: the event in the registers of t
  arg,        \* arg[t]: the event that t sends
  port,       \* [up, connected]: the port exists, and has its queue
  busy,       \* is_busy
  toAwake,    \* taken off the list, not yet awakened
  made,       \* how many events the guest has sent
  accepted,   \* events whose send returned CELL_OK
  taken       \* taken[e]: how often e was received, or dropped by a call

own == <<alive, events, pq, given, arg, port, busy, toAwake, made, accepted, taken>>
vars == <<objVars, own>>

Events == 1..MaxEvents
NoEvent == 0

\* "r_*": receive; "t_*": its timeout path; "s_wake", "p_wake", "d_wake": before
\* awake in a send, a send that will wait, a destroy; "p_wait": the sender is
\* counted in is_busy; "a_*": left with cpu_flag::again, "*_redo": made again.
PCs == {"idle", "r_wait", "t_check", "t_test", "t_over", "t_lock", "s_wake", "p_wake",
        "d_wake", "p_wait", "a_recv", "a_send", "a_sent", "a_destroy",
        "r_redo", "s_redo", "d_redo"}

Init ==
  /\ ObjInit
  /\ alive = TRUE
  /\ events = <<>>
  /\ pq = <<>>
  /\ given = [t \in Threads |-> NoEvent]
  /\ arg = [t \in Threads |-> NoEvent]
  /\ port = [up |-> TRUE, connected |-> TRUE]
  /\ busy = 0
  /\ toAwake = {}
  /\ made = 0
  /\ accepted = {}
  /\ taken = [e \in Events |-> 0]

-----------------------------------------------------------------------------
Again(t) == pc[t] = "a_recv"

Enter(t, l, to) ==
  /\ pc' = [pc EXCEPT ![t] = l]
  /\ timed' = [timed EXCEPT ![t] = to]

Goto(t, l) == Enter(t, l, timed[t])

Return(t) == Enter(t, "idle", FALSE)

\* The events in s reach the guest, or are dropped by its wish.
Take(s) == taken' = [e \in Events |-> taken[e] + Cardinality({i \in 1..Len(s) : s[i] = e})]

\* receive returns: with an event, or with NoEvent if it was cancelled.
ReturnGiven(t) ==
  /\ Return(t)
  /\ given' = [given EXCEPT ![t] = NoEvent]
  /\ Take(<<given[t]>>)

-----------------------------------------------------------------------------
(* sys_event_queue_receive, tryreceive, drain *)

Receive(t, from, to) ==
  /\ Running(t, from)
  /\ guard = NoThread
  /\ IF events = <<>>
     THEN /\ FallAsleep(t)
          /\ pq' = <<t>> \o pq
          /\ Enter(t, "r_wait", to)
          /\ UNCHANGED <<events, taken>>
     ELSE /\ Take(<<Head(events)>>)
          /\ events' = Tail(events)
          /\ Return(t)
          /\ UNCHANGED <<sched, toSleep, pq>>
  /\ UNCHANGED <<fifo, exists, stopped, saves, faults, guard, alive, given, arg, port, busy,
                 toAwake, made, accepted>>

TakeSignal(t) ==
  /\ Signalled(t, "r_wait")
  /\ ReturnGiven(t)
  /\ UNCHANGED <<world, guard, alive, events, pq, arg, port, busy, toAwake, made, accepted>>

WaitStopped(t) ==
  /\ Stopping(t, "r_wait")
  /\ IF Contains(pq, t) THEN Goto(t, "a_recv") /\ UNCHANGED <<given, taken>> ELSE ReturnGiven(t)
  /\ UNCHANGED <<world, guard, sched, alive, events, pq, arg, port, busy, toAwake, made,
                 accepted>>

TimeOut(t) ==
  /\ TimedOut(t, "r_wait")
  /\ Goto(t, "t_check")
  /\ UNCHANGED <<world, guard, sched, own>>

TimeOutCheck(t) ==
  /\ pc[t] = "t_check"
  /\ CheckState(t, "r_wait", "t_test")
  /\ UNCHANGED <<world, guard, timed, own>>

\* The list is looked at without the internal mutex.
TimeOutTest(t) ==
  /\ pc[t] = "t_test"
  /\ Goto(t, IF pq = <<>> THEN "t_over" ELSE "t_lock")
  /\ UNCHANGED <<world, guard, sched, own>>

\* "the thread must have been signaled"
TimeOutOver(t) ==
  /\ pc[t] = "t_over"
  /\ guard = NoThread
  /\ ReturnGiven(t)
  /\ UNCHANGED <<world, guard, sched, alive, events, pq, arg, port, busy, toAwake, made,
                 accepted>>

\* Variant for mutation: the thread gives up even if it has an event.
TimeOutLockBlind(t) ==
  /\ pc[t] = "t_lock"
  /\ guard = NoThread
  /\ pq' = Without(pq, t)
  /\ Return(t)
  /\ given' = [given EXCEPT ![t] = NoEvent]
  /\ UNCHANGED <<world, guard, sched, alive, events, arg, port, busy, toAwake, made, accepted,
                 taken>>

\* ETIMEDOUT, unless the thread is off the list.
TimeOutLock(t) ==
  /\ pc[t] = "t_lock"
  /\ guard = NoThread
  /\ pq' = Without(pq, t)
  /\ ReturnGiven(t)
  /\ UNCHANGED <<world, guard, sched, alive, events, arg, port, busy, toAwake, made, accepted>>

\* Variant for mutation: the events that were copied stay in the queue.
TryReceiveKeeps(t, n) ==
  /\ Running(t, "idle")
  /\ guard = NoThread
  /\ alive /\ events # <<>>
  /\ Take(SubSeq(events, 1, IF n < Len(events) THEN n ELSE Len(events)))
  /\ UNCHANGED <<world, guard, pc, timed, sched, alive, events, pq, given, arg, port, busy,
                 toAwake, made, accepted>>

\* tryreceive takes up to n events, drain throws all away.
TryReceive(t, n) ==
  /\ Running(t, "idle")
  /\ guard = NoThread
  /\ alive /\ events # <<>>
  /\ LET k == IF n < Len(events) THEN n ELSE Len(events)
     IN Take(SubSeq(events, 1, k)) /\ events' = SubSeq(events, k + 1, Len(events))
  /\ UNCHANGED <<world, guard, pc, timed, sched, alive, pq, given, arg, port, busy, toAwake,
                 made, accepted>>

Drain(t) ==
  /\ Running(t, "idle")
  /\ guard = NoThread
  /\ events # <<>>
  /\ Take(events)
  /\ events' = <<>>
  /\ UNCHANGED <<world, guard, pc, timed, sched, alive, pq, given, arg, port, busy, toAwake,
                 made, accepted>>

-----------------------------------------------------------------------------
(* lv2_event_queue::send and sys_event_port_send *)

\* The event is queued, given to u, or refused.
Store(e) ==
  /\ pq = <<>> /\ Len(events) < QueueSize
  /\ events' = Append(events, e)
  /\ accepted' = accepted \union {e}

Give(e, u) ==
  /\ pq' = Without(pq, u)
  /\ given' = [given EXCEPT ![u] = e]
  /\ accepted' = accepted \union {e}

\* A receiver is served; the send is put off if it has left for a savestate.
SendReceiver(t, e) ==
  /\ pq # <<>>
  /\ \E u \in ServedFirst(pq) :
       IF Again(u)
       THEN Goto(t, "a_send") /\ UNCHANGED <<pq, given, accepted, toAwake, guard, busy>>
       ELSE /\ Give(e, u)
            /\ toAwake' = {u}
            /\ guard' = t
            /\ IF Prio[u] < Prio[t]
               THEN Goto(t, "p_wake") /\ busy' = busy + 1
               ELSE Goto(t, "s_wake") /\ UNCHANGED busy
  /\ arg' = [arg EXCEPT ![t] = IF pc'[t] = "s_wake" THEN NoEvent ELSE e]
  /\ UNCHANGED events

\* ESRCH, ENOTCONN or EBUSY: nothing happens.
SendRefused(t) ==
  /\ ~port.up \/ ~port.connected \/ ~alive \/ (pq = <<>> /\ Len(events) = QueueSize)
  /\ Goto(t, "idle")
  /\ arg' = [arg EXCEPT ![t] = NoEvent]
  /\ UNCHANGED <<guard, events, pq, given, busy, toAwake, accepted>>

Send(t, from, e) ==
  /\ MayStep(t, from)
  /\ guard = NoThread
  /\ \/ SendRefused(t)
     \/ /\ port.up /\ port.connected /\ alive
        /\ \/ SendReceiver(t, e)
           \/ /\ Store(e)
              /\ Goto(t, "idle")
              /\ arg' = [arg EXCEPT ![t] = NoEvent]
              /\ UNCHANGED <<guard, pq, given, busy, toAwake>>
  /\ made' = IF from = "idle" THEN e ELSE made
  /\ UNCHANGED <<world, sched, alive, port, taken>>

\* awake.
Wake(t) ==
  /\ pc[t] \in {"s_wake", "p_wake", "d_wake"}
  /\ Awaken(toAwake)
  /\ toAwake' = {}
  /\ guard' = NoThread
  /\ Goto(t, IF pc[t] = "p_wake" THEN "p_wait" ELSE "idle")
  /\ UNCHANGED <<world, alive, events, pq, given, arg, port, busy, made, accepted, taken>>

\* The sender runs again, or is stopped and will make its call anew.
SendRequeued(t) ==
  /\ pc[t] = "p_wait"
  /\ busy' = busy - 1
  /\ IF t \in stopped THEN Goto(t, "a_sent") /\ UNCHANGED arg
     ELSE Goto(t, "idle") /\ arg' = [arg EXCEPT ![t] = NoEvent]
  /\ UNCHANGED <<world, guard, sched, alive, events, pq, given, port, toAwake, made, accepted,
                 taken>>

\* A send of a host thread, such as the timer thread: it cannot be put off.
HostSend(e) ==
  /\ guard = NoThread /\ alive /\ toSleep = {}
  /\ \/ /\ Store(e) /\ UNCHANGED <<pq, given, sched>>
     \/ /\ pq # <<>>
        /\ \E u \in ServedFirst(pq) :
             IF Again(u) THEN UNCHANGED <<pq, given, sched, accepted>>   \* "Ignored event!"
             ELSE Give(e, u) /\ Awaken({u})
        /\ UNCHANGED events
  /\ made' = e
  /\ UNCHANGED <<world, guard, pc, timed, alive, arg, port, busy, toAwake, taken>>

-----------------------------------------------------------------------------
(* Destroying, connecting *)

\* The lock of the identifier table is not held by a send.
TableFree == \A u \in Threads : pc[u] \notin {"s_wake", "p_wake"}

\* sys_event_queue_destroy: EBUSY if somebody waits and it is not forced.  If
\* a waiter has left for a savestate the call is put off, but the queue does
\* not count as existing any more.
Destroy(t, from, force) ==
  /\ Running(t, from)
  /\ guard = NoThread
  /\ force \/ pq = <<>>
  /\ alive' = FALSE
  /\ IF \E i \in 1..Len(pq) : Again(pq[i])
     THEN Goto(t, "a_destroy") /\ UNCHANGED <<exists, guard, pq, toAwake>>
     ELSE /\ exists' = FALSE
          /\ toAwake' = Range(pq)
          /\ pq' = <<>>
          /\ guard' = t
          /\ Goto(t, "d_wake")
  /\ UNCHANGED <<fifo, stopped, toSleep, saves, faults, sched, events, given, arg, port, busy,
                 made, accepted, taken>>

\* Variant for mutation: senders do not keep the port connected.
DisconnectBusy(t) ==
  /\ MayStep(t, "idle") /\ TableFree
  /\ port.up /\ port.connected /\ alive
  /\ port' = [port EXCEPT !.connected = FALSE]
  /\ UNCHANGED <<world, guard, pc, timed, sched, alive, events, pq, given, arg, busy, toAwake,
                 made, accepted, taken>>

\* sys_event_port_disconnect
Disconnect(t) ==
  /\ MayStep(t, "idle") /\ TableFree
  /\ port.up /\ port.connected /\ alive
  /\ busy = 0
  /\ port' = [port EXCEPT !.connected = FALSE]
  /\ UNCHANGED <<world, guard, pc, timed, sched, alive, events, pq, given, arg, busy, toAwake,
                 made, accepted, taken>>

\* sys_event_port_connect_local
Connect(t) ==
  /\ Running(t, "idle") /\ TableFree
  /\ port.up /\ ~(port.connected /\ alive)
  /\ port' = [port EXCEPT !.connected = TRUE]
  /\ UNCHANGED <<world, guard, pc, timed, sched, alive, events, pq, given, arg, busy, toAwake,
                 made, accepted, taken>>

\* sys_event_port_destroy
PortDestroy(t) ==
  /\ MayStep(t, "idle") /\ TableFree
  /\ port.up /\ ~(port.connected /\ alive)
  /\ port' = [port EXCEPT !.up = FALSE]
  /\ UNCHANGED <<world, guard, pc, timed, sched, alive, events, pq, given, arg, busy, toAwake,
                 made, accepted, taken>>

RedoEsrch(t) ==
  /\ pc[t] \in {"r_redo", "d_redo"} /\ MayStep(t, pc[t])
  /\ ~exists
  /\ Return(t)
  /\ UNCHANGED <<world, guard, sched, own>>

Schedule(t) == ObjSchedule(t) /\ UNCHANGED own
StopThread(t) == ObjStop(t) /\ UNCHANGED own

Redo == [l \in {"a_recv", "a_send", "a_sent", "a_destroy"} |->
           CASE l = "a_recv" -> "r_redo" [] l \in {"a_send", "a_sent"} -> "s_redo"
             [] l = "a_destroy" -> "d_redo"]

\* The events are saved, the list is not; a port is saved as connected only
\* if its queue counts as existing.
SaveAndLoad ==
  /\ ObjSaveAndLoad(Redo)
  /\ pq' = <<>>
  /\ alive' = exists
  /\ port' = [port EXCEPT !.connected = @ /\ alive]
  /\ busy' = 0
  /\ UNCHANGED <<events, given, arg, toAwake, made, accepted, taken>>

Call(t) ==
  \/ \E to \in Timeouts : Receive(t, "idle", to)
  \/ \E n \in 1..QueueSize : TryReceive(t, n)
  \/ made < MaxEvents /\ Send(t, "idle", made + 1)
  \/ \E force \in BOOLEAN : Destroy(t, "idle", force)
  \/ Drain(t) \/ Disconnect(t) \/ Connect(t) \/ PortDestroy(t)

Step(t) ==
  \/ Receive(t, "r_redo", timed[t]) \/ TakeSignal(t) \/ WaitStopped(t)
  \/ TimeOutCheck(t) \/ TimeOutTest(t) \/ TimeOutOver(t) \/ TimeOutLock(t)
  \/ Send(t, "s_redo", arg[t]) \/ Wake(t) \/ SendRequeued(t)
  \/ Destroy(t, "d_redo", TRUE) \/ RedoEsrch(t)

Next ==
  \/ \E t \in Threads : Call(t) \/ Step(t) \/ TimeOut(t) \/ Schedule(t) \/ StopThread(t)
  \/ made < MaxEvents /\ HostSend(made + 1)
  \/ SaveAndLoad

Spec == Init /\ [][Next]_vars

-----------------------------------------------------------------------------
(* Properties *)

TypeOK ==
  /\ ObjTypeOK(PCs)
  /\ alive \in BOOLEAN
  /\ events \in Seq(Events) /\ Len(events) <= QueueSize
  /\ pq \in Seq(Threads)
  /\ given \in [Threads -> Events \union {NoEvent}]
  /\ arg \in [Threads -> Events \union {NoEvent}]
  /\ port \in [up : BOOLEAN, connected : BOOLEAN]
  /\ busy \in 0..Cardinality(Threads)
  /\ toAwake \subseteq Threads
  /\ made \in 0..MaxEvents
  /\ accepted \subseteq Events
  /\ taken \in [Events -> Nat]

\* How often event e is in the queue, with a receiver or with the guest.
Copies(e) ==
  taken[e] + Cardinality({i \in 1..Len(events) : events[i] = e})
           + Cardinality({t \in Threads : given[t] = e})

(***************************************************************************)
(* No event is lost: what a send has reported as sent is in the queue, in  *)
(* the registers of a receiver that will return it, or was received, even  *)
(* if the receiver timed out or stopped at that moment.                    *)
(***************************************************************************)
NothingLost == \A e \in accepted : Copies(e) > 0

(***************************************************************************)
(* Without a savestate no event arrives twice.                             *)
(***************************************************************************)
OnceWithoutSave == saves = 0 => \A e \in Events : Copies(e) <= 1

(***************************************************************************)
(* No event arrives twice.  A sender that is stopped after it has sent is  *)
(* to "wait again on savestate load", not to send again.                   *)
(***************************************************************************)
AtMostOnce == \A e \in Events : Copies(e) <= 1

(***************************************************************************)
(* Who was taken off the list gets to know: it is signalled, will be, or   *)
(* looks at the list on its way out.                                       *)
(***************************************************************************)
ServedIsSeen ==
  \A t \in Threads :
    pc[t] = "r_wait" /\ ~Contains(pq, t) /\ t \notin toAwake =>
      sched[t] \in {"ready", "signal"} \/ t \in stopped

(***************************************************************************)
(* awake comes while its thread is still in the receive that was given an  *)
(* event or ended by destroy, and not to one that has left for a savestate *)
(* or has timed out and returned.                                          *)
(***************************************************************************)
AwakeIsOnTime == \A t \in toAwake : pc[t] \in {"r_wait", "t_check", "t_test", "t_over", "t_lock"}

(***************************************************************************)
(* A port with senders inside stays connected, unless its queue is         *)
(* destroyed: is_busy blocks "event port disconnection for the time being  *)
(* of sending events".                                                     *)
(***************************************************************************)
PortOutlivesSend ==
  (\E t \in Threads : pc[t] \in {"p_wake", "p_wait"}) /\ alive => port.up /\ port.connected
=============================================================================
