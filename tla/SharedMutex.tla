---------------------------- MODULE SharedMutex ----------------------------
(***************************************************************************)
(* The host reader/writer lock of the emulator, rpcs3/util/mutex.{h,cpp}.  *)
(* The whole lock is one 32-bit word, m_value, read as three fields:       *)
(*   rd   bits 0-13   (unit 1)      threads holding the lock shared        *)
(*   wr   bits 14-29  (unit c_one)  the writer and everybody waiting       *)
(*   sig  bits 30-31  (unit c_sig)  wake-up tokens not yet consumed        *)
(* Every atomic read-modify-write of the code is one step; a load and the  *)
(* compare-and-swap that follows it are two, with the loaded word in val.  *)
(***************************************************************************)
EXTENDS Naturals, FiniteSets

CONSTANTS
  Threads,      \* host threads sharing one lock
  MaxReaders,   \* c_one - 1: the largest reader count the rd field holds
  MaxClaims,    \* c_sig / c_one - 1: the largest count the wr field holds
  Spins         \* rounds of busy waiting before a thread queues (10 and 30)

ASSUME ThreadsFinite == IsFiniteSet(Threads)
ASSUME FieldWidths == /\ MaxReaders \in Nat \ {0}
                      /\ MaxClaims \in Nat
                      /\ Cardinality(Threads) <= MaxClaims
ASSUME SpinsNat == Spins \in Nat

VARIABLES
  m,      \* m_value
  pc,     \* pc[t]: where thread t is
  op,     \* op[t]: the call on whose behalf t is in imp_wait
  val,    \* val[t]: the word last loaded by t ("value", "old", "val")
  spin,   \* spin[t]: busy-wait rounds done in the current call
  max,    \* max[t]: _max of imp_lock_unlock
  watch   \* history: exclusive holders at t's call of lock_unlock that have
          \* not released since

vars == <<m, pc, op, val, spin, max, watch>>

Word == [rd : Nat, wr : Nat, sig : Nat]

Zero == [rd |-> 0, wr |-> 0, sig |-> 0]

\* The numeric value of a word divided by c_one.
Quotient(w) == w.wr + w.sig * (MaxClaims + 1)

\* Variant for mutation: queued writers do not keep new readers out.
CanSharePastClaims(w) == w.sig = 0 /\ w.rd < MaxReaders

\* value < c_one - 1
CanShare(w) == w.sig = 0 /\ w.wr = 0 /\ w.rd < MaxReaders

HasSignal(w) == w.sig > 0

AddReader(w) == [w EXCEPT !.rd = @ + 1]
AddClaim(w) == [w EXCEPT !.wr = @ + 1]
DropClaim(w) == [w EXCEPT !.wr = @ - 1]

\* lock_downgrade: m_value -= c_one - 1; lock_upgrade: the inverse.
ClaimToReader(w) == [w EXCEPT !.wr = @ - 1, !.rd = @ + 1]
ReaderToClaim(w) == [w EXCEPT !.wr = @ + 1, !.rd = @ - 1]

\* A newcomer takes the lock a pending wake-up stands for.
StealShared(w) == [w EXCEPT !.sig = @ - 1, !.rd = @ + 1]
StealExcl(w) == [w EXCEPT !.sig = @ - 1, !.wr = @ + 1]

PCs == {"idle", "shared", "excl",
        "tls_cas", "ls_cas", "ils_steal", "ils_spin", "ils_try", "ils_load",
        "ils_cas", "il_steal", "il_spin", "il_cas",
        "tlu_cas", "up_load", "up_cas", "up_add",
        "lu_spin", "lu_unlock", "dg",
        "wt_op", "wt_check", "wt_blocked", "sg_add", "sg_notify"}

Init ==
  /\ m = Zero
  /\ pc = [t \in Threads |-> "idle"]
  /\ op = [t \in Threads |-> "none"]
  /\ val = [t \in Threads |-> Zero]
  /\ spin = [t \in Threads |-> 0]
  /\ max = [t \in Threads |-> 0]
  /\ watch = [t \in Threads |-> {}]

\* Threads that hold the lock shared, respectively exclusively; "dg" and
\* "lu_unlock" are exclusive owners inside lock_shared and lock_unlock.
SharedPCs == {"shared", "tlu_cas", "up_load", "up_cas", "up_add"}
ExclPCs == {"excl", "dg", "lu_unlock"}
WaitPCs == {"wt_op", "wt_check", "wt_blocked"}

Holding(mode) == {t \in Threads : pc[t] \in mode}

-----------------------------------------------------------------------------
(* Steps shared by the operations. *)

Goto(t, l) == pc' = [pc EXCEPT ![t] = l]

\* The step changes m_value and moves to l; the loaded word and the spin
\* counter are dead from here on.
Update(t, w, l) ==
  /\ m' = w
  /\ Goto(t, l)
  /\ val' = [val EXCEPT ![t] = Zero]
  /\ spin' = [spin EXCEPT ![t] = 0]

\* The step loads m_value in spin round n and moves to l.
Load(t, n, l) ==
  /\ val' = [val EXCEPT ![t] = m]
  /\ spin' = [spin EXCEPT ![t] = n]
  /\ Goto(t, l)
  /\ UNCHANGED m

\* The step puts t among the waiters and enters imp_wait for the call o.
Queue(t, w, o) ==
  /\ Update(t, w, "wt_op")
  /\ op' = [op EXCEPT ![t] = o]

\* The step only moves to l; only the first steal attempt of
\* imp_lock_shared still uses the word that was loaded.
Fail(t, l) ==
  /\ Goto(t, l)
  /\ val' = [val EXCEPT ![t] = IF l = "ils_steal" THEN @ ELSE Zero]
  /\ UNCHANGED <<m, spin>>

\* compare_and_swap_test(val, w) under the condition c on the loaded value.
Cas(t, c, w, ok, fail) ==
  \/ c /\ m = val[t] /\ Update(t, w, ok)
  \/ ~(c /\ m = val[t]) /\ Fail(t, fail)

\* An exclusive section that ends is no longer watched by anybody.
EndSection(t) == watch' = [u \in Threads |-> watch[u] \ {t}]

-----------------------------------------------------------------------------
(* lock and try_lock *)

TryLock(t) ==
  /\ pc[t] = "idle"
  /\ m = Zero
  /\ Update(t, AddClaim(m), "excl")
  /\ UNCHANGED <<op, max, watch>>

\* lock: compare_and_swap(0, c_one), which returns the word it met.
Lock(t) ==
  /\ pc[t] = "idle"
  /\ \/ m = Zero /\ Update(t, AddClaim(m), "excl")
     \/ m # Zero /\ Load(t, 0, "il_steal")
  /\ UNCHANGED <<op, max, watch>>

ImpLockSteal(t) ==
  /\ pc[t] = "il_steal"
  /\ Cas(t, HasSignal(val[t]), StealExcl(m), "excl", "il_spin")
  /\ UNCHANGED <<op, max, watch>>

ImpLockSpin(t) ==
  /\ pc[t] = "il_spin"
  /\ spin[t] < Spins
  /\ Load(t, spin[t] + 1, "il_cas")
  /\ UNCHANGED <<op, max, watch>>

ImpLockCas(t) ==
  /\ pc[t] = "il_cas"
  /\ \/ val[t] = Zero /\ Cas(t, TRUE, AddClaim(m), "excl", "il_spin")
     \/ val[t] # Zero
        /\ Cas(t, HasSignal(val[t]), StealExcl(m), "excl", "il_spin")
  /\ UNCHANGED <<op, max, watch>>

ImpLockAdd(t) ==
  /\ pc[t] = "il_spin"
  /\ spin[t] = Spins
  /\ \/ m = Zero /\ Update(t, AddClaim(m), "excl") /\ UNCHANGED op
     \/ m # Zero /\ Queue(t, AddClaim(m), "lock")
  /\ UNCHANGED <<max, watch>>

-----------------------------------------------------------------------------
(* lock_shared and try_lock_shared *)

TryLockShared(t) ==
  /\ pc[t] = "idle"
  /\ Load(t, 0, "tls_cas")
  /\ UNCHANGED <<op, max, watch>>

TryLockSharedCas(t) ==
  /\ pc[t] = "tls_cas"
  /\ Cas(t, CanShare(val[t]), AddReader(m), "shared", "idle")
  /\ UNCHANGED <<op, max, watch>>

LockShared(t) ==
  /\ pc[t] = "idle"
  /\ Load(t, 0, "ls_cas")
  /\ UNCHANGED <<op, max, watch>>

LockSharedCas(t) ==
  /\ pc[t] = "ls_cas"
  /\ Cas(t, CanShare(val[t]), AddReader(m), "shared", "ils_steal")
  /\ UNCHANGED <<op, max, watch>>

ImpLockSharedSteal(t) ==
  /\ pc[t] = "ils_steal"
  /\ Cas(t, HasSignal(val[t]), StealShared(m), "shared", "ils_spin")
  /\ UNCHANGED <<op, max, watch>>

\* Variant for mutation: the spin loop has no end.
ImpLockSharedSpinForever(t) ==
  /\ pc[t] = "ils_spin"
  /\ Load(t, spin[t] + 1, "ils_try")
  /\ UNCHANGED <<op, max, watch>>

ImpLockSharedSpin(t) ==
  /\ pc[t] = "ils_spin"
  /\ spin[t] < Spins
  /\ Load(t, spin[t] + 1, "ils_try")
  /\ UNCHANGED <<op, max, watch>>

ImpLockSharedTry(t) ==
  /\ pc[t] = "ils_try"
  /\ Cas(t, CanShare(val[t]), AddReader(m), "shared", "ils_load")
  /\ UNCHANGED <<op, max, watch>>

ImpLockSharedLoad(t) ==
  /\ pc[t] = "ils_load"
  /\ Load(t, spin[t], "ils_cas")
  /\ UNCHANGED <<op, max, watch>>

ImpLockSharedCas(t) ==
  /\ pc[t] = "ils_cas"
  /\ Cas(t, HasSignal(val[t]), StealShared(m), "shared", "ils_spin")
  /\ UNCHANGED <<op, max, watch>>

\* The slow path queues as a writer and downgrades once it owns the lock.
ImpLockSharedAdd(t) ==
  /\ pc[t] = "ils_spin"
  /\ spin[t] = Spins
  /\ \/ m = Zero /\ Update(t, AddClaim(m), "dg") /\ UNCHANGED op
     \/ m # Zero /\ Queue(t, AddClaim(m), "lock_shared")
  /\ UNCHANGED <<max, watch>>

\* lock_downgrade, called by a writer and by the end of imp_lock_shared.
LockDowngrade(t) ==
  /\ pc[t] \in {"excl", "dg"}
  /\ Update(t, ClaimToReader(m), "shared")
  /\ EndSection(t)
  /\ UNCHANGED <<op, max>>

-----------------------------------------------------------------------------
(* lock_upgrade and try_lock_upgrade, called by a shared holder *)

TryLockUpgrade(t) ==
  /\ pc[t] = "shared"
  /\ Load(t, 0, "tlu_cas")
  /\ UNCHANGED <<op, max, watch>>

TryLockUpgradeCas(t) ==
  /\ pc[t] = "tlu_cas"
  /\ Cas(t, val[t].rd = 1, ReaderToClaim(m), "excl", "shared")
  /\ UNCHANGED <<op, max, watch>>

LockUpgrade(t) ==
  /\ pc[t] = "shared"
  /\ Load(t, 0, "up_cas")
  /\ UNCHANGED <<op, max, watch>>

LockUpgradeCas(t) ==
  /\ pc[t] = "up_cas"
  /\ Cas(t, val[t].rd = 1, ReaderToClaim(m), "excl",
         IF spin[t] < Spins THEN "up_load" ELSE "up_add")
  /\ UNCHANGED <<op, max, watch>>

ImpLockUpgradeLoad(t) ==
  /\ pc[t] = "up_load"
  /\ Load(t, spin[t] + 1, "up_cas")
  /\ UNCHANGED <<op, max, watch>>

\* Gives up the shared lock and queues as a writer, unless it was the last
\* reader, who owns the lock at once.
ImpLockUpgradeAdd(t) ==
  /\ pc[t] = "up_add"
  /\ \/ m.rd = 1 /\ Update(t, ReaderToClaim(m), "excl") /\ UNCHANGED op
     \/ m.rd # 1 /\ Queue(t, ReaderToClaim(m), "lock")
  /\ UNCHANGED <<max, watch>>

-----------------------------------------------------------------------------
(* unlock and unlock_shared *)

\* Variant for mutation: a single queued thread is not signalled.
UnlockOffByOne(t) ==
  /\ pc[t] \in {"excl", "lu_unlock"}
  /\ Update(t, DropClaim(m), IF m.wr > 2 THEN "sg_add" ELSE "idle")
  /\ EndSection(t)
  /\ UNCHANGED <<op, max>>

\* imp_unlock signals when the word is not zero afterwards.
Unlock(t) ==
  /\ pc[t] \in {"excl", "lu_unlock"}
  /\ Update(t, DropClaim(m), IF DropClaim(m) # Zero THEN "sg_add" ELSE "idle")
  /\ EndSection(t)
  /\ UNCHANGED <<op, max>>

\* Variant for mutation: every reader that leaves claims behind signals.
UnlockSharedSignals(t) ==
  /\ pc[t] = "shared"
  /\ Update(t, [m EXCEPT !.rd = @ - 1],
            IF m.wr > 0 \/ m.sig > 0 THEN "sg_add" ELSE "idle")
  /\ UNCHANGED <<op, max, watch>>

\* imp_unlock_shared signals when the last reader leaves claims behind.
UnlockShared(t) ==
  /\ pc[t] = "shared"
  /\ Update(t, [m EXCEPT !.rd = @ - 1],
            IF m.rd = 1 /\ (m.wr > 0 \/ m.sig > 0) THEN "sg_add" ELSE "idle")
  /\ UNCHANGED <<op, max, watch>>

-----------------------------------------------------------------------------
(* lock_unlock: wait until the lock can be taken, without taking it *)

LockUnlock(t) ==
  /\ pc[t] = "idle"
  /\ m # Zero
  /\ max' = [max EXCEPT ![t] = 1]
  /\ watch' = [watch EXCEPT ![t] = Holding(ExclPCs)]
  /\ Fail(t, "lu_spin")
  /\ UNCHANGED op

\* Variant for mutation: an unchanged claim count passes for a smaller one.
SeenFreeUnchanged(w, mx) == w.rd = 0 /\ (Quotient(w) <= mx \/ HasSignal(w))

\* The word shows that the lock was free at some time since the last look.
SeenFree(w, mx) == w.rd = 0 /\ (Quotient(w) < mx \/ HasSignal(w))

ImpLockUnlockSpin(t) ==
  /\ pc[t] = "lu_spin"
  /\ spin[t] < Spins
  /\ \/ /\ SeenFree(m, max[t])
        /\ Goto(t, "idle")
        /\ max' = [max EXCEPT ![t] = 0]
        /\ spin' = [spin EXCEPT ![t] = 0]
     \/ /\ ~SeenFree(m, max[t])
        /\ max' = [max EXCEPT ![t] = Quotient(m)]
        /\ spin' = [spin EXCEPT ![t] = @ + 1]
        /\ UNCHANGED pc
  /\ UNCHANGED <<m, op, val, watch>>

ImpLockUnlockAdd(t) ==
  /\ pc[t] = "lu_spin"
  /\ spin[t] = Spins
  /\ \/ m = Zero /\ Update(t, AddClaim(m), "lu_unlock") /\ UNCHANGED op
     \/ m # Zero /\ Queue(t, AddClaim(m), "lock_unlock")
  /\ max' = [max EXCEPT ![t] = 0]
  /\ UNCHANGED watch

-----------------------------------------------------------------------------
(* imp_wait and imp_signal over the atomic wait of the host *)

Owner(o) == CASE o = "lock" -> "excl"
              [] o = "lock_shared" -> "dg"
              [] o = "lock_unlock" -> "lu_unlock"

ImpWaitOp(t) ==
  /\ pc[t] = "wt_op"
  /\ \/ /\ HasSignal(m)
        /\ Update(t, [m EXCEPT !.sig = @ - 1], Owner(op[t]))
        /\ op' = [op EXCEPT ![t] = "none"]
     \/ ~HasSignal(m) /\ Load(t, 0, "wt_check") /\ UNCHANGED op
  /\ UNCHANGED <<max, watch>>

\* m_value.wait(old): blocks only while the word still equals old.
ImpWaitCheck(t) ==
  /\ pc[t] = "wt_check"
  /\ Fail(t, IF m = val[t] THEN "wt_blocked" ELSE "wt_op")
  /\ UNCHANGED <<op, max, watch>>

ImpSignalAdd(t) ==
  /\ pc[t] = "sg_add"
  /\ Update(t, [m EXCEPT !.sig = @ + 1], "sg_notify")
  /\ UNCHANGED <<op, max, watch>>

\* Variant for mutation: the signal is added and nobody is notified.
ImpSignalSilent(t) ==
  /\ pc[t] = "sg_notify"
  /\ Goto(t, "idle")
  /\ UNCHANGED <<m, op, val, spin, max, watch>>

\* notify_one wakes one blocked thread, if there is one.
ImpSignalNotify(t) ==
  /\ pc[t] = "sg_notify"
  /\ \/ /\ Holding({"wt_blocked"}) = {}
        /\ Goto(t, "idle")
     \/ \E u \in Holding({"wt_blocked"}) :
          pc' = [pc EXCEPT ![t] = "idle", ![u] = "wt_op"]
  /\ UNCHANGED <<m, op, val, spin, max, watch>>

-----------------------------------------------------------------------------
\* A caller decides to call; every other step runs by itself.
Call(t) ==
  \/ TryLock(t) \/ Lock(t) \/ TryLockShared(t) \/ LockShared(t)
  \/ LockUnlock(t) \/ TryLockUpgrade(t) \/ LockUpgrade(t)

Step(t) ==
  \/ ImpLockSteal(t) \/ ImpLockSpin(t) \/ ImpLockCas(t) \/ ImpLockAdd(t)
  \/ TryLockSharedCas(t) \/ LockSharedCas(t) \/ ImpLockSharedSteal(t)
  \/ ImpLockSharedSpin(t) \/ ImpLockSharedTry(t) \/ ImpLockSharedLoad(t)
  \/ ImpLockSharedCas(t) \/ ImpLockSharedAdd(t)
  \/ TryLockUpgradeCas(t) \/ LockUpgradeCas(t) \/ ImpLockUpgradeLoad(t)
  \/ ImpLockUpgradeAdd(t)
  \/ ImpLockUnlockSpin(t) \/ ImpLockUnlockAdd(t)
  \/ ImpWaitOp(t) \/ ImpWaitCheck(t) \/ ImpSignalAdd(t) \/ ImpSignalNotify(t)

Release(t) == Unlock(t) \/ UnlockShared(t) \/ LockDowngrade(t)

Next == \E t \in Threads : Call(t) \/ Step(t) \/ Release(t)

Spec == Init /\ [][Next]_vars

\* Host threads keep running and every holder leaves its section in the end;
\* nobody is obliged to call.
Fairness == \A t \in Threads : WF_vars(Step(t)) /\ WF_vars(Release(t))

FairSpec == Spec /\ Fairness

-----------------------------------------------------------------------------
(* Properties *)

TypeOK ==
  /\ m \in Word
  /\ pc \in [Threads -> PCs]
  /\ op \in [Threads -> {"none", "lock", "lock_shared", "lock_unlock"}]
  /\ val \in [Threads -> Word]
  /\ spin \in [Threads -> 0..Spins]
  /\ max \in [Threads -> Nat]
  /\ watch \in [Threads -> SUBSET Threads]

\* Threads counted by the wr field: exclusive holders and queued threads.
Claims == Holding(ExclPCs \union WaitPCs)

\* Threads whose next steps pass the lock on: the exclusive holder and a
\* thread that is about to add a signal.
Carriers == Holding(ExclPCs \union {"sg_add"})

(***************************************************************************)
(* The word says exactly who holds the lock and who queues for it, and no  *)
(* field overflows into its neighbour, so the ensure() calls of mutex.cpp  *)
(* ("shared_mutex overflow", "shared_mutex underflow") never fire.         *)
(***************************************************************************)
CountsMatch ==
  /\ m.rd = Cardinality(Holding(SharedPCs))
  /\ m.wr = Cardinality(Claims)
  /\ m.rd <= MaxReaders /\ m.wr <= MaxClaims /\ m.sig <= 1

(***************************************************************************)
(* The right to the lock is in one place: with one exclusive holder, with  *)
(* the readers, with a thread about to signal, or in the signal bit, which *)
(* a newcomer may steal.                                                   *)
(***************************************************************************)
OneCarrier ==
  /\ \A t, u \in Carriers : t = u
  /\ m.rd > 0 \/ m.sig > 0 => Carriers = {}
  /\ ~(m.rd > 0 /\ m.sig > 0)

(***************************************************************************)
(* No wake-up is lost: while threads are queued somebody is responsible    *)
(* for passing the lock on, and a signal that was added finds a thread     *)
(* that is not (or will not stay) blocked.                                 *)
(***************************************************************************)
WakeupPending ==
  /\ m.wr > 0 => m.rd > 0 \/ m.sig > 0 \/ Carriers # {}
  /\ m.sig > 0 => \E t \in Threads :
                    \/ pc[t] \in {"sg_notify", "wt_op"}
                    \/ pc[t] = "wt_check" /\ val[t] # m

(***************************************************************************)
(* What the three invariants above need to be inductive: a signal is sent  *)
(* only when somebody is queued, and what a thread keeps in its locals at  *)
(* the labels of the slow paths.                                           *)
(***************************************************************************)
SignalHasWaiter == m.sig > 0 \/ Holding({"sg_add"}) # {} => m.wr > 0

SlowPathLocals ==
  \A t \in Threads :
    /\ pc[t] = "up_load" => spin[t] < Spins
    /\ pc[t] \in WaitPCs => op[t] # "none"
    /\ pc[t] = "wt_check" => val[t].sig = 0

Inv == /\ TypeOK /\ CountsMatch /\ OneCarrier /\ WakeupPending
       /\ SignalHasWaiter /\ SlowPathLocals

(***************************************************************************)
(* lock_unlock returns only after every exclusive section that was running *)
(* when it was called has ended, although its spinning looks at nothing    *)
(* but counts (lv2 uses it to wait for a waker that is in the section).    *)
(***************************************************************************)
LockUnlockWaits ==
  [][\A t \in Threads :
       pc[t] \in {"lu_spin", "lu_unlock"} /\ pc'[t] \in {"idle", "sg_add"}
       => watch[t] = {}]_vars

(***************************************************************************)
(* A free lock is handed over: threads do not stay queued while nobody     *)
(* holds the lock.                                                         *)
(***************************************************************************)
LockIsPassedOn ==
  (Holding(WaitPCs) # {}) ~> (Holding(SharedPCs \union ExclPCs) # {})

(***************************************************************************)
(* The comment in imp_lock_unlock says that the spin loop returns when it  *)
(* "caught a state where: 1) Mutex is free".                               *)
(***************************************************************************)
FreeIsCaught ==
  [][\A t \in Threads :
       pc[t] = "lu_spin" /\ m = Zero => spin'[t] # spin[t] + 1]_vars

-----------------------------------------------------------------------------
(* Refinement: the holders as RWLock sees them *)

HoldOf(l) == IF l \in SharedPCs THEN "shared"
             ELSE IF l \in ExclPCs THEN "excl" ELSE "none"

hold == [t \in Threads |-> HoldOf(pc[t])]

RW == INSTANCE RWLock

(***************************************************************************)
(* shared_mutex is a reader/writer lock.                                   *)
(***************************************************************************)
ImplementsRWLock == RW!Spec
=============================================================================
