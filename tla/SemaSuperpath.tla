---------------------------- MODULE SemaSuperpath ----------------------------
(***************************************************************************)
(* The shortcut of sys_semaphore_wait and sys_semaphore_post that this     *)
(* fork adds for the main thread of one title (es_sema_superpath): a cache *)
(* from identifiers to raw object pointers, and three ways to answer       *)
(* CELL_ESRCH without looking the identifier up.  The caches are arrays of *)
(* relaxed atomics that every thread updates without a lock; one step is   *)
(* one access to them, or one critical section of the identifier table.    *)
(* Steps are interleaved; reordering of relaxed accesses is not modelled.  *)
(*                                                                         *)
(* The value of a semaphore is abstracted: the direct operation succeeds   *)
(* or falls through.  wait and post have the same steps.                   *)
(***************************************************************************)
EXTENDS Integers, FiniteSets, Sequences

CONSTANTS
  Threads,    \* PPU threads
  Main,       \* the thread that takes the shortcut
  IdCount,    \* identifiers' indices are 0..IdCount-1 (8192 in the code)
  Gens,       \* values of the invalidation counter (256 in the code)
  FastSlots,  \* entries of the object cache and of cached_esrch_ids (64)
  DeadSlots,  \* entries of destroyed_ids (32)
  MaxObjs     \* bound: objects created in a run

ASSUME ThreadsAssumption == IsFiniteSet(Threads) /\ Main \in Threads
ASSUME SizesAssumption ==
  /\ IdCount \in Nat \ {0} /\ Gens \in Nat \ {0}
  /\ FastSlots \in Nat \ {0} /\ DeadSlots \in Nat \ {0} /\ MaxObjs \in Nat

VARIABLES
  table,     \* the identifier table: key and object of every index
  highest,   \* highest_index
  objs,      \* the identifiers of the semaphores created so far
  fast,      \* g_thor_es_sema_fast_cache
  cached,    \* cached_esrch_ids
  dead,      \* destroyed_ids
  maxIndex,  \* max_created_index, -1 for umax
  pc, arg, obj,   \* of each thread: position, identifier and object
  sawDead    \* the identifier of the current call was invalid at some moment

caches == <<fast, cached, dead, maxIndex>>
idm == <<table, highest, objs>>
vars == <<idm, caches, pc, arg, obj, sawDead>>

Indices == 0..IdCount - 1
Ids == [idx : Indices, gen : 0..Gens - 1]
NoId == [idx |-> -1, gen |-> -1]
NoObj == 0
Objects == 1..MaxObjs

PCs == {"idle", "f_id", "f_obj", "f_op", "e_cached", "e_dead", "e_max",
        "n_lookup", "n_plain", "r_esrch", "r_obj", "r_id", "esrch",
        "c_cached", "c_id", "c_obj", "c_max", "d_dead", "d_id", "d_obj"}

Init ==
  /\ table = [i \in Indices |-> [gen |-> 0, obj |-> NoObj]]
  /\ highest = 0
  /\ objs = <<>>
  /\ fast = [s \in 0..FastSlots - 1 |-> [id |-> NoId, obj |-> NoObj]]
  /\ cached = [s \in 0..FastSlots - 1 |-> NoId]
  /\ dead = [s \in 0..DeadSlots - 1 |-> NoId]
  /\ maxIndex = -1
  /\ pc = [t \in Threads |-> "idle"]
  /\ arg = [t \in Threads |-> NoId]
  /\ obj = [t \in Threads |-> NoObj]
  /\ sawDead = [t \in Threads |-> FALSE]

-----------------------------------------------------------------------------
\* The object of an identifier, and what an identifier is good for.
Lookup(id) == IF table[id.idx].gen = id.gen THEN table[id.idx].obj ELSE NoObj

Slot(id) == id.idx % FastSlots
DeadSlot(id) == id.idx % DeadSlots

Goto(t, l) == pc' = [pc EXCEPT ![t] = l]

Return(t) ==
  /\ Goto(t, "idle")
  /\ arg' = [arg EXCEPT ![t] = NoId]
  /\ obj' = [obj EXCEPT ![t] = NoObj]
  /\ sawDead' = [sawDead EXCEPT ![t] = FALSE]

Begin(t, l, id, o) ==
  /\ Goto(t, l)
  /\ arg' = [arg EXCEPT ![t] = id]
  /\ obj' = [obj EXCEPT ![t] = o]

-----------------------------------------------------------------------------
(* sys_semaphore_create: allocate_id, then record_..._created_id *)

\* New indices are used up first; then the lowest free index, with its
\* invalidation counter increased.
FreeIndices == {i \in Indices : table[i].obj = NoObj}
NextIndex ==
  IF highest < IdCount THEN highest
  ELSE CHOOSE i \in FreeIndices : \A j \in FreeIndices : i <= j
NextGen == IF highest < IdCount THEN 0 ELSE (table[NextIndex].gen + 1) % Gens

\* create_id, under the table's lock: nothing happens when no index is free.
CreateId(o) ==
  /\ highest < IdCount \/ FreeIndices # {}
  /\ table' = [table EXCEPT ![NextIndex] = [gen |-> NextGen, obj |-> o]]
  /\ highest' = IF highest < IdCount THEN highest + 1 ELSE highest

Create(t) ==
  /\ pc[t] = "idle"
  /\ Len(objs) < MaxObjs
  /\ CreateId(Len(objs) + 1)
  /\ LET id == [idx |-> NextIndex, gen |-> NextGen]
     IN  objs' = Append(objs, id) /\ Begin(t, "c_cached", id, Len(objs) + 1)
  /\ UNCHANGED <<caches, sawDead>>

\* All kernel objects share the table: one of another kind takes the next
\* identifier and gives it back.  It leaves the caches alone.
OtherObject(t) ==
  /\ pc[t] = "idle"
  /\ Len(objs) < MaxObjs
  /\ CreateId(NoObj)
  /\ objs' = Append(objs, NoId)
  /\ UNCHANGED <<caches, pc, arg, obj, sawDead>>

\* Variant for mutation: an old ESRCH answer is kept.
RecordCreatedKeeps(t) ==
  /\ pc[t] = "c_cached"
  /\ Goto(t, "c_id")
  /\ UNCHANGED <<idm, caches, arg, obj, sawDead>>

RecordCreatedCached(t) ==
  /\ pc[t] = "c_cached"
  /\ cached' = [cached EXCEPT ![Slot(arg[t])] = IF @ = arg[t] THEN NoId ELSE @]
  /\ Goto(t, "c_id")
  /\ UNCHANGED <<idm, fast, dead, maxIndex, arg, obj, sawDead>>

\* Take the identifier out of the object cache, if it is there; the pointer
\* is cleared afterwards.
RecordCreatedFastId(t) ==
  /\ pc[t] = "c_id"
  /\ IF fast[Slot(arg[t])].id = arg[t]
     THEN fast' = [fast EXCEPT ![Slot(arg[t])].id = NoId] /\ Goto(t, "c_obj")
     ELSE Goto(t, "c_max") /\ UNCHANGED fast
  /\ UNCHANGED <<idm, cached, dead, maxIndex, arg, obj, sawDead>>

\* create goes on, destroy is done.
ClearFastObj(t) ==
  /\ pc[t] \in {"c_obj", "d_obj"}
  /\ fast' = [fast EXCEPT ![Slot(arg[t])].obj = NoObj]
  /\ IF pc[t] = "c_obj" THEN Goto(t, "c_max") /\ UNCHANGED <<arg, obj, sawDead>>
     ELSE Return(t)
  /\ UNCHANGED <<idm, cached, dead, maxIndex>>

\* Variant for mutation: a count is recorded instead of an index.
RecordCreatedCount(t) ==
  /\ pc[t] = "c_max"
  /\ maxIndex' = IF arg[t].idx >= maxIndex THEN arg[t].idx + 1 ELSE maxIndex
  /\ Return(t)
  /\ UNCHANGED <<idm, fast, cached, dead>>

RecordCreatedMax(t) ==
  /\ pc[t] = "c_max"
  /\ maxIndex' = IF arg[t].idx > maxIndex THEN arg[t].idx ELSE maxIndex
  /\ Return(t)
  /\ UNCHANGED <<idm, fast, cached, dead>>

-----------------------------------------------------------------------------
(* sys_semaphore_destroy *)

\* The object leaves the table, the invalidation counter stays.
Withdraw(id) ==
  /\ Lookup(id) # NoObj
  /\ table' = [table EXCEPT ![id.idx].obj = NoObj]

\* A call in progress notices that its identifier became invalid.
Destroy(t, id) ==
  /\ pc[t] = "idle"
  /\ Withdraw(id)
  /\ Begin(t, "d_dead", id, Lookup(id))
  /\ sawDead' = [u \in Threads |-> sawDead[u] \/ arg[u] = id]
  /\ UNCHANGED <<highest, objs, caches>>

RecordDestroyed(t) ==
  /\ pc[t] = "d_dead"
  /\ dead' = [dead EXCEPT ![DeadSlot(arg[t])] = arg[t]]
  /\ Goto(t, "d_id")
  /\ UNCHANGED <<idm, fast, cached, maxIndex, arg, obj, sawDead>>

\* Variant for mutation: the object cache keeps the destroyed semaphore.
RecordDestroyedKeepsFast(t) ==
  /\ pc[t] = "d_id"
  /\ Return(t)
  /\ UNCHANGED <<idm, caches>>

RecordDestroyedFastId(t) ==
  /\ pc[t] = "d_id"
  /\ IF fast[Slot(arg[t])].id = arg[t]
     THEN /\ fast' = [fast EXCEPT ![Slot(arg[t])].id = NoId]
          /\ Goto(t, "d_obj")
          /\ UNCHANGED <<arg, obj, sawDead>>
     ELSE Return(t) /\ UNCHANGED fast
  /\ UNCHANGED <<idm, cached, dead, maxIndex>>

-----------------------------------------------------------------------------
(* sys_semaphore_wait and sys_semaphore_post *)

\* The mode is read once and taken to be "fast".  Only the main thread takes
\* the shortcut, and only at two places of the title's code.  A call may name
\* any identifier.
Candidate(t, l) == IF t = Main THEN l \in {"f_id", "n_plain"} ELSE l = "n_plain"

Call(t, id) ==
  /\ pc[t] = "idle"
  /\ \E l \in {"f_id", "n_plain"} : Candidate(t, l) /\ Begin(t, l, id, NoObj)
  /\ sawDead' = [sawDead EXCEPT ![t] = Lookup(id) = NoObj]
  /\ UNCHANGED <<idm, caches>>

\* Variant for mutation: the identifier of the entry is not compared.
FastIdUnchecked(t) ==
  /\ pc[t] = "f_id"
  /\ Goto(t, "f_obj")
  /\ UNCHANGED <<idm, caches, arg, obj, sawDead>>

FastId(t) ==
  /\ pc[t] = "f_id"
  /\ Goto(t, IF fast[Slot(arg[t])].id = arg[t] THEN "f_obj" ELSE "e_cached")
  /\ UNCHANGED <<idm, caches, arg, obj, sawDead>>

FastObj(t) ==
  /\ pc[t] = "f_obj"
  /\ obj' = [obj EXCEPT ![t] = fast[Slot(arg[t])].obj]
  /\ Goto(t, IF obj'[t] = NoObj THEN "e_cached" ELSE "f_op")
  /\ UNCHANGED <<idm, caches, arg, sawDead>>

\* The operation on the object: done, or not possible without waiting.
FastOp(t) ==
  /\ pc[t] = "f_op"
  /\ \/ Return(t)
     \/ Begin(t, "e_cached", arg[t], NoObj) /\ UNCHANGED sawDead
  /\ UNCHANGED <<idm, caches>>

Esrch(t, from, yes, no) ==
  /\ pc[t] = from
  /\ Goto(t, IF yes THEN "esrch" ELSE no)
  /\ UNCHANGED <<idm, caches, arg, obj, sawDead>>

EsrchCached(t) == Esrch(t, "e_cached", cached[Slot(arg[t])] = arg[t], "e_dead")
EsrchDestroyed(t) ==
  Esrch(t, "e_dead", (\E s \in 0..DeadSlots - 1 : dead[s] = arg[t]), "e_max")
EsrchUncreated(t) ==
  Esrch(t, "e_max",
        maxIndex # -1 /\ arg[t].idx > maxIndex /\ arg[t].gen = 0, "n_lookup")

ReturnEsrch(t) ==
  /\ pc[t] = "esrch"
  /\ Return(t)
  /\ UNCHANGED <<idm, caches>>

\* The ordinary path: idm::get, with the rest of the call left out.  A call
\* that could have used the shortcut remembers that the lookup failed.
NormalLookup(t) ==
  /\ pc[t] \in {"n_lookup", "n_plain"}
  /\ \/ /\ Lookup(arg[t]) # NoObj
        /\ Begin(t, "r_obj", arg[t], Lookup(arg[t]))
        /\ UNCHANGED sawDead
     \/ /\ Lookup(arg[t]) = NoObj /\ pc[t] = "n_lookup"
        /\ Goto(t, "r_esrch")
        /\ UNCHANGED <<arg, obj, sawDead>>
     \/ Lookup(arg[t]) = NoObj /\ pc[t] = "n_plain" /\ Return(t)
  /\ UNCHANGED <<idm, caches>>

RecordCachedEsrch(t) ==
  /\ pc[t] = "r_esrch"
  /\ cached' = [cached EXCEPT ![Slot(arg[t])] = arg[t]]
  /\ Return(t)
  /\ UNCHANGED <<idm, fast, dead, maxIndex>>

\* The pointer is stored first, the identifier second.
RecordFastObj(t) ==
  /\ pc[t] = "r_obj"
  /\ fast' = [fast EXCEPT ![Slot(arg[t])].obj = obj[t]]
  /\ Goto(t, "r_id")
  /\ UNCHANGED <<idm, cached, dead, maxIndex, arg, obj, sawDead>>

RecordFastId(t) ==
  /\ pc[t] = "r_id"
  /\ fast' = [fast EXCEPT ![Slot(arg[t])].id = arg[t]]
  /\ Return(t)
  /\ UNCHANGED <<idm, cached, dead, maxIndex>>

-----------------------------------------------------------------------------
Next == \E t \in Threads :
  \/ Create(t) \/ OtherObject(t) \/ RecordCreatedCached(t) \/ RecordCreatedFastId(t)
  \/ ClearFastObj(t) \/ RecordCreatedMax(t)
  \/ \E id \in Ids : Destroy(t, id) \/ Call(t, id)
  \/ RecordDestroyed(t) \/ RecordDestroyedFastId(t)
  \/ FastId(t) \/ FastObj(t) \/ FastOp(t)
  \/ EsrchCached(t) \/ EsrchDestroyed(t) \/ EsrchUncreated(t) \/ ReturnEsrch(t)
  \/ NormalLookup(t) \/ RecordCachedEsrch(t) \/ RecordFastObj(t) \/ RecordFastId(t)

Spec == Init /\ [][Next]_vars

-----------------------------------------------------------------------------
(* Properties *)

TypeOK ==
  /\ table \in [Indices -> [gen : 0..Gens - 1, obj : Objects \union {NoObj}]]
  /\ highest \in 0..IdCount
  /\ objs \in Seq(Ids \union {NoId})
  /\ fast \in [0..FastSlots - 1 -> [id : Ids \union {NoId}, obj : Objects \union {NoObj}]]
  /\ cached \in [0..FastSlots - 1 -> Ids \union {NoId}]
  /\ dead \in [0..DeadSlots - 1 -> Ids \union {NoId}]
  /\ maxIndex \in -1..IdCount - 1
  /\ pc \in [Threads -> PCs]
  /\ arg \in [Threads -> Ids \union {NoId}]
  /\ obj \in [Threads -> Objects \union {NoObj}]
  /\ sawDead \in [Threads -> BOOLEAN]

(***************************************************************************)
(* The direct operation works on the semaphore that the call named, not on *)
(* another one that shares its cache entry ("after a normal lookup proves  *)
(* the semaphore object").                                                 *)
(***************************************************************************)
FastHitsNamed == \A t \in Threads : pc[t] = "f_op" => objs[obj[t]] = arg[t]

\* An object lives while the table or an ordinary call refers to it.
Alive(o) ==
  \/ \E i \in Indices : table[i].obj = o
  \/ \E t \in Threads : obj[t] = o /\ pc[t] \notin {"f_obj", "f_op"}

(***************************************************************************)
(* The direct operation never follows the pointer of a semaphore that was  *)
(* destroyed and released.                                                 *)
(***************************************************************************)
FastHitsAlive == \A t \in Threads : pc[t] = "f_op" => Alive(obj[t])

(***************************************************************************)
(* CELL_ESRCH is answered from the caches only if the identifier was       *)
(* invalid at some moment of the call.                                     *)
(***************************************************************************)
EsrchIsTrue == \A t \in Threads : pc[t] = "esrch" => sawDead[t]

\* The thread's create has entered its semaphore into the table, and has not
\* recorded its index yet.
Recording(t) == pc[t] \in {"c_cached", "c_id", "c_obj", "c_max"}

(***************************************************************************)
(* However threads mix their accesses to the two words of an entry: the    *)
(* pointer that a hit follows was stored for a semaphore with the same     *)
(* cache entry, if not for the one that was named.                         *)
(***************************************************************************)
HitSharesEntry == \A t \in Threads : pc[t] = "f_op" =>
  /\ obj[t] \in 1..Len(objs)
  /\ objs[obj[t]] # NoId
  /\ Slot(objs[obj[t]]) = Slot(arg[t])

(***************************************************************************)
(* CELL_ESRCH for an index above max_created_index is not told of a        *)
(* semaphore whose create has returned, although creates record their      *)
(* indices in any order.                                                   *)
(***************************************************************************)
UncreatedIsTrue == \A o \in 1..Len(objs) : objs[o] # NoId =>
  objs[o].idx <= maxIndex \/ \E t \in Threads : Recording(t) /\ obj[t] = o

(***************************************************************************)
(* destroyed_ids holds only identifiers of semaphores that have left the   *)
(* table; another one may have taken the identifier since.                 *)
(***************************************************************************)
DestroyedAreGone == \A s \in 0..DeadSlots - 1 : dead[s] # NoId =>
  \E o \in 1..Len(objs) : objs[o] = dead[s] /\ \A i \in Indices : table[i].obj # o

(***************************************************************************)
(* What holds of the caches while threads share them and identifiers come  *)
(* back when their counter wraps: hits stay in their entry, and the        *)
(* records of the creates and of the destroys say the truth of the past.   *)
(***************************************************************************)
SuperpathShared == TypeOK /\ HitSharesEntry /\ UncreatedIsTrue /\ DestroyedAreGone
=============================================================================
