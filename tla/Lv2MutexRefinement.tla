------------------------- MODULE Lv2MutexRefinement -------------------------
(* Lv2Mutex as an implementation of HandoffLock. *)
EXTENDS Lv2Mutex

\* The abstract owner: an in-place hand-over is decided when the node is
\* unlinked, although the owner is stored later.
AbstractOwner ==
  IF \E t \in Threads : pc[t] = "u_store"
  THEN next[CHOOSE t \in Threads : pc[t] = "u_store"]
  ELSE ctl.owner

Handoff == INSTANCE HandoffLock
  WITH owner <- AbstractOwner, queue <- ctl.sq

(***************************************************************************)
(* Without savestates the mutex implements the abstract hand-over lock: no *)
(* barging past queued threads, and no waiter is overtaken against the     *)
(* protocol.                                                               *)
(***************************************************************************)
ImplementsHandoff == Handoff!Spec
=============================================================================
