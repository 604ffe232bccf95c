----------------------------- MODULE MCLv2Mutex -----------------------------
(* Instances of Lv2Mutex for TLC: t1 is less urgent than t2 and t3. *)
EXTENDS Lv2MutexRefinement, TLC

CONSTANTS t1, t2, t3

MCThreads == {t1, t2, t3}
MCPrio == [t \in Threads |-> IF t = t1 THEN 2 ELSE 1]
MCSymmetry == Permutations({t2, t3})
=============================================================================
