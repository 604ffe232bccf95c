-------------------------- MODULE MCLv2Scheduler --------------------------
(* Instance of Lv2Scheduler for TLC: t1 is the main thread, the others are *)
(* alike.                                                                  *)
EXTENDS Lv2Scheduler, TLC

CONSTANTS t1, t2, t3

MCThreads == {t1, t2, t3}
MCSymmetry == Permutations({t2, t3})
=============================================================================
