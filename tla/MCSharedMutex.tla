--------------------------- MODULE MCSharedMutex ---------------------------
(* Instance of SharedMutex for TLC. *)
EXTENDS SharedMutex

CONSTANTS t1, t2, t3

MCThreads == {t1, t2, t3}
=============================================================================
