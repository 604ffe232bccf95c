--------------------------- MODULE MCEventFlagSet ---------------------------
EXTENDS Lv2EventFlag, TLC

CONSTANTS t1, t2, t3, t4, t5

MCThreads == {t1, t2, t3, t4, t5}
MCPrio == [t \in Threads |-> 1]
R(b, a, c) == [bits |-> b, all |-> a, clear |-> c]
MCRequests == [t \in Threads |-> CASE t = t1 -> {R({1, 2}, TRUE, "bits")}
                                   [] t = t2 -> {R({2}, FALSE, "all")}
                                   [] t = t3 -> {R({3}, FALSE, "none")}
                                   [] OTHER  -> {}]
MCSets == [t \in Threads |-> IF t = t4 THEN {{2, 3}} ELSE {}]
MCKeeps == [t \in Threads |-> IF t = t5 THEN {{}} ELSE {}]
=============================================================================
