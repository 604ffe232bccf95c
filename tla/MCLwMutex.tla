------------------------------ MODULE MCLwMutex ------------------------------
(* An instance of Lv2LwMutex for TLC: two threads of the same priority. *)
EXTENDS Lv2LwMutex

MCPrio == [t \in Threads |-> 1]
=============================================================================
