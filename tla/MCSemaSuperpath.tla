-------------------------- MODULE MCSemaSuperpath --------------------------
(* Instances of SemaSuperpath for TLC. *)
EXTENDS SemaSuperpath
=============================================================================
