----------------------------- MODULE MCLv2Timer -----------------------------
(* Instances of Lv2Timer for TLC. *)
EXTENDS Lv2Timer
=============================================================================
