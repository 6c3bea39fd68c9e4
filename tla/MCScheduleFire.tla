--------------------------- MODULE MCScheduleFire ---------------------------
(* Instances of ScheduleFire for TLC. *)
EXTENDS ScheduleFire
=============================================================================
