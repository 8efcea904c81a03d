---------------------------- MODULE MC_Scheduler ----------------------------
(* Scheduler with two FIQs and two client notifications. *)
EXTENDS Scheduler
=============================================================================
