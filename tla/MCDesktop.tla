---------------------------- MODULE MCDesktop ----------------------------
(* Model values for the runs of Desktop. *)
EXTENDS Desktop
=============================================================================
