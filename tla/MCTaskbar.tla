---------------------------- MODULE MCTaskbar ----------------------------
(* Model values for the runs of Taskbar. *)
EXTENDS Taskbar
=============================================================================
