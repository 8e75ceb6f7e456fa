---------------------------- MODULE MCAuraModel ----------------------------
(* Model values for the runs of AuraModel. *)
EXTENDS AuraModel
=============================================================================
