------------------------------ MODULE MCStore ------------------------------
(* Model values for the runs of Store. *)
EXTENDS Store
=============================================================================
