---------------------------- MODULE MCInstaller ----------------------------
(* Model values for the run of Installer. *)
EXTENDS Installer
=============================================================================
