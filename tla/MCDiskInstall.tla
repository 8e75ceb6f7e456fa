--------------------------- MODULE MCDiskInstall ---------------------------
(* Model values for the runs of DiskInstall. *)
EXTENDS DiskInstall

\* A machine no disk of which ever held a DaybreakOS.
NewMachineSpec == Init /\ (\A d \in Disk : disk[d].table # "gpt") /\ [][Next]_vars /\ Fairness

=============================================================================
