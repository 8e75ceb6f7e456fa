--------------------------- MODULE BackgroundJob ---------------------------
(***************************************************************************)
(* What the dictionaries INSTALL and AURA of shell/aurorad.py promise the  *)
(* windows that poll them, without the progress: a run that has started    *)
(* reports exactly one outcome, then lets go of the flag "running", and no *)
(* second run starts in between.                                           *)
(***************************************************************************)
CONSTANTS
  Target,    \* what a run may be started for
  NoTarget

VARIABLES
  running,   \* ["running"]
  done,      \* ["done"]
  error,     \* ["error"] is not ""
  latest     \* the target of the last run

vars == <<running, done, error, latest>>

TypeOK == /\ running \in BOOLEAN /\ done \in BOOLEAN /\ error \in BOOLEAN
          /\ latest \in Target \cup {NoTarget}

Init == /\ running = FALSE /\ done = FALSE /\ error = FALSE
        /\ latest = NoTarget

Start(d) == /\ ~running
            /\ running' = TRUE /\ done' = FALSE /\ error' = FALSE
            /\ latest' = d

\* The run reports its one outcome while it still holds the flag.
Report(ok) == /\ running /\ ~done /\ ~error
              /\ done' = ok /\ error' = ~ok
              /\ UNCHANGED <<running, latest>>

Release == /\ running /\ (done \/ error)
           /\ running' = FALSE
           /\ UNCHANGED <<done, error, latest>>

\* systemd restarts the service (Restart=always): the dictionary is module state.
Restart == /\ running' = FALSE /\ done' = FALSE /\ error' = FALSE
           /\ UNCHANGED latest

Next == \/ \E d \in Target : Start(d)
        \/ \E ok \in BOOLEAN : Report(ok)
        \/ Release
        \/ Restart

Fairness == /\ WF_vars(\E ok \in BOOLEAN : Report(ok))
            /\ WF_vars(Release)

Spec == Init /\ [][Next]_vars /\ Fairness
=============================================================================
