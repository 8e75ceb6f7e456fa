---------------------------- MODULE InstallerUI ----------------------------
(***************************************************************************)
(* The two installer screens of aurora-shell.c, the full-screen one of a   *)
(* live boot and the window opened from the menu, talking to the root      *)
(* service over aurorad_send: a blocking request with no timeout.  The     *)
(* service is the contract of BackgroundJob, which DiskInstall implements;    *)
(* here it can also be down, or die while it answers.                      *)
(***************************************************************************)
EXTENDS Naturals

CONSTANTS
  Disk,        \* disks the service may list
  NoDisk,      \* g_inst_disk is ""
  MaxRestarts, \* how often the service may die (bounds the model)
  MaxInstalls  \* how many installs are accepted (bounds the model)

VARIABLES
  running, done, error, latest,   \* INSTALL, as in BackgroundJob
  up,         \* the service accepts connections
  restarts,   \* how often it has died
  installs,   \* how many installs it has accepted
  screen,     \* "first" (installer boot) or "window" (menu item)
  tried,      \* history: Try DaybreakOS has been clicked
  listed,     \* disks with a radio button
  sel,        \* g_inst_disk
  waiting,    \* "Looking for disks..." is shown
  rescan,     \* g_inst_scan_timer
  gate,       \* the check button: [active, sensitive]
  go,         \* g_inst_go is sensitive
  status,     \* g_inst_status
  polling,    \* g_inst_timer
  finished,   \* g_inst_finished
  outcome,    \* history: how the last accepted install went
  restarted   \* history: outcome when the shell asked for a reboot

serviceVars == <<running, done, error, latest>>
listVars    == <<listed, sel, waiting, rescan>>
buttonVars  == <<gate, go, finished>>
vars == <<serviceVars, up, restarts, installs, screen, tried, listVars, buttonVars, status,
          polling, restarted, outcome>>

Job == INSTANCE BackgroundJob WITH Target <- Disk, NoTarget <- NoDisk

-----------------------------------------------------------------------------
(* The service.                                                            *)

\* The answer to a request: the service's own, nothing because connect()
\* failed, or an empty body because the service died after accepting.
Answered == up /\ UNCHANGED <<up, restarts>>
Refused  == ~up /\ UNCHANGED <<serviceVars, outcome, up, restarts, installs>>
Cut == /\ up /\ restarts < MaxRestarts
       /\ Job!Restart
       /\ outcome' = IF outcome = "running" THEN "lost" ELSE outcome
       /\ up' = FALSE
       /\ restarts' = restarts + 1
       /\ UNCHANGED installs

\* The request leaves the service as it is.
Reads == Answered /\ UNCHANGED <<serviceVars, outcome, installs>>

ServiceDies ==
  /\ Cut
  /\ UNCHANGED <<screen, tried, listVars, buttonVars, status, polling, restarted>>

ServiceStarts ==
  /\ ~up
  /\ up' = TRUE
  /\ UNCHANGED <<serviceVars, restarts, installs, screen, tried, listVars, buttonVars, status,
                 polling, restarted, outcome>>

JobReports ==
  /\ up
  /\ \E ok \in BOOLEAN : Job!Report(ok) /\ outcome' = IF ok THEN "ok" ELSE "failed"
  /\ UNCHANGED <<up, restarts, installs, screen, tried, listVars, buttonVars, status, polling, restarted>>

JobReleases ==
  /\ up /\ Job!Release
  /\ UNCHANGED <<up, restarts, installs, screen, tried, listVars, buttonVars, status, polling,
                 restarted, outcome>>

-----------------------------------------------------------------------------
(* The disk list.                                                          *)

\* inst_gate_toggled, also called when a new list has arrived.  Mutant: the
\* check button is not consulted.
SensitiveWithDisk(active, s) == s # NoDisk
GateToggled(active, s) == active /\ s # NoDisk

Listed(ds) == /\ listed' = ds
              /\ sel' \in (IF ds = {} THEN {NoDisk} ELSE ds)
              /\ waiting' = FALSE
              /\ rescan' = FALSE

\* Mutant: the retry is not armed again.
RefreshOnce ==
  \/ Reads /\ \E ds \in SUBSET Disk : Listed(ds)
  \/ Cut /\ Listed({})
  \/ Refused /\ listed' = {} /\ sel' = NoDisk /\ waiting' = TRUE /\ rescan' = FALSE

\* inst_refresh_disks: the first disk of the list is selected.  Only a refused
\* connection is retried; an empty answer reads as no disks.
RefreshList ==
  \/ Reads /\ \E ds \in SUBSET Disk : Listed(ds)
  \/ Cut /\ Listed({})
  \/ Refused /\ listed' = {} /\ sel' = NoDisk /\ waiting' = TRUE /\ rescan' = TRUE

RefreshDisks ==
  /\ RefreshList
  /\ go' = IF waiting' THEN go ELSE GateToggled(gate.active, sel')

RefreshClicked ==
  /\ screen = "first"
  /\ RefreshDisks
  /\ UNCHANGED <<screen, tried, gate, finished, status, polling, restarted>>

Rescan ==
  /\ rescan
  /\ RefreshDisks
  /\ UNCHANGED <<screen, tried, gate, finished, status, polling, restarted>>

DiskToggled(d) ==
  /\ d \in listed
  /\ sel' = d
  /\ UNCHANGED <<serviceVars, up, restarts, installs, screen, tried, listed, waiting, rescan,
                 buttonVars, status, polling, restarted, outcome>>

GateClicked ==
  /\ gate.sensitive
  /\ gate' = [gate EXCEPT !.active = ~gate.active]
  /\ go' = GateToggled(gate'.active, sel)
  /\ UNCHANGED <<serviceVars, up, restarts, installs, screen, tried, listVars, finished, status,
                 polling, restarted, outcome>>

-----------------------------------------------------------------------------
(* Erase & Install, which is Restart once an install has finished.         *)

InstallRefused ==
  /\ Reads
  /\ status' = "error"
  /\ UNCHANGED <<gate, go, polling>>

\* No "error" in the answer, or no answer at all.
InstallUnderWay ==
  /\ \/ /\ installs < MaxInstalls
        /\ Answered /\ Job!Start(sel)
        /\ outcome' = "running" /\ installs' = installs + 1
     \/ Refused
     \/ Cut
  /\ go' = FALSE
  /\ gate' = [gate EXCEPT !.sensitive = FALSE]
  /\ status' = "stage"
  /\ polling' = TRUE

\* The service refuses a second install, or a disk that has gone.
GoClicked ==
  /\ go /\ ~finished /\ sel # NoDisk
  /\ InstallRefused \/ InstallUnderWay
  /\ UNCHANGED <<screen, tried, listVars, finished, restarted>>

\* power_action: without the service, systemctl is run directly.
RestartClicked ==
  /\ go /\ finished
  /\ Reads \/ Cut \/ Refused
  /\ restarted' = outcome
  /\ UNCHANGED <<screen, tried, listVars, buttonVars, status, polling>>

-----------------------------------------------------------------------------
(* The poll timer.                                                         *)

\* Mutant: return G_SOURCE_CONTINUE after showing the error.
PollErrorAgain == Reads /\ error
                  /\ status' = "error" /\ go' = FALSE
                  /\ UNCHANGED <<finished, polling>>

PollError == /\ Reads /\ error
             /\ status' = "error" /\ go' = FALSE
             /\ polling' = FALSE
             /\ UNCHANGED finished

\* Mutant: an install that is no longer running is taken for a finished one.
PollDoneWhenIdle == /\ Reads /\ ~error /\ ~running
                    /\ status' = "complete" /\ go' = TRUE
                    /\ finished' = TRUE
                    /\ polling' = FALSE

PollDone == /\ Reads /\ ~error /\ done
            /\ status' = "complete" /\ go' = TRUE
            /\ finished' = TRUE
            /\ polling' = FALSE

PollStage == /\ Reads /\ ~error /\ ~done
             /\ status' = "stage"
             /\ UNCHANGED <<go, finished, polling>>

PollUnanswered == (Refused \/ Cut) /\ UNCHANGED <<status, go, finished, polling>>

Poll ==
  /\ polling
  /\ PollError \/ PollDone \/ PollStage \/ PollUnanswered
  /\ UNCHANGED <<screen, tried, listVars, gate, restarted>>

\* Widgets as they are when a screen is built, or am_install resets them; the
\* timer of a run that is still going on is dropped.
FreshScreen ==
  /\ RefreshList
  /\ polling' = FALSE
  /\ finished' = FALSE
  /\ go' = FALSE
  /\ gate' = [active |-> FALSE, sensitive |-> TRUE]
  /\ status' = "select"
  /\ UNCHANGED restarted

\* The menu item, whether the window exists or not.
Reopen == screen = "window" /\ FreshScreen /\ UNCHANGED <<screen, tried>>

\* What a starting shell shows: the environment or its arguments decide, else
\* the file system of the root.
ShellMode(liveRoot, override) ==
  IF override # "none" THEN override ELSE IF liveRoot THEN "first" ELSE "window"

\* Try DaybreakOS: a second shell, started without arguments, and this one quits.
TryDaybreak ==
  /\ screen = "first"
  /\ FreshScreen
  /\ screen' = ShellMode(TRUE, "none")
  /\ tried' = TRUE

-----------------------------------------------------------------------------
(* The installer boot has asked for the list once; the window is not built *)
(* until the menu item is used, so none of its buttons can be clicked.     *)
Init ==
  /\ Job!Init
  /\ up \in BOOLEAN
  /\ restarts = 0 /\ installs = 0
  /\ screen \in {ShellMode(TRUE, o) : o \in {"none", "window"}}
  /\ listed \in (IF screen = "first" /\ up THEN SUBSET Disk ELSE {{}})
  /\ sel \in (IF listed = {} THEN {NoDisk} ELSE listed)
  /\ waiting = (screen = "first" /\ ~up)
  /\ rescan = waiting
  /\ gate = [active |-> FALSE, sensitive |-> screen = "first"]
  /\ go = FALSE
  /\ status = "select"
  /\ polling = FALSE
  /\ finished = FALSE
  /\ restarted = "none"
  /\ tried = FALSE
  /\ outcome = "none"

Next ==
  \/ ServiceDies \/ ServiceStarts \/ JobReports \/ JobReleases
  \/ RefreshClicked \/ Rescan \/ GateClicked
  \/ \E d \in Disk : DiskToggled(d)
  \/ GoClicked \/ RestartClicked \/ Poll \/ Reopen \/ TryDaybreak

Spec == Init /\ [][Next]_vars

-----------------------------------------------------------------------------
(* Properties.                                                             *)

TypeOK ==
  /\ Job!TypeOK
  /\ up \in BOOLEAN /\ restarts \in Nat /\ installs \in Nat
  /\ screen \in {"first", "window"} /\ tried \in BOOLEAN
  /\ listed \in SUBSET Disk /\ sel \in listed \cup {NoDisk}
  /\ waiting \in BOOLEAN /\ rescan \in BOOLEAN
  /\ gate \in [active : BOOLEAN, sensitive : BOOLEAN]
  /\ go \in BOOLEAN /\ polling \in BOOLEAN /\ finished \in BOOLEAN
  /\ status \in {"select", "stage", "error", "complete"}
  /\ {outcome, restarted} \subseteq {"none", "running", "ok", "failed", "lost"}

\* "Installation complete" and the Restart button are never shown for a run
\* that is still going on, failed or was lost, whatever earlier runs left in
\* INSTALL and however often the window was reopened.
RestartMeansInstalled ==
  /\ finished => outcome = "ok"
  /\ restarted \in {"none", "ok"}

\* Whoever is told to wait has the timer that ends the waiting: "Looking for
\* disks" is shown exactly while the retry is armed, whichever of the Refresh
\* button, the retry and a reopening came last, and no stage of an install is
\* shown that is not polled (g_inst_scan_timer, g_inst_timer).
WaitingIsArmed == (waiting <=> rescan) /\ (status = "stage" => polling)

\* An install starts only on the disk selected on the screen and with the
\* check button ticked, through every refresh, reopening and retry.
ConsentBeforeErase ==
  [][outcome # "running" /\ outcome' = "running" =>
       gate.active /\ sel \in listed /\ latest' = sel]_vars

=============================================================================
