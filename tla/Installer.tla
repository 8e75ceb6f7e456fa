------------------------------ MODULE Installer ------------------------------
(***************************************************************************)
(* The installer end to end: the root service and the disks (DiskInstall)  *)
(* with the screens of the shell that talks to it (InstallerUI).  The      *)
(* dictionary INSTALL is what they share: the contract the screens were    *)
(* written against is replaced by the thread that is to keep it.           *)
(*                                                                         *)
(* The shell runs in one main loop and waits for every answer, so it does  *)
(* nothing else while persist_setup is between its look and its mkfs.      *)
(***************************************************************************)
EXTENDS DiskInstall

CONSTANTS
  MaxRestarts, \* how often the service may die between two boots (bounds the model)
  MaxInstalls  \* how many installs are accepted between two boots (bounds the model)

VARIABLES
  up, restarts, installs, outcome,                \* the service, seen from the shell
  screen, tried, listed, sel, waiting, rescan,    \* the screens, as in InstallerUI
  gate, go, status, polling, finished, restarted

screenVars == <<screen, tried, listed, sel, waiting, rescan, gate, go, status, polling,
                finished, restarted>>
uiVars  == <<up, restarts, installs, outcome, screenVars>>
sysVars == <<vars, uiVars>>

UI == INSTANCE InstallerUI
  WITH running <- job.running, done <- job.done, error <- job.error

-----------------------------------------------------------------------------
SysInit == Init /\ UI!Init

\* Erase & Install, accepted.
Install(t) == \E d \in Disk : d = sel /\ InstallStart(t, d) /\ UI!GoClicked

\* The screens do not see the thread: outcome keeps what it came to.
Works(t) ==
  /\ InstallThread(t)
  /\ outcome' = IF job'.done /\ ~job.done THEN "ok"
                ELSE IF job'.error /\ ~job.error THEN "failed" ELSE outcome
  /\ UNCHANGED <<up, restarts, installs, screenVars>>

\* Enable Persistent Storage is in the menu of the desktop, not on the
\* full-screen installer.
Persist ==
  /\ \/ PersistLook /\ up /\ screen = "window"
     \/ PersistFormat
  /\ UNCHANGED uiVars

\* The service dies, idle or in the middle of an answer.
Dies ==
  /\ ServiceRestart
  /\ UI!ServiceDies \/ (setup = NoDisk /\ UI!Next)
  /\ up /\ ~up'

Starts == machine = "live" /\ UNCHANGED vars /\ UI!ServiceStarts

\* A click or a timer that changes nothing in the service.
ShellFree == ServerFree /\ UNCHANGED <<vars, up>>
Click  == /\ ShellFree
          /\ \/ UI!RefreshClicked \/ UI!GateClicked \/ \E d \in Disk : UI!DiskToggled(d)
             \/ UI!GoClicked \/ UI!RestartClicked \/ UI!Reopen \/ UI!TryDaybreak
Rescan == ShellFree /\ UI!Rescan
Poll   == ShellFree /\ UI!Poll

\* The shell of the next boot: as UI!Init.
FreshShell ==
  /\ up' \in BOOLEAN
  /\ restarts' = 0 /\ installs' = 0
  /\ screen' \in {UI!ShellMode(TRUE, o) : o \in {"none", "window"}}
  /\ listed' \in (IF screen' = "first" /\ up' THEN SUBSET Disk ELSE {{}})
  /\ sel' \in (IF listed' = {} THEN {NoDisk} ELSE listed')
  /\ waiting' = (screen' = "first" /\ ~up')
  /\ rescan' = waiting'
  /\ gate' = [active |-> FALSE, sensitive |-> screen' = "first"]
  /\ go' = FALSE /\ polling' = FALSE /\ finished' = FALSE /\ tried' = FALSE
  /\ status' = "select" /\ restarted' = "none" /\ outcome' = "none"

PowerCycle == Reboot /\ FreshShell

Session ==
  \/ \E t \in Thread : Install(t) \/ Works(t)
  \/ Persist \/ Dies \/ Starts \/ Click \/ Rescan \/ Poll

SysNext == Session \/ PowerCycle

\* The thread is scheduled and its commands return; systemd starts the service
\* again.  A timer that is due is dispatched when the main loop is free again,
\* however often a click got in first.
SysFairness ==
  /\ \A t \in Thread : WF_sysVars(Works(t))
  /\ WF_sysVars(PersistFormat /\ UNCHANGED uiVars)
  /\ WF_sysVars(Starts)
  /\ SF_sysVars(Rescan) /\ SF_sysVars(Poll)

SysSpec == SysInit /\ [][SysNext]_sysVars /\ SysFairness

-----------------------------------------------------------------------------
(* Properties.                                                             *)

\* "Installation complete. Restart to boot from disk.": while that is on the
\* screen, the disk of the last install holds the whole system and is not
\* mounted, unless Enable Persistent Storage has formatted it.
RestartMeansComplete ==
  finished =>
    /\ latest \in Disk
    /\ \/ disk[latest].table = "store"
       \/ disk[latest] = Installed /\ ~Stacked(latest)

\* "Erases the entire selected disk", from the click to the platter: every
\* install, a second one of the same disk included, begins at a click with the
\* check button ticked and the disk selected, stays with that disk until it
\* ends, and but for the setting up of persistent storage nothing else changes
\* a disk.  inst_go leaves the box ticked: the next click counts with it.
EraseNeedsConsent ==
  [][/\ \A t \in Thread : Alive(t)' =>
          chosen'[t] = IF Alive(t) THEN chosen[t] ELSE sel
     /\ \A t \in Thread : ~Alive(t) /\ Alive(t)' => gate.active /\ sel \in listed
     /\ \A d \in Disk : disk'[d] # disk[d] =>
          Installing(d) \/ (setup = d /\ (disk[d].table = "none" \/ racing))]_sysVars

\* The screens of InstallerUI were checked against the contract of the
\* service; before the service itself they do nothing else, and a new boot
\* starts them as they start there.
ScreensAsSpecified == UI!Init /\ [][UI!Next \/ PowerCycle]_(UI!vars)

\* A run the shell watches is followed until the screen has shown how it went
\* (or was replaced by a fresh one), unless the service dies and forgets it.
Forgotten == ~job.running /\ ~job.done /\ ~job.error
OutcomeIsShown == polling /\ job.running ~> ~polling \/ Forgotten

\* "aurorad is still starting -- retry until it answers": on a live machine that
\* is left on, the waiting label does not stay for ever.
DiskListArrives ==
  <>[][~PowerCycle]_sysVars => (waiting ~> ~waiting \/ machine # "live")

=============================================================================
