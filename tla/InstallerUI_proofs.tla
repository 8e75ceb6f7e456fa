------------------------- MODULE InstallerUI_proofs -------------------------
(***************************************************************************)
(* Proofs about the installer screens (InstallerUI) for every set of disks *)
(* and every number of restarts and installs.                              *)
(***************************************************************************)
EXTENDS InstallerUI, TLAPS

Outcome == {"none", "running", "ok", "failed", "lost"}

\* INSTALL and what became of the last accepted install tell the same story.
ServiceInv ==
  /\ Job!TypeOK
  /\ up \in BOOLEAN /\ restarts \in Nat /\ installs \in Nat
  /\ outcome \in Outcome
  /\ running /\ ~done /\ ~error => outcome = "running"
  /\ done => outcome = "ok"
  /\ error => outcome = "failed"

\* Erase & Install can be clicked with the check button ticked; the only other
\* button in its place is Restart, and that is for a finished install.
ScreenInv ==
  /\ screen \in {"first", "window"} /\ tried \in BOOLEAN
  /\ listed \in SUBSET Disk /\ sel \in listed \cup {NoDisk}
  /\ waiting \in BOOLEAN /\ rescan \in BOOLEAN
  /\ gate \in [active : BOOLEAN, sensitive : BOOLEAN]
  /\ go \in BOOLEAN /\ polling \in BOOLEAN /\ finished \in BOOLEAN
  /\ status \in {"select", "stage", "error", "complete"}
  /\ go /\ ~finished => gate.active

IInv ==
  /\ ServiceInv
  /\ ScreenInv
  /\ finished => outcome = "ok"
  /\ restarted \in {"none", "ok"}

-----------------------------------------------------------------------------
(* The service.                                                            *)

\* No install begins, and what a finished one came to is not forgotten.
Calm == /\ outcome = "ok" => outcome' = "ok"
        /\ outcome' = "running" => outcome = "running"

LEMMA Requests ==
  ASSUME ServiceInv, Reads \/ Refused \/ Cut
  PROVE  ServiceInv' /\ Calm
<1>1. CASE Reads \/ Refused
  BY <1>1 DEF Reads, Refused, Answered, ServiceInv, Calm, serviceVars, Job!TypeOK
<1>2. CASE Cut
  <2>1. restarts' \in Nat
    BY <1>2 DEF Cut, ServiceInv
  <2> QED BY <1>2, <2>1 DEF Cut, ServiceInv, Calm, Outcome, Job!Restart, Job!TypeOK
<1> QED BY <1>1, <1>2

LEMMA Runs ==
  ASSUME ServiceInv, ServiceStarts \/ JobReports \/ JobReleases
  PROVE  /\ ServiceInv' /\ Calm
         /\ UNCHANGED <<screen, tried, listVars, buttonVars, status, polling, restarted>>
<1>1. CASE ServiceStarts
  BY <1>1 DEF ServiceStarts, ServiceInv, Calm, serviceVars, Job!TypeOK
<1>2. CASE JobReports
  <2>1. PICK ok \in BOOLEAN : Job!Report(ok) /\ outcome' = IF ok THEN "ok" ELSE "failed"
    BY <1>2 DEF JobReports
  <2> QED BY <1>2, <2>1 DEF JobReports, ServiceInv, Calm, Outcome, Job!Report, Job!TypeOK
<1>3. CASE JobReleases
  BY <1>3 DEF JobReleases, ServiceInv, Calm, Job!Release, Job!TypeOK
<1> QED BY <1>1, <1>2, <1>3

\* While the screen shows nothing of a finished install, the rest of the
\* invariant is what the two parts say.
LEMMA Together ==
  ASSUME IInv, ServiceInv', ScreenInv', Calm,
         finished' => finished \/ done, restarted' = restarted
  PROVE  IInv'
BY DEF IInv, Calm, ServiceInv

-----------------------------------------------------------------------------
(* The screen.                                                             *)

LEMMA Listing ==
  ASSUME IInv, RefreshList
  PROVE  /\ ServiceInv' /\ Calm
         /\ listed' \in SUBSET Disk /\ sel' \in listed' \cup {NoDisk}
         /\ waiting' \in BOOLEAN /\ rescan' \in BOOLEAN
<1>1. ServiceInv' /\ Calm
  BY Requests DEF RefreshList, IInv
<1>2. \A ds \in SUBSET Disk : Listed(ds) =>
        /\ listed' \in SUBSET Disk /\ sel' \in listed' \cup {NoDisk}
        /\ waiting' \in BOOLEAN /\ rescan' \in BOOLEAN
  BY DEF Listed
<1> QED BY <1>1, <1>2 DEF RefreshList

LEMMA Refreshing ==
  ASSUME IInv, RefreshClicked \/ Rescan
  PROVE  IInv' /\ Calm
<1>1. RefreshDisks /\ UNCHANGED <<screen, tried, gate, finished, status, polling, restarted>>
  BY DEF RefreshClicked, Rescan
<1>2. /\ ServiceInv' /\ Calm
      /\ listed' \in SUBSET Disk /\ sel' \in listed' \cup {NoDisk}
      /\ waiting' \in BOOLEAN /\ rescan' \in BOOLEAN
  BY <1>1, Listing DEF RefreshDisks
<1>3. go' \in BOOLEAN /\ (go' /\ ~finished => gate.active)
  BY <1>1, <1>2 DEF RefreshDisks, GateToggled, IInv, ScreenInv
<1>4. ScreenInv'
  BY <1>1, <1>2, <1>3 DEF IInv, ScreenInv
<1> QED BY <1>1, <1>2, <1>4, Together

LEMMA Choosing ==
  ASSUME IInv, GateClicked \/ \E d \in Disk : DiskToggled(d)
  PROVE  IInv' /\ Calm
<1>1. ServiceInv' /\ Calm /\ UNCHANGED <<finished, restarted>>
  BY DEF IInv, ServiceInv, Calm, Job!TypeOK, GateClicked, DiskToggled, serviceVars, buttonVars
<1>2. CASE GateClicked
  <2>1. /\ gate' \in [active : BOOLEAN, sensitive : BOOLEAN]
        /\ go' \in BOOLEAN /\ (go' => gate'.active)
    BY <1>2 DEF GateClicked, GateToggled, IInv, ScreenInv
  <2> QED BY <1>1, <1>2, <2>1, Together DEF GateClicked, IInv, ScreenInv, listVars
<1>3. ASSUME NEW d \in Disk, DiskToggled(d) PROVE ScreenInv'
  BY <1>3 DEF DiskToggled, IInv, ScreenInv, buttonVars
<1> QED BY <1>1, <1>2, <1>3, Together

\* The only step that begins an install.
LEMMA Going ==
  ASSUME IInv, GoClicked
  PROVE  /\ IInv'
         /\ outcome # "running" /\ outcome' = "running" =>
              gate.active /\ sel \in listed /\ latest' = sel
<1> USE DEF IInv
<1>1. /\ go /\ ~finished /\ sel # NoDisk
      /\ UNCHANGED <<screen, tried, listed, sel, waiting, rescan, finished, restarted>>
  BY DEF GoClicked, listVars
<1>2. gate.active /\ sel \in listed /\ sel \in Disk
  BY <1>1 DEF ScreenInv
<1>3. /\ gate' \in [active : BOOLEAN, sensitive : BOOLEAN] /\ gate'.active = gate.active
      /\ go' \in BOOLEAN /\ polling' \in BOOLEAN /\ status' \in {"error", "stage"}
  BY DEF GoClicked, InstallRefused, InstallUnderWay, ScreenInv
<1>4. ScreenInv'
  BY <1>1, <1>2, <1>3 DEF ScreenInv
<1>5. CASE Reads \/ Refused \/ Cut
  BY <1>1, <1>4, <1>5, Requests, Together DEF Calm
<1>6. CASE installs < MaxInstalls /\ Answered /\ Job!Start(sel)
           /\ outcome' = "running" /\ installs' = installs + 1
  <2>1. installs' \in Nat
    BY <1>6 DEF ServiceInv
  <2>2. ServiceInv'
    BY <1>2, <1>6, <2>1 DEF ServiceInv, Answered, Job!Start, Job!TypeOK, Outcome
  <2> QED BY <1>1, <1>2, <1>4, <1>6, <2>2 DEF Job!Start
<1> QED BY <1>5, <1>6 DEF GoClicked, InstallRefused, InstallUnderWay

LEMMA Restarting ==
  ASSUME IInv, RestartClicked
  PROVE  IInv' /\ Calm
<1>1. ServiceInv' /\ Calm
  BY Requests DEF IInv, RestartClicked
<1>2. restarted' = "ok" /\ UNCHANGED finished
  BY DEF IInv, RestartClicked, buttonVars
<1>3. ScreenInv'
  BY DEF IInv, ScreenInv, RestartClicked, listVars, buttonVars
<1> QED BY <1>1, <1>2, <1>3 DEF IInv, Calm

LEMMA Polled ==
  ASSUME IInv, Poll
  PROVE  IInv' /\ Calm
<1>1. ServiceInv' /\ Calm
  BY Requests DEF IInv, Poll, PollError, PollDone, PollStage, PollUnanswered
<1>2. UNCHANGED <<screen, tried, listed, sel, waiting, rescan, gate, restarted>>
  BY DEF Poll, listVars
<1>3. CASE PollDone
  <2>1. go' = TRUE /\ finished' = TRUE /\ polling' = FALSE /\ status' = "complete" /\ done
    BY <1>3 DEF PollDone
  <2>2. ScreenInv'
    BY <1>2, <2>1 DEF IInv, ScreenInv
  <2> QED BY <1>1, <1>2, <2>1, <2>2, Together
<1>4. CASE PollError
  <2>1. finished' = finished /\ go' = FALSE /\ polling' = FALSE /\ status' = "error"
    BY <1>4 DEF PollError
  <2>2. ScreenInv'
    BY <1>2, <2>1 DEF IInv, ScreenInv
  <2> QED BY <1>1, <1>2, <2>1, <2>2, Together
<1>5. CASE PollStage \/ PollUnanswered
  <2>1. UNCHANGED <<go, finished, polling>> /\ status' \in {status, "stage"}
    BY <1>5 DEF PollStage, PollUnanswered
  <2>2. status' \in {"select", "stage", "error", "complete"}
    BY <2>1 DEF IInv, ScreenInv
  <2>3. ScreenInv'
    BY <1>2, <2>1, <2>2 DEF IInv, ScreenInv
  <2> QED BY <1>1, <1>2, <2>1, <2>3, Together
<1> QED BY <1>3, <1>4, <1>5 DEF Poll

LEMMA Rebuilding ==
  ASSUME IInv, Reopen \/ TryDaybreak
  PROVE  IInv' /\ Calm
<1>1. /\ FreshScreen
      /\ screen' \in {"first", "window"} /\ tried' \in BOOLEAN
  BY DEF Reopen, TryDaybreak, ShellMode, IInv, ScreenInv
<1>2. /\ ServiceInv' /\ Calm
      /\ listed' \in SUBSET Disk /\ sel' \in listed' \cup {NoDisk}
      /\ waiting' \in BOOLEAN /\ rescan' \in BOOLEAN
  BY <1>1, Listing DEF FreshScreen
<1>3. ScreenInv'
  BY <1>1, <1>2 DEF FreshScreen, ScreenInv
<1> QED BY <1>1, <1>2, <1>3, Together DEF FreshScreen

-----------------------------------------------------------------------------
LEMMA Initially == Init => IInv
<1> SUFFICES ASSUME Init PROVE IInv  OBVIOUS
<1>1. ServiceInv
  BY DEF Init, ServiceInv, Outcome, Job!Init, Job!TypeOK
<1>2. screen \in {"first", "window"}
  BY DEF Init, ShellMode
<1>3. listed \in SUBSET Disk /\ sel \in listed \cup {NoDisk}
  BY DEF Init
<1>4. gate \in [active : BOOLEAN, sensitive : BOOLEAN] /\ go = FALSE /\ finished = FALSE
  BY DEF Init
<1>5. waiting \in BOOLEAN /\ rescan \in BOOLEAN
  BY DEF Init
<1>6. ScreenInv
  BY <1>2, <1>3, <1>4, <1>5 DEF Init, ScreenInv
<1> QED BY <1>1, <1>4, <1>6 DEF Init, IInv

LEMMA Consecution ==
  ASSUME IInv, [Next]_vars
  PROVE  /\ IInv'
         /\ outcome # "running" /\ outcome' = "running" =>
              gate.active /\ sel \in listed /\ latest' = sel
<1>1. CASE ServiceDies \/ ServiceStarts \/ JobReports \/ JobReleases
  <2>1. ServiceInv' /\ Calm
    BY <1>1, Requests, Runs DEF IInv, ServiceDies
  <2>2. UNCHANGED <<screen, tried, listed, sel, waiting, rescan, gate, go, finished, status,
                    polling, restarted>>
    BY <1>1, Runs DEF IInv, ServiceDies, listVars, buttonVars
  <2>3. ScreenInv'
    BY <2>2 DEF IInv, ScreenInv
  <2> QED BY <2>1, <2>2, <2>3, Together DEF Calm
<1>2. CASE RefreshClicked \/ Rescan
  BY <1>2, Refreshing DEF Calm
<1>3. CASE GateClicked \/ \E d \in Disk : DiskToggled(d)
  BY <1>3, Choosing DEF Calm
<1>4. CASE GoClicked
  BY <1>4, Going
<1>5. CASE RestartClicked
  BY <1>5, Restarting DEF Calm
<1>6. CASE Poll
  BY <1>6, Polled DEF Calm
<1>7. CASE Reopen \/ TryDaybreak
  BY <1>7, Rebuilding DEF Calm
<1>8. CASE UNCHANGED vars
  BY <1>8 DEF vars, serviceVars, listVars, buttonVars, IInv, ServiceInv, ScreenInv, Job!TypeOK
<1> QED BY <1>1, <1>2, <1>3, <1>4, <1>5, <1>6, <1>7, <1>8 DEF Next

\* Nothing but the report of the service makes an install a good one.
LEMMA OkIsReported ==
  ASSUME Next, outcome' = "ok"
  PROVE  outcome = "ok" \/ done'
<1> DEFINE Kept == outcome' = outcome \/ outcome' \in {"lost", "running"}
<1>1. Reads \/ Refused \/ Cut => Kept
  BY DEF Reads, Refused, Cut
<1>2. CASE JobReports
  <2>1. PICK ok \in BOOLEAN : Job!Report(ok) /\ outcome' = IF ok THEN "ok" ELSE "failed"
    BY <1>2 DEF JobReports
  <2> QED BY <2>1 DEF Job!Report
<1>3. CASE ServiceDies \/ ServiceStarts \/ JobReleases \/ GateClicked
           \/ \E d \in Disk : DiskToggled(d)
  BY <1>1, <1>3 DEF ServiceDies, ServiceStarts, JobReleases, GateClicked, DiskToggled
<1>4. CASE GoClicked \/ RestartClicked \/ Poll
  BY <1>1, <1>4 DEF GoClicked, InstallRefused, InstallUnderWay, RestartClicked, Poll, PollError,
                    PollDone, PollStage, PollUnanswered
<1>5. CASE RefreshClicked \/ Rescan \/ Reopen \/ TryDaybreak
  BY <1>1, <1>5 DEF RefreshClicked, Rescan, Reopen, TryDaybreak, RefreshDisks, FreshScreen,
                    RefreshList
<1> QED BY <1>2, <1>3, <1>4, <1>5 DEF Next

\* The timers go with what the screen says: both are set by the same callbacks.
LEMMA ArmedStarts == Init => WaitingIsArmed
  BY DEF Init, WaitingIsArmed

LEMMA ArmedKept ==
  ASSUME WaitingIsArmed, [Next]_vars
  PROVE  WaitingIsArmed'
<1> USE DEF WaitingIsArmed
<1>1. CASE ServiceDies \/ ServiceStarts \/ JobReports \/ JobReleases
  BY <1>1 DEF ServiceDies, ServiceStarts, JobReports, JobReleases, listVars
<1>2. RefreshList => (waiting' <=> rescan')
  BY DEF RefreshList, Listed
<1>3. CASE RefreshClicked \/ Rescan
  BY <1>2, <1>3 DEF RefreshClicked, Rescan, RefreshDisks
<1>4. CASE GateClicked \/ \E d \in Disk : DiskToggled(d)
  BY <1>4 DEF GateClicked, DiskToggled, listVars
<1>5. CASE GoClicked
  BY <1>5 DEF GoClicked, InstallRefused, InstallUnderWay, listVars
<1>6. CASE RestartClicked
  BY <1>6 DEF RestartClicked, listVars
<1>7. CASE Poll
  BY <1>7 DEF Poll, PollError, PollDone, PollStage, PollUnanswered, listVars
<1>8. CASE Reopen \/ TryDaybreak
  BY <1>2, <1>8 DEF Reopen, TryDaybreak, FreshScreen
<1>9. CASE UNCHANGED vars
  BY <1>9 DEF vars, listVars
<1> QED BY <1>1, <1>3, <1>4, <1>5, <1>6, <1>7, <1>8, <1>9 DEF Next

-----------------------------------------------------------------------------
(* The theorems.                                                           *)

\* The inductive invariant: the screen, the dictionary INSTALL and what became
\* of the last install agree in every reachable state.
THEOREM Invariant == Spec => []IInv
<1>1. IInv /\ [Next]_vars => IInv'
  BY Consecution
<1> QED BY Initially, <1>1, PTL DEF Spec

\* Every variable keeps its type; the selected disk is one of the listed ones.
THEOREM TypeCorrect == Spec => []TypeOK
<1>1. IInv => TypeOK
  BY DEF IInv, ServiceInv, ScreenInv, TypeOK, Outcome
<1> QED BY Invariant, <1>1, PTL

\* "Installation complete" and Restart are shown only for an install that went
\* well, over every reopening, restart and second install.
THEOREM CompleteIsTrue == Spec => []RestartMeansInstalled
<1>1. IInv => RestartMeansInstalled
  BY DEF IInv, RestartMeansInstalled
<1> QED BY Invariant, <1>1, PTL

\* No disk is handed to the installer without the tick and the choice that are
\* on the screen at that moment.
THEOREM ConsentIsAsked == Spec => ConsentBeforeErase
<1>1. IInv /\ [Next]_vars =>
        [outcome # "running" /\ outcome' = "running" =>
           gate.active /\ sel \in listed /\ latest' = sel]_vars
  BY Consecution
<1> QED BY Invariant, <1>1, PTL DEF Spec, ConsentBeforeErase

\* Nobody waits on the screen for a timer that is not there; that the timers
\* fire and the service answers in the end is what fairness adds.
THEOREM WaitersHaveTimers == Spec => []WaitingIsArmed
<1>1. WaitingIsArmed /\ [Next]_vars => WaitingIsArmed'
  BY ArmedKept
<1> QED BY ArmedStarts, <1>1, PTL DEF Spec

=============================================================================
