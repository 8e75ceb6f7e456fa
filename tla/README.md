# DaybreakOS in TLA+

This directory holds TLA+ models of DaybreakOS, the TLC runs that check them on
small instances, and proofs of the most important properties for instances of
any size. The source is the reference: every definition names the lines it
translates in `PROJECT.json` (`map`), and line numbers below are those of the
source tree next to this directory.

## The system

DaybreakOS is a Linux distribution built from source by the scripts in
`scripts/`, with a desktop of its own in `shell/`. It runs from a live ISO or
from a disk. At run time it is a handful of processes.

| part | state it keeps | operations | talks to |
|---|---|---|---|
| root service: `shell/aurorad.py` on port 7213, started by `systemd/aurorad-system.service` | `INSTALL`, `AURA` (dictionaries under a lock), the disks, `/mnt/target`, `/opt/aura/models` | `install_start`, `_do_install` (thread), `persist_setup`, `aura_setup_start`, `_aura_download` (thread), shares, power | disks through commands, the network, `aura-llm-launch` |
| session service: the same program on port 7212, started by the session | `~/Applications`, desktop entries, the backlight | `/ask`, store install and removal, launch, brightness, status | the language model, GitHub, the network |
| language model client: `shell/aura_llm.py`, `shell/aura_power.py` | none of its own | prompt, parse, alias, validate, route, fall back | `llama-server` |
| desktop shell: `shell/aurora-desktop/aurora-shell.c` | GTK widgets and globals, pins on disk, worker threads and timers | installer screens, Set up Aura, Aura panel, store, taskbar, launcher, pins, widgets, lock, menus | both services over `aurorad_send`, a blocking request with no timeout |
| settings application: `aurora-settings.c` | one process if the session has a bus and one for each start if not, several windows, static pointers to the page and form of the last | network drives, power, displays, sound, about | the root service over `sysd_send`, files and commands |
| command line: `shell/daybreak` | none | list, search, install, remove | the session service |
| live boot: initramfs and GRUB menu in `scripts/11-make-iso.sh` | labels on disks | overlay on `AURORA_DATA` or RAM, hand-off to a disk labelled `EFI` | the disks the root service wrote |
| build scripts: `scripts/*.sh` | stamp files, `$LFS` | one package or stage after another | the network |

### What is hard about it

* **Concurrency.** Both services are single-threaded HTTP servers: handlers never
  overlap each other, but they overlap the installer and the download threads.
  The shell is one GTK thread with timers, blocking requests and workers that
  hand results back through idle callbacks. Neither side knows of the other's
  restarts.
* **Failure.** systemd restarts a dead service and every dictionary is gone; a
  session is replaced by agetty; the machine is switched off in the middle of
  an install; each command of an install may fail after having done its work;
  a download may end early without an error.
* **Ordering.** Outcome before release of the flag; unmount before release;
  a label on disk long before what it stands for; a check before the lock.
* **Staleness.** Dictionaries that keep the last outcome, windows that are
  hidden and shown again, a disk list older than the disks, events of the
  compositor that arrive after what they tell of, menus and timers that keep
  plain pointers.

`PROJECT.json` lists every hazard at its line.

### What makes each part correct

* Install: each install, a second one of the same disk included, is of the disk
  selected at its own click with the box ticked; files land on that disk, "done" means
  a complete system, one install at a time, every install ends.
* Persistent storage: only a blank disk is formatted, at most one store exists.
* Installer screens: no install without a ticked box and a selected disk,
  "Restart" only after a success, an outcome that is always shown.
* Model download: one thread per file, nothing partial in place of the model,
  a window that never gets stuck.
* Store: "installed" means the same to the shell, the service and the command
  line, and what is shown as installed starts.
* Aura: a question gets exactly one answer, an action that ran is told, power only
  after a click on the row of that answer, each worker of the day card ends.
* Taskbar: once its events are read, a chip stands for an open, named window, and
  no listener or button is given a freed one.
* Pins, launcher, toast: the dock, `g_pins` and the file agree, no tile points into
  a list that was freed, a toast goes by its own timer.
* Network shares: one drive to a directory, no directory without a drive, a list
  that is what is mounted.
* Build scripts: a stamp stands for a finished package.

## Modules

| module | models | state and actions |
|---|---|---|
| `BackgroundJob` | what `INSTALL` and `AURA` promise whoever polls them | abstract specification: `Start`, `Report`, `Release`, `Restart` |
| `DiskInstall` | `install_start`, `_do_install`, `persist_setup`, restarts, reboots, hand-off | one action per command of `_do_install`; `disk` is what each disk holds, `target` the stack of mounts at `/mnt/target`, `job` is `INSTALL` |
| `InstallerUI` | the two installer screens, against `BackgroundJob` | one action per callback: `RefreshClicked`, `Rescan`, `DiskToggled`, `GateClicked`, `GoClicked`, `RestartClicked`, `Poll`, `Reopen`, `TryDaybreak` |
| `Installer` | `DiskInstall` and `InstallerUI` together, from the click to the platter | extends `DiskInstall` and instantiates `InstallerUI` with `job.running`, `job.done` and `job.error` for its dictionary; `Install` is the accepted click, `Works` the thread, `Click`, `Rescan` and `Poll` the shell, `Dies` and `PowerCycle` take both |
| `AuraModel` | `_aura_download`, `aura_setup_start` and the Set up Aura window | one action per step of the thread, one per callback; `checked` is the handler between its check and its lock |
| `Store` | `store_install` with both package formats, `store_remove`, the catalog, the cards with their workers, `shell/daybreak` in terminals | one action per step of a request that can fail or be cut short (`Download`, `Unpack`, `Clear`, `Fill`, ...), one per callback (`ClickGet`, `ApplyResult`) and per call of the command (`Type`, `Call`); `queue` is what the kernel holds for the single-threaded service, at most `Backlog` connections besides the head, which is being served; `Connect` and `Call` fail if there is no room |
| `Taskbar` | the windows in the dock: compositor, the events under way, one `Toplevel` and one chip for each window, their menus | `Map`, `Change`, `Done`, `Close` are the compositor; `FtlNew`, `FtlName`, `FtlState`, `FtlDone`, `FtlClosed` the listeners; `TaskClicked`, `TaskPress`, `TaskQuit` the user |
| `Desktop` | pins and their file, launcher, toast, night light | one action per callback: `PinBtnPress`, `LauncherBtn`, `LauncherItemPress`, `LauncherPinToggle`, `ToastHide`, `CcToggle`, `CtxNight`; `Install` is anyone who adds or removes a `.desktop` entry |
| `AuraPanel` | the Aura panel, its threads and power rows, the day card, `/ask` of the session service and the model client | `Connect`, `Accept`, `Read`, `Model`, `Execute`, `Tell` follow a question through the backlog and the service; `AuraSubmit`, `AuraApplyResult`, `OnAuraConfirmOk`, `AuraConfirmExpire` the panel; `DaySleep`, `DayWake`, `DayApply` the day worker |
| `Shares` | the Network page and the power buttons of Settings, `mount_share`, `unmount_share` and `list_shares` of the root service | per process, `call` is the request its blocking main loop waits for and `got` the list it was answered; `Send` and `Accept` bring it through the backlog; one action per command of the service (`MountBegin`, `MountRun`, `MountFailed`, `UnmountRun`, ...), one per button and one per end of a handler (`Fill`, `Connected`, `Disconnected`) |
| `*_proofs` | theorems about the module of that name | |
| `MC*` | model values for TLC | |

`DiskInstall` and `AuraModel` are each shown to implement `BackgroundJob`, and
`InstallerUI` is written against `BackgroundJob`. `Installer` then puts the service
in place of its contract: its steps are those of `DiskInstall` on the disks, those
of the screens are free to do what their callbacks do, and `ScreensAsSpecified`
says that nothing comes of it which the contract did not allow. The other modules compose a
client with its service directly: `Store` and `AuraPanel` the shell with the
session service, `Shares` Settings with the root service, `Taskbar` the shell with
the compositor. They share no state with each other that a property is about,
except that every request waits in the one backlog of its service.

### How the models read the code

* A command of `_do_install` is one step; `_ist` runs just before a command, so
  the step that ends one command publishes the percentage of the next. A command
  that fails may have done its work or not (`Runs`).
* A disk is a record: the signature of the whole disk and what its two
  partitions hold. The label `EFI` is there from `mkfs.vfat` on, the disk boots
  once GRUB and its configuration are on it.
* `/mnt/target` is a stack, because a service that died leaves its mounts and the
  next install mounts over them. `umount -lf` takes the top one away.
* `wipefs` and `mkfs` refuse a disk that is mounted; that is what they do without
  `-f`, or in spite of it, on a busy device.
* A request of the shell is answered, refused (`connect` fails, the answer is
  NULL), or cut (the service dies after accepting: an empty body). The shell
  tells NULL from a body, but not an empty body from an empty object.
* `HTTPServer` listens with a backlog of five and serves one connection at a time.
  `Backlog` is that number, a parameter: the kernel takes a connection while there is room, and a
  `connect` that finds none for as long as it tries fails like one that nobody listens
  to. Where a property says "taken", this is meant: those whom the kernel turned away are told an
  error, and in what order others get in while there is no room is nobody's promise.
* An application's tree is one of six values: what the shell looks for (`AppRun`),
  what the service looks for (a directory) and what can be started are different
  parts of it. `rmtree`, `extractall` and a move between file systems are two steps
  each, so that a death can leave half a tree. The service
  ignores the errors of `rmtree` and `remove` (aurorad.py:356, :381-385): `Cleared`
  and `DropEntry` may leave everything as it was and go on, the move that follows then lands
  inside the old tree, and the answer is ok. `ignored` remembers it for
  the request, the history `unfinished` for the application. `Rmdir` of `Shares` is the same for the
  directories under `/media` (:652, :666), with `left`.
* A request stays in the backlog when its sender is gone; its answer then reaches
  nobody.
* A window is open, named or active for the compositor; the shell learns it from
  `wire`, in order and late. A freed `Toplevel` may be handed out again by
  `g_new0`: the open menu that points to it remembers which windows could have
  got its memory (`later`), and what `task_quit` does with it is a choice among
  those, nothing, and a crash.
* GTK menus have the grab: while one is open no other click reaches the shell, but
  events, timers and the Store go on.
* A question is one of five kinds, by which path of `do_POST` it takes: about
  power; served by a shortcut, whether or not `action_allowed` would let its words
  act; with words that ask for an action; plain; or refused, because it is blank or
  made invalid JSON by `g_strescape` (any accented letter). The model fails, answers or
  calls a tool, which is honoured only if the words ask for an action.
* `validate_call` checks the names of a call's arguments and not their values, which
  come back among the `actions` of the reply (aura_llm.py:245). The shell looks for
  `"confirm"` anywhere in the body (aurora-shell.c:550), so the reply "echoed" gives a
  question a power row that is not about power. Other values cannot be encoded or looked
  up, which ends the connection ("unreadable").
* Settings is one process where the session has a bus (`shell/aurora-session` runs
  `dbus-run-session`) and one per start where it has none (the wrapper of
  13-aurora-desktop.sh:304-326). `ProcessOf` says which window belongs to which process.
* A mount is a stack per directory, `umount` takes the top away; two shares may have
  the same name under `/media` (`_safe_mount_name`).
* History variables (`lost`, `asked`, `ran`, `missed`, `left`, `latest`, `racing`, `outcome`, `restarted`, `tried`,
  `cut`, `unfinished`) are named as such; no guard reads them.

## Runs

| run | instance | shows |
|---|---|---|
| `disk_install` | 2 disks, 2 threads, 2 entries | `TypeOK`, `OneInstaller`, `FilesGoToChosenDisk`, `DoneMeansComplete`, `OneStore`, `OnlyConfirmedOrBlankWritten`; implements `BackgroundJob`, liveness included |
| `installer` | 1 disk, 1 thread, 1 entry, any number of boots, 1 death and 2 installs per boot | `RestartMeansComplete`, `EraseNeedsConsent`, `ScreensAsSpecified`, `OutcomeIsShown`, `DiskListArrives` |
| `aura_model` | 2 threads, 2 blocks, 2 deaths | `OneDownload`, `WholeUnlessCut`, `ReadyMeansPresent`, `GreyHasReason`, `OutcomeIsShown`; implements `BackgroundJob` |
| `store` | an AppImage and a package, 1 terminal, backlog 1, 1 death | `EntryMatchesTree`, `AnswersAreTrue`, `OldImageSurvives` |
| `store_answers` | an AppImage, 1 terminal, backlog 1, 2 deaths, 1 command that gives up | `EveryRequestEnds`, `ServedInTurn`, and `GreyMeansPending` with requests whose sender has gone |
| `taskbar` | 2 windows, 2 events under way | `ChipsMirrorWindows`, `NoDanglingToplevel`, `DividerMeansChips` |
| `desktop` | 2 applications, one of them the default pin | `PinsAgree`, `LauncherPointersLive`, `ToastHasItsTimer` |
| `aura_panel` | 2 questions of any kind, 2 day workers with 2 tries, backlog 1, 3 of these in a session at a time | `OneQuestion`, `ThinkingMeansPending`, `PowerNeedsItsButton`, `ButtonsHaveTheirStruct`, `RanIsSaid`, `EveryQuestionAnswered`, `DayEnds` |
| `shares` | 2 windows of one process and 1 of another, 2 shares of one name, backlog 1 | `OneMountEach`, `NoEmptyDirectories`, `LastWindowListsMounts` |

Two disks let one be installed while the other is formatted or holds an older
system; two threads are what it takes for two installers to meet; two entries
give the copy loop a first and a last turn. Nothing in `DiskInstall` is bounded:
its state space is finite. `InstallerUI` and `AuraModel` bound the number of
deaths and of accepted installs (`MaxRestarts`, `MaxInstalls`) only because
they count them; one death in each boot and two installs cover a run that
follows a lost run, a failed one and a finished one. `Installer` takes one disk,
with liveness over any number of boots: two disks are what `disk_install` covers,
and one thread is enough because `OneInstaller` is checked there with two. Its
safety is proved for any number of each. Requests of the store meet only in the
backlog and in the tree of one application, so a card and a terminal that
want the same application, and two cards of different formats, are the ways they
can meet (`NewSession` and `GiveUp` leave requests without a sender, which then meet
their successors); the proofs cover any number of each.

Two windows are what it takes for a menu to outlive its window and to hit
another; `MaxWire` bounds the events under way, two being enough for a change and
its "done", or for a "closed" behind either. Two applications give the pins an
order and a first and a last one to take away; nothing in `Desktop` is bounded but
the ids of its toast timers, of which only the last and the one before can matter.
Two questions are what it takes for a second to be asked while the first has its
buttons on the screen, both to have buttons, and a day worker to stand between
them in the backlog; two workers overtake each other's summaries; two tries give their
loop a first and a last turn (the code has five). `MCSpec` leaves out the sessions in
which all four are out (`MaxOut`) and numbers questions in the order they are
asked; with three, one can be served, one wait in the backlog and one be turned
away. A backlog of one is full as soon as somebody waits, which is the case that matters
of the five connections of the code; the proofs hold for any number. Two shares of one
name let one find the other in its place; two windows of one process are what the
static page needs to belong to one and be used by the other, and a window of another
process is enough for a request to arrive while one is served and for a list to be
out of date through no fault of its own process. A second name shares nothing
with the first but the backlog and is left to the proof. Everything these four runs check as an
invariant is also proved for every value of their constants.

Runs that end in a counterexample state what a comment of the source says:

| run | claim | what happens |
|---|---|---|
| `hand_off_claim` | 11-make-iso.sh:65 hand off to an installed DaybreakOS | on machines that never had a DaybreakOS (`NewMachineSpec`), an install cut off right after `mkfs.vfat` (aurorad.py:516) leaves a disk that the ISO hands off to and that cannot boot |
| `whole_model_claim` | aurorad.py:671 downloads a ~1.0 GB model | a truncated file becomes the model |
| `quit_claim` | aurora-shell.c:916 Quit asks the toplevel to close | the window closed while its menu was open, and another is asked |

Smaller disagreements were met while modelling and have no run of their own.

* `persist_setup` looks for a blank disk and runs `mkfs.ext4 -F` later
  (aurorad.py:430-436); a disk that an install has just wiped looks blank, which
  :414 calls safe to format. `OnlyConfirmedOrBlankWritten` says what does hold: the history
  `racing` marks the set-ups that began while an install was writing their disk.
* A finished or failed install leaves the box ticked (aurora-shell.c: `inst_go` changes only
  its own button), so a second install needs a second click but not a second tick. What
  `EraseNeedsConsent` asks of each install is the click, the box and the selection at that moment.
* `store_remove` answers ok whatever it could not remove (aurorad.py:381-385), and an install whose
  clearing failed finds the `AppRun` of the old tree and answers ok as well (:356-363).
* A tool call whose arguments hold `"confirm"` gives Power off / Cancel to a question that
  is not about power (aura_llm.py:245, aurora-shell.c:550). It still takes the user's click.
* A shortcut of `/ask` acts on words which `action_allowed` would refuse.
* `docs/superpowers/specs/2026-09-15-daybreakos-hardware-foundation-design.md:169` speaks of "the
  `dbus-run-session` wrapper in `scripts/13-aurora-desktop.sh`"; that script (:304-326) writes one that
  starts labwc without a bus, over the one that 10-aurora-shell.sh:116 installs, which has it.
* `am_install` removes the timer that polls a running install and starts none
  (aurora-shell.c:2157): a reopened window shows nothing of it, where
  aurorad.py:452 says that the shell polls `INSTALL`.
* Try DaybreakOS starts a shell without `--desktop`, which finds the same live root
  and shows the installer again (:2174, against :2170).
* "Open" on the card of a Debian package starts an `AppRun` that it does not have
  (:1308, :1354), and a failed install leaves a directory that `daybreak list`
  stars as installed (aurorad.py:155, against daybreak:11).
* `persist_setup` says "already active" (aurorad.py:429) in the session that
  formatted the disk and still writes to RAM, where :392 says that the user reboots
  to activate.
* `aura_setup_start` looks for a model before it takes `AURA_LOCK` (:718), so a
  download that ends in between is followed by a second one.
* The cards of the Store are not told of `daybreak install`, which daybreak:7-8 calls
  the same as clicking Get; `daybreak install` refuses an application that is
  installed (daybreak:81), which daybreak:103 names as the way to reinstall.
* "Nothing was run." (aurora-shell.c:413) is shown as well when the service died
  after an action had run and before its answer; `RanIsSaid` makes that exception.
* A question with an accented letter is sent as invalid JSON (`g_strescape` writes
  octal escapes, :387) and is answered with an error.
* The question of the day card asks for a summary "of my system", which
  `action_allowed` takes for a request to act, so a tool call of the model is
  honoured. A worker that gives up late replaces the summary of one that did not.
* The Night Light button keeps a state of its own (:1515), which the context menu
  (:2396) does not tell: the next click on the button may change nothing.
* A second window of Settings takes `g_net_page` and the form from the first
  (aurora-settings.c:219, :235), whose buttons then act on it, or on freed memory if
  it was closed (`UseAfterFree`).
* The message of a successful connection is set on a label that the refresh right
  after it destroys (aurora-settings.c:253-256), and a list that could not be had is
  shown as "none". "Already connected" may mean another share of the same name.

### Fairness

A spawned thread is scheduled, and every command it runs returns or fails:
weak fairness of the threads (the reads of a download time out after 60 s, the
wait for the model after 90 s, after which the handler answers by itself).
A handler that has begun goes on to its end (downloads time out; the extraction
of an image is taken to end). `connect` to a full backlog ends, one way or the
other: Linux gives up after its retries. A worker's idle callback runs. Timers of the GTK main loop fire;
in `Installer` that is strong fairness, because `am_persist` holds the loop while
`persist_setup` works (aurora-shell.c:1955-1962) and the timer, which has come due
meanwhile, is dispatched when it returns.
systemd restarts the service (`Restart=always`). No user action, failure,
death or reboot is fair: nobody owes the system a click or a crash. The session
service is not restarted, so its death is final until the next session, and that
each question is answered does not rest on it: a thread whose connection ends
goes on with what it got. The shell reads the events of the compositor. `InstallerUI`,
`Desktop` and `Shares` state no fairness: the first gets it from `Installer`, the
properties of the others are about what is there between two events or requests.

## Proofs

`DiskInstall_proofs` proves, for any sets of disks and threads and any number of
entries, from `DiskAssumption` and `EntriesAssumption` only:

* `Invariant`: `Spec => []IInv`, where `IInv` is `TypeOK`, one live thread at
  most and only while `job.running` is set, a live thread's argument is a disk,
  and `/mnt/target` shows that disk while the thread writes by path. `OneInstaller`
  alone is not inductive: `InstallStart` needs "no flag, no thread", which holds
  because `Release` ends the thread and the flag in one step. `FilesGoToChosenDisk`
  is inductive because `Mount` pushes on top of whatever is left, and nobody
  else touches the stack while a thread is alive.
* `TypeCorrect`, `MutualExclusion`, `FilesLandWhereChosen`: its consequences.
* `DataIsSafe`: the action property `OnlyConfirmedOrBlankWritten`, from the
  invariant. `SetupInv` says that the disk `persist_setup` has chosen is blank and that no
  install is writing it, unless one was when it looked (`racing`).
* `InvariantJ`: `Spec => []JInv`, a second invariant on top of the first. `StageInv` says
  what the disk of a live thread holds before each command, `StackInv` that nothing
  but the thread's own mount covers its disk (`wipefs` refuses a mounted one, and
  only this thread mounts and unmounts), `StoreInv` that no disk is labelled
  `AURORA_DATA` while `persist_setup` has one chosen. From it follow
  `CompleteWhenDone` for `DoneMeansComplete` and `AtMostOneStore` for `OneStore`.
* `ContractIsKept`: the safety half of the refinement of `BackgroundJob`. `OutcomeInv`
  says that a thread has reported no outcome before it reaches the finally clause
  and one from there on.
* `NoFlagIsLeft` (`FlagHasItsThread`) and `InstallsGetOn` (`InstallsAdvance`): the flag
  stands for a live thread, and `StepsLeft`, the commands and entries a thread has
  still to go through, falls with each of its steps and with no other. That is what
  the liveness half of `BackgroundJob` rests on besides the scheduling of the thread.

The same module goes on to the composition of `Installer`, for any `MaxRestarts` and
`MaxInstalls`:

* `ServiceInside`: `SysSpec => Init /\ [][Next]_vars`. The screens only add
  conditions, so every theorem above holds in the composition.
* `SysInvariant`: `SysInv` is the invariants of the service, the invariant of
  `InstallerUI_proofs` under its substitution (its lemmas are cited through an
  instance of that module), and `LinkInv`, which says that an `outcome` of "ok" speaks
  of a complete disk and that a thread lives only while the service is up. `Works` does not mention what `InstallerUI` calls
  `JobReports` and `JobReleases`; that each command of the thread is one of them or
  a stutter is `WorksSeen`, and rests on `OutcomeInv` and on the one live thread.
* `ScreensImplemented`: the action property `ScreensAsSpecified`, from it.
* `CompleteOnDisk` (`RestartMeansComplete`): the success the screen shows is the last
  one, and `StageInv` and `StackInv` say what its disk holds. `ConsentReachesDisk`
  (`EraseNeedsConsent`): a thread comes to life at a click only, with the box ticked and
  for the disk selected then (the sensitivity of the button, from `InstallerUI_proofs`),
  keeps its disk until it ends, and is the one that changes it (`DataIsSafe`).
* `WaitersStillHaveTimers`: `WaitingIsArmed` of the screens, before the service itself.

The argument is by cases on the actions: one lemma per group of actions says what
it does to the records (`JobUpdates`, `ContentUpdates`, `JobFields`), one per group what
it keeps (`ThreadMoves`, `ThreadWrites`, `ThreadMounts`, `ThreadCopies`, `ThreadStacks`).
`ThreadGrows` and `StagesGrow` follow the content of the disk from command to command;
`ThreadTells` sums up what a step does to the dictionary.

`Store_proofs` proves, for any catalog, any split into packages and images, any
terminals, backlog and bounds, from `DebAssumption`, `TerminalAssumption`,
`BacklogAssumption` and `BoundsAssumption`:

* `Invariant`: `Spec => []IInv`. `ServiceInv` says what each step of a request may
  rely on: the application is marked unfinished while it changes, an entry is
  written only for a tree that has a program, an image is cleared by an install only
  with the new tree unpacked, and a request that ignored an error leaves the
  application unfinished. `SenderInv` says that every request with a sender
  finds that sender waiting for it, and no sender has two; `CardInv`, that a
  grey card waits for something. None of the properties is inductive without them.
* `OneRequestPerClick`, `EntriesMatchTrees`, `TrueAnswers`, `TypeCorrect`: its
  consequences (the second and the third say what holds of applications that are not
  `unfinished`, and of those that are, as the definitions spell out); `ImagesSurvive`: the action property `OldImageSurvives`.
* `NobodyOvertakes`: the action property `ServedInTurn`, of the requests the kernel took. `StepsTo` counts the steps the
  single-threaded service still has to take before it answers the request at a
  place of its backlog; every step of the service lowers it for everybody who
  waits there, no step raises it, and nobody is passed over. This is the safety half of
  `EveryRequestEnds`: what is left to fairness is that the service takes its steps.

The lemmas split along who moves: a step of the service changes one application
(`ServingKept`); everybody else only appends to the queue or takes a name off it
(`AppendKeepsHead`, `OrphanedKeepsHead`, `AppendKeepsSenders`, `OrphanedKeepsSenders`),
and an answer takes the head (`AnswerKeepsSenders`).

`InstallerUI_proofs` (any disks, restarts and installs, with no assumption):
`CompleteIsTrue` for `RestartMeansInstalled`, `ConsentIsAsked` for `ConsentBeforeErase`,
`WaitersHaveTimers` for `WaitingIsArmed`: "Looking for disks" always has its retry, a stage
its poll, which is the safety half of `DiskListArrives` and `OutcomeIsShown`. `IInv` ties `INSTALL` to the
history `outcome` (`ServiceInv`) and the sensitivity of Erase & Install to the
check button (`ScreenInv`); the rest follows the finished flag through the poll,
lemma by lemma for the service (`Requests`, `Runs`) and for each callback.

`AuraModel_proofs` (any threads, length of the file and restarts;
`BlocksAssumption`, `RestartsAssumption`): `OneWriter`, `ModelIsWhole`, `ReadyIsTrue`,
`GreyIsExplained`. `PhasesAgree` says what the `.part` file and the flags are at each
step of the thread, without which `os.replace` might put anything in place.
`ContractIsKept` is the safety half of the refinement: the initial state maps to an
initial state of `BackgroundJob`, and every step to one of its steps or a stutter.
`NoFlagIsLeft` and `DownloadsGetOn` (`DownloadsAdvance`) say of a download what the
theorems of `DiskInstall_proofs` say of an install: chunks and statements left fall with each
step of the thread, which needs that nobody else writes the `.part` file.

`Taskbar_proofs` (any windows, any number of events under way; `MaxWireAssumption`):
`ChipsAreRight`, `NothingDangles`, `DividerIsRight`. `ChipsMirrorWindows` speaks of
settled windows only; what is inductive is what the events still to come will do.
`EventInv` says that "toplevel" comes first and "closed" last, that a change is
followed by "done" or is owed one, and that the last change of a field carries its
present value; `Known` says, for each stage of a window's life, what the shell may
not know yet.

`Desktop_proofs` (any applications; `FootAssumption`): `PinsSurvive`, `NoStaleTile`,
`OneToastTimer`, and `NoPinTwice` for `PinnedOnce`, on which `unpin_exec` relies when it
takes away the first match only. The lemmas `WithoutPins` and `AppendPin` are about
sequences without repetitions.

`AuraPanel_proofs` (any questions, day workers, tries and backlog; `AskDayAssumption`,
`TriesAssumption`, `BacklogAssumption`): `OneAtATime`, `ThinkingIsTrue`, `PowerIsAsked`,
`LiveButtons`, `ActionsAreTold`. `QueueInv` says that the
service holds only connections whose threads wait, each once; `Bubble` ties the
bubble, its ticker, its row and what has run for it to the state of its thread.
`NobodyIsForgotten` (`WaitersAreHeld`): a thread whose connection was taken is held by the
service in exactly one of its `Backlog + 1` places. `NobodyIsOvertaken` (`AnsweredInTurn`): each
step of the handlers brings everybody who is held closer to the answer, no other step takes it back. It is the
safety half of `EveryQuestionAnswered`; that the handlers take their steps is fairness.

`Shares_proofs` (any processes, windows, shares, directories, naming and backlog;
`ProcessOfAssumption`, `TargetOfAssumption`, `BacklogAssumption`): `NoMountOverAnother`,
`DirectoriesAreDrives`, `ListIsCurrent`. `PhaseInv` says what a request may rely on in each of its
phases, which is sound because one request is served at a time (`OneServed`); `PageInv` ties a static
page to a window of its own process, `DirsInv` names the one directory that may be
empty meanwhile, `ListInv` says when the list of each process may lag.

Model-checked only: every liveness property and the liveness half of the two
refinements (fairness and `ENABLED` are outside what the prover handles). Proved and not in any run, because it costs no more
to have them: `TypeOK` of the modules other than `DiskInstall`, `PinnedOnce`,
`OverlayMeansNight` (in the invariant of `Desktop`), `WaitersAreHeld`, `AnsweredInTurn`, `WaitingIsArmed`, `InstallsAdvance`, `DownloadsAdvance`,
`FlagHasItsThread` of `DiskInstall` and of `AuraModel`, and `RestartMeansInstalled` and
`ConsentBeforeErase` of `InstallerUI`, which `RestartMeansComplete` and
`EraseNeedsConsent` say of the disk itself.

## Not modelled

* The HTTP gates and read-only endpoints keep no state.
* The browser shell (`shell/index.html`, `aurora-bridge.js`) has been replaced by the
  native one. The evaluation harness in `tests/` measures language models offline.
* The build scripts run one after another; their only state is a stamp per package.
* The lock screen is a window that Return or Escape hides, with no password; the
  top bar, the statistics, the sliders of volume and brightness, and the pages
  About, Display and Sound of Settings read files and start commands and remember
  nothing.
* Styling, layout and text. The icon of a chip is looked for once, when its window has an
  app id, in the `g_apps` of that moment. A tab in the name of an application would
  break its line in the pins file; names are values here.
* The text of the day card's label and which of several workers wrote it last; only the
  workers' lives are modelled.
* Which words make which kind of question: `action_allowed`, the shortcuts of
  `do_POST` and the aliases are regular expressions over text, taken as a free choice
  of the kind.
