---------------------------- MODULE DiskInstall ----------------------------
(***************************************************************************)
(* The root service of DaybreakOS (shell/aurorad.py on port 7213) and the  *)
(* disks it writes: install_start and the thread _do_install it spawns,    *)
(* persist_setup, restarts of the service, and the reboot that ends with   *)
(* the GRUB hand-off of scripts/11-make-iso.sh.                            *)
(*                                                                         *)
(* HTTPServer answers one request at a time, so handlers never overlap     *)
(* each other; they do overlap the installer thread.                       *)
(***************************************************************************)
EXTENDS Integers, Sequences, FiniteSets

CONSTANTS
  Disk,      \* the whole, writable disks list_target_disks() returns
  NoDisk,    \* no disk (None, or a tmpfs overlay)
  Thread,    \* identities a _do_install thread may get
  Entries    \* top-level entries of the system to copy

ASSUME DiskAssumption    == NoDisk \notin Disk
ASSUME EntriesAssumption == Entries \in Nat \ {0}

VARIABLES
  disk,       \* what is on each disk
  target,     \* disks mounted at /mnt/target, the visible one first
  job,        \* the dictionary INSTALL
  pc,         \* the command each installer thread is about to run
  chosen,     \* the argument of each installer thread
  copied,     \* entries each installer thread has copied
  setup,      \* persist_setup's st["candidate"] between lsblk and mkfs
  toast,      \* what the last persist_setup answered
  overlay,    \* the AURORA_DATA disk the live root writes to, or NoDisk
  machine,    \* what the machine booted into
  racing,     \* history: an install was writing the candidate when it was found blank
  latest      \* history: the disk of the last accepted install_start

threadVars  == <<pc, chosen, copied>>
persistVars == <<setup, toast, racing>>
bootVars    == <<overlay, machine>>
vars == <<disk, target, job, threadVars, persistVars, bootVars, latest>>

-----------------------------------------------------------------------------
(* Data.  A disk is its own signature and what its two partitions hold     *)
(* under the installer's GPT layout; "raw" is anything unusable.           *)

Content == [table : {"none", "foreign", "store", "gpt"},
            esp   : {"raw", "vfat", "grub"},
            root  : {"raw", "ext4", "system", "config", "complete"}]

Raw(table) == [table |-> table, esp |-> "raw", root |-> "raw"]
Installed  == [table |-> "gpt", esp |-> "grub", root |-> "complete"]

Job == [running : BOOLEAN, pct : 0..100, done : BOOLEAN, error : BOOLEAN]
IdleJob == [running |-> FALSE, pct |-> 0, done |-> FALSE, error |-> FALSE]

Command == {"begin", "wipefs", "sfdisk", "mkfs.vfat", "mkfs.ext4", "mount",
            "cp", "grub-install", "grub.cfg", "fstab"}
PC == Command \cup {"none", "umount", "report", "cleanup", "release"}

\* /mnt/target must be the thread's own disk while it runs these commands.
FileCommand == {"cp", "grub-install", "grub.cfg", "fstab"}

Stacked(d)  == \E i \in DOMAIN target : target[i] = d
InUse(d)    == Stacked(d) \/ overlay = d

\* /dev/disk/by-label/AURORA_DATA, _blank_disk, search --label EFI
Labelled    == {d \in Disk : disk[d].table = "store"}
BlankIgnoringPartitions == {d \in Disk : disk[d].table \in {"none", "foreign"}}
Blank       == {d \in Disk : disk[d].table = "none"}
LabelledEFI == {d \in Disk : disk[d].table = "gpt" /\ disk[d].esp # "raw"}
Bootable(d) == /\ disk[d].table = "gpt" /\ disk[d].esp = "grub"
               /\ disk[d].root \in {"config", "complete"}

Alive(t) == pc[t] # "none"
Installing(d) == \E t \in Thread : Alive(t) /\ chosen[t] = d

-----------------------------------------------------------------------------
(* A live boot of a machine whose disks are blank, foreign, persistent     *)
(* storage (at most one), or hold an earlier DaybreakOS.                   *)
Init ==
  /\ disk \in [Disk -> {Raw("none"), Raw("foreign"), Raw("store"), Installed}]
  /\ \A d, e \in Labelled : d = e
  /\ overlay \in Labelled \cup {NoDisk}
  /\ target = <<>>
  /\ job = IdleJob
  /\ pc = [t \in Thread |-> "none"]
  /\ chosen = [t \in Thread |-> NoDisk]
  /\ copied = [t \in Thread |-> 0]
  /\ setup = NoDisk
  /\ toast = "none"
  /\ machine = "live"
  /\ racing = FALSE
  /\ latest = NoDisk

-----------------------------------------------------------------------------
(* POST /system/install.  The server is free when no persist_setup is      *)
(* between its two commands.                                               *)
ServerFree == machine = "live" /\ setup = NoDisk

InstallStart(t, d) ==
  /\ ServerFree
  /\ ~job.running
  /\ ~Alive(t)
  /\ job' = [running |-> TRUE, pct |-> 0, done |-> FALSE, error |-> FALSE]
  /\ pc' = [pc EXCEPT ![t] = "begin"]
  /\ chosen' = [chosen EXCEPT ![t] = d]
  /\ latest' = d
  /\ UNCHANGED <<disk, target, copied, persistVars, bootVars>>

-----------------------------------------------------------------------------
(* The thread.  _ist() runs just before a command, so the step that ends   *)
(* one command also publishes the percentage of the next.                  *)

Advance(t, next, pct) ==
  /\ pc' = [pc EXCEPT ![t] = next]
  /\ job' = [job EXCEPT !.pct = pct]

\* Mutant: except: pass.
AbortUnreported(t) == pc' = [pc EXCEPT ![t] = "cleanup"] /\ UNCHANGED job

\* CalledProcessError or any other exception: the except clause.
Abort(t) ==
  /\ pc' = [pc EXCEPT ![t] = "cleanup"]
  /\ job' = [job EXCEPT !.error = TRUE]

\* Mutant: subprocess.run without check=True, the failure goes unnoticed.
RunsUnchecked(t, command, next, pct, after) ==
  /\ pc[t] = command
  /\ Advance(t, next, pct) /\ disk' \in {disk, after}
  /\ UNCHANGED <<chosen, persistVars, bootVars, latest>>

\* A command that turns the disks into after.  When it fails it may have done
\* its work or not.
Runs(t, command, next, pct, after) ==
  /\ pc[t] = command
  /\ \/ Advance(t, next, pct) /\ disk' = after
     \/ Abort(t) /\ disk' \in {disk, after}
  /\ UNCHANGED <<chosen, persistVars, bootVars, latest>>

Begin(t) ==
  /\ pc[t] = "begin"
  /\ Advance(t, "wipefs", 4)
  /\ UNCHANGED <<disk, target, chosen, copied, persistVars, bootVars, latest>>

\* wipefs opens the disk exclusively: it refuses one that is mounted.
Wipefs(t) ==
  /\ ~InUse(chosen[t])
  /\ Runs(t, "wipefs", "sfdisk", 4, [disk EXCEPT ![chosen[t]].table = "none"])
  /\ UNCHANGED <<target, copied>>

WipefsBusy(t) ==
  /\ pc[t] = "wipefs" /\ InUse(chosen[t])
  /\ Abort(t)
  /\ UNCHANGED <<disk, target, chosen, copied, persistVars, bootVars, latest>>

\* The new table shows what an earlier install left in the same two places:
\* its ESP is still labelled EFI, its root goes by a PARTUUID that is gone.
Sfdisk(t) ==
  /\ Runs(t, "sfdisk", "mkfs.vfat", 12,
          [disk EXCEPT ![chosen[t]] = [@ EXCEPT !.table = "gpt", !.root = "raw"]])
  /\ UNCHANGED <<target, copied>>

MkfsVfat(t) ==
  /\ Runs(t, "mkfs.vfat", "mkfs.ext4", 12, [disk EXCEPT ![chosen[t]].esp = "vfat"])
  /\ UNCHANGED <<target, copied>>

MkfsExt4(t) ==
  /\ Runs(t, "mkfs.ext4", "mount", 18, [disk EXCEPT ![chosen[t]].root = "ext4"])
  /\ UNCHANGED <<target, copied>>

\* Mutant: skip the mounts when something is mounted already.
MountUnlessMounted(t) ==
  LET d == chosen[t] IN
  /\ pc[t] = "mount"
  /\ Advance(t, "cp", 20)
  /\ target' = IF target = <<>> THEN <<d>> ELSE target
  /\ UNCHANGED <<disk, chosen, copied, persistVars, bootVars, latest>>

\* mount root, then mount esp below it: the second may fail after the first.
Mount(t) ==
  LET d == chosen[t] IN
  /\ pc[t] = "mount"
  /\ \/ /\ disk[d].esp # "raw" /\ disk[d].root # "raw"
        /\ Advance(t, "cp", 20)
        /\ target' = <<d>> \o target
     \/ /\ Abort(t)
        /\ \/ UNCHANGED target
           \/ disk[d].root # "raw" /\ target' = <<d>> \o target
  /\ UNCHANGED <<disk, chosen, copied, persistVars, bootVars, latest>>

\* Files written under /mnt/target land on whatever is mounted there: the
\* visible disk, or the live root in RAM when nothing is.
Visible == IF target = <<>> THEN {} ELSE {Head(target)}

WrittenRoot(to) ==
  [d \in Disk |-> IF d \in Visible THEN [disk[d] EXCEPT !.root = to] ELSE disk[d]]

WrittenEsp ==
  [d \in Disk |-> IF d \in Visible THEN [disk[d] EXCEPT !.esp = "grub"] ELSE disk[d]]

\* Mutant: one entry too many.
CopyEntryTwice(t) ==
  LET n == copied[t] + 1 IN
  /\ IF n <= Entries
     THEN Runs(t, "cp", "cp", 20 + (60 * n) \div Entries, disk)
     ELSE Runs(t, "cp", "grub-install", 84, WrittenRoot("system"))
  /\ copied' = [copied EXCEPT ![t] = n]
  /\ UNCHANGED target

CopyEntry(t) ==
  LET n == copied[t] + 1 IN
  /\ IF n < Entries
     THEN Runs(t, "cp", "cp", 20 + (60 * n) \div Entries, disk)
     ELSE Runs(t, "cp", "grub-install", 84, WrittenRoot("system"))
  /\ copied' = [copied EXCEPT ![t] = n]
  /\ UNCHANGED target

GrubInstall(t) ==
  /\ Runs(t, "grub-install", "grub.cfg", 92, WrittenEsp)
  /\ UNCHANGED <<target, copied>>

WriteGrubCfg(t) ==
  /\ Runs(t, "grub.cfg", "fstab", 96, WrittenRoot("config"))
  /\ UNCHANGED <<target, copied>>

WriteFstab(t) ==
  /\ Runs(t, "fstab", "umount", 96, WrittenRoot("complete"))
  /\ UNCHANGED <<target, copied>>

\* umount -lf of the six mount points: a lazy unmount of the visible tree.
Umount(t, here, next) ==
  /\ pc[t] = here
  /\ target' = IF target = <<>> THEN <<>> ELSE Tail(target)
  /\ pc' = [pc EXCEPT ![t] = next]
  /\ UNCHANGED <<disk, chosen, copied, persistVars, bootVars, latest>>

UmountDone(t) ==
  /\ Umount(t, "umount", "report")
  /\ job' = [job EXCEPT !.pct = 100]

Report(t) ==
  /\ pc[t] = "report"
  /\ job' = [job EXCEPT !.done = TRUE]
  /\ pc' = [pc EXCEPT ![t] = "cleanup"]
  /\ UNCHANGED <<disk, target, chosen, copied, persistVars, bootVars, latest>>

\* Mutant: the finally clause clears the flag first.
CleanupAfterRelease(t) ==
  Umount(t, "cleanup", "release") /\ job' = [job EXCEPT !.running = FALSE]

\* finally: unmount again, and only then let another install start.
Cleanup(t) == Umount(t, "cleanup", "release") /\ UNCHANGED job

\* Mutant: the flag is cleared at the end of the try, not in finally.
ReleaseAfterSuccess(t) ==
  /\ pc[t] = "release"
  /\ job' = [job EXCEPT !.running = ~job.done]
  /\ pc' = [pc EXCEPT ![t] = "none"]
  /\ chosen' = [chosen EXCEPT ![t] = NoDisk]
  /\ copied' = [copied EXCEPT ![t] = 0]
  /\ UNCHANGED <<disk, target, persistVars, bootVars, latest>>

Release(t) ==
  /\ pc[t] = "release"
  /\ job' = [job EXCEPT !.running = FALSE]
  /\ pc' = [pc EXCEPT ![t] = "none"]
  /\ chosen' = [chosen EXCEPT ![t] = NoDisk]
  /\ copied' = [copied EXCEPT ![t] = 0]
  /\ UNCHANGED <<disk, target, persistVars, bootVars, latest>>

InstallThread(t) ==
  \/ Begin(t) \/ Wipefs(t) \/ WipefsBusy(t) \/ Sfdisk(t)
  \/ MkfsVfat(t) \/ MkfsExt4(t) \/ Mount(t) \/ CopyEntry(t)
  \/ GrubInstall(t) \/ WriteGrubCfg(t) \/ WriteFstab(t)
  \/ UmountDone(t) \/ Report(t) \/ Cleanup(t) \/ Release(t)

-----------------------------------------------------------------------------
(* POST /system/persist-setup: look, then format.  The installer thread    *)
(* may run in between, and the format may come any time after the look.    *)

installVars == <<target, job, threadVars, latest>>

\* Mutant: no look at the label first.
PersistLookUnlabelled ==
  /\ ServerFree
  /\ \/ Blank = {} /\ toast' = "no blank disk" /\ UNCHANGED setup
     \/ \E d \in Blank : setup' = d /\ UNCHANGED toast
  /\ racing' = Installing(setup')
  /\ UNCHANGED <<disk, bootVars, installVars>>

PersistLook ==
  /\ ServerFree
  /\ \/ /\ Labelled # {}
        /\ toast' = "already" /\ UNCHANGED setup
     \/ /\ Labelled = {} /\ Blank = {}
        /\ toast' = "no blank disk" /\ UNCHANGED setup
     \/ /\ Labelled = {}
        /\ \E d \in Blank : setup' = d
        /\ UNCHANGED toast
  /\ racing' = Installing(setup')
  /\ UNCHANGED <<disk, bootVars, installVars>>

\* mkfs.ext4 -F on the whole disk; it refuses one that is mounted.
PersistFormat ==
  /\ setup # NoDisk
  /\ LET formatted == [disk EXCEPT ![setup] = Raw("store")] IN
     \/ ~InUse(setup) /\ toast' = "ready" /\ disk' = formatted
     \/ ~InUse(setup) /\ toast' = "format failed" /\ disk' \in {disk, formatted}
     \/ InUse(setup) /\ toast' = "format failed" /\ UNCHANGED disk
  /\ setup' = NoDisk
  /\ racing' = FALSE
  /\ UNCHANGED <<bootVars, installVars>>

-----------------------------------------------------------------------------
(* The service dies and systemd starts it again: threads, the dictionary   *)
(* and a pending answer are gone, mounts and disks are as they were.       *)
ServiceReset ==
  /\ job' = IdleJob
  /\ pc' = [t \in Thread |-> "none"]
  /\ chosen' = [t \in Thread |-> NoDisk]
  /\ copied' = [t \in Thread |-> 0]
  /\ setup' = NoDisk
  /\ racing' = FALSE
  /\ UNCHANGED <<disk, latest>>

ServiceRestart ==
  /\ machine = "live"
  /\ ServiceReset
  /\ UNCHANGED <<target, toast, bootVars>>

\* Restart, power off or power cut, at any moment (/system/power does not
\* ask whether an install runs).  The ISO's GRUB hands off to a disk
\* labelled EFI if there is one; the live entry stays in its menu.
Reboot ==
  /\ ServiceReset
  /\ target' = <<>>
  /\ toast' = "none"
  /\ \/ \E d \in LabelledEFI :
          /\ machine' = IF Bootable(d) THEN "installed" ELSE "stranded"
          /\ overlay' = NoDisk
     \/ /\ machine' = "live"
        /\ overlay' \in Labelled \cup {NoDisk}

-----------------------------------------------------------------------------
Next ==
  \/ \E t \in Thread, d \in Disk : InstallStart(t, d)
  \/ \E t \in Thread : InstallThread(t)
  \/ PersistLook
  \/ PersistFormat
  \/ ServiceRestart
  \/ Reboot

\* A spawned thread is scheduled and every command it runs returns; the
\* handler that looked goes on to format.  Nobody has to ask for anything.
Fairness == /\ \A t \in Thread : WF_vars(InstallThread(t))
            /\ WF_vars(PersistFormat)

Spec == Init /\ [][Next]_vars /\ Fairness

-----------------------------------------------------------------------------
(* Properties.                                                             *)

TypeOK ==
  /\ disk \in [Disk -> Content]
  /\ target \in Seq(Disk)
  /\ job \in Job
  /\ pc \in [Thread -> PC]
  /\ chosen \in [Thread -> Disk \cup {NoDisk}]
  /\ copied \in [Thread -> 0..Entries]
  /\ setup \in Disk \cup {NoDisk}
  /\ toast \in {"none", "already", "no blank disk", "ready", "format failed"}
  /\ overlay \in Disk \cup {NoDisk}
  /\ machine \in {"live", "installed", "stranded"}
  /\ racing \in BOOLEAN
  /\ latest \in Disk \cup {NoDisk}

\* INSTALL["running"], cleared last in the finally clause, admits one
\* installer thread at a time: two would share /mnt/target.
OneInstaller ==
  \A t, u \in Thread : Alive(t) /\ Alive(u) => t = u /\ job.running

\* cp, grub-install, grub.cfg and fstab write below /mnt/target by path.  The
\* disk visible there is the one the thread was started for, whatever earlier
\* runs or crashed services left mounted.
FilesGoToChosenDisk ==
  \A t \in Thread : pc[t] \in FileCommand =>
    target # <<>> /\ Head(target) = chosen[t]

\* "Erases the entire selected disk" is the only way to lose data: a step that
\* changes a disk belongs to an install of that disk which has not ended, or
\* turns into persistent storage a disk that is still blank, or that only an
\* install under way since before the look has written meanwhile.
OnlyConfirmedOrBlankWritten ==
  [][\A d \in Disk : disk'[d] # disk[d] =>
       Installing(d) \/ (setup = d /\ (disk[d].table = "none" \/ racing))]_vars

\* "Installation complete": the disk holds every part of the system, and no
\* mount is left on it, unless Enable Persistent Storage formatted it.
DoneMeansComplete ==
  job.done => \/ disk[latest].table = "store"
              \/ disk[latest] = Installed /\ ~Stacked(latest)

\* persist_setup never leaves two disks labelled AURORA_DATA: the initramfs
\* would pick either, and settings would come and go with the boot.
OneStore == \A d, e \in Labelled : d = e

\* The service keeps the contract the installer windows poll: one outcome per
\* run, reported before the flag is released, and every run ends.
InstallContract == INSTANCE BackgroundJob
  WITH Target <- Disk, NoTarget <- NoDisk,
       running <- job.running, done <- job.done, error <- job.error
KeepsInstallContract == InstallContract!Spec

\* INSTALL["running"] is never left behind: it stands for a thread that is
\* there, and only the end of that thread or the death of the service clears it.
FlagHasItsThread == job.running <=> \E t \in Thread : Alive(t)

\* How many steps a thread has still to take at most: one for each command and
\* one for each entry it has not copied.
Copying == {"begin", "wipefs", "sfdisk", "mkfs.vfat", "mkfs.ext4", "mount", "cp"}
CommandsLeft(command) ==
  CASE command = "none"       ->  0 [] command = "release"   ->  1
    [] command = "cleanup"    ->  2 [] command = "report"    ->  3
    [] command = "umount"     ->  4 [] command = "fstab"     ->  5
    [] command = "grub.cfg"   ->  6 [] command \in {"grub-install", "cp"} -> 7
    [] command = "mount"      ->  8 [] command = "mkfs.ext4" ->  9
    [] command = "mkfs.vfat"  -> 10 [] command = "sfdisk"    -> 11
    [] command = "wipefs"     -> 12 [] command = "begin"     -> 13
EntriesLeft(t) == IF pc[t] \in Copying THEN Entries - copied[t] ELSE 0
StepsLeft(t)   == CommandsLeft(pc[t]) + EntriesLeft(t)

\* Every command, whether it succeeds or fails, brings its install closer to
\* the finally clause and to its end, and nothing else takes it back.
InstallsAdvance ==
  [][\A t \in Thread : Alive(t) =>
       IF InstallThread(t) THEN StepsLeft(t)' < StepsLeft(t)
                           ELSE StepsLeft(t)' = StepsLeft(t) \/ pc'[t] = "none"]_vars

-----------------------------------------------------------------------------
(* What the repository says and the code does not keep.                    *)

\* 11-make-iso.sh:65-69: "Hand off to an installed DaybreakOS when one
\* exists"; the live entry "is only the default on a blank machine".  The
\* label EFI is there long before anything bootable is.
HandOffBoots == machine # "stranded"

=============================================================================
