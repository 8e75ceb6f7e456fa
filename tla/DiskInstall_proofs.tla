------------------------- MODULE DiskInstall_proofs -------------------------
(***************************************************************************)
(* Safety of DiskInstall for every set of disks, threads and entries, and  *)
(* of Installer, which puts the screens before it.                         *)
(***************************************************************************)
EXTENDS Installer, TLAPS

(***************************************************************************)
(* The inductive invariant: one thread, which holds the flag; while it     *)
(* writes files and until it unmounts, its disk is the visible one; a disk *)
(* persist_setup found blank stays so, and no install writes it, unless    *)
(* one did when it was found.                                              *)
(***************************************************************************)
BeforeCopy == {"none", "begin", "wipefs", "sfdisk", "mkfs.vfat", "mkfs.ext4", "mount"}

ThreadInv ==
  \A t \in Thread :
    /\ Alive(t) => job.running /\ chosen[t] \in Disk
    /\ pc[t] \in BeforeCopy => copied[t] = 0
    /\ pc[t] = "cp" => copied[t] < Entries

MountInv ==
  \A t \in Thread : pc[t] \in FileCommand \cup {"umount"} =>
    target # <<>> /\ Head(target) = chosen[t]

SetupInv == setup # NoDisk /\ ~racing => disk[setup].table = "none" /\ ~Installing(setup)

IInv == TypeOK /\ OneInstaller /\ ThreadInv /\ MountInv /\ SetupInv

-----------------------------------------------------------------------------
(* The percentage published while copying stays below that of the bootloader. *)
LEMMA CopyPercentage ==
  ASSUME NEW n \in Nat, n < Entries
  PROVE  20 + (60 * n) \div Entries \in 20..80
<1> DEFINE q == (60 * n) \div Entries
           r == (60 * n) % Entries
<1>1. Entries \in Nat /\ Entries > 0  BY EntriesAssumption
<1>2. q \in Int /\ r \in 0..(Entries - 1) /\ 60 * n = Entries * q + r
  BY <1>1
<1>3. q >= 0
  BY <1>1
<1>4. q <= 60
  <2>1. SUFFICES ASSUME q >= 61 PROVE FALSE  BY <1>2
  <2>2. Entries * q >= Entries * 61  BY <1>1, <1>2, <2>1
  <2>3. 60 * n < 60 * Entries  BY <1>1
  <2> QED BY <1>1, <1>2, <2>2, <2>3
<1> QED BY <1>2, <1>3, <1>4

LEMMA Initially == Init => IInv
<1> SUFFICES ASSUME Init PROVE IInv  OBVIOUS
<1> USE DEF Init
<1>0. racing \in BOOLEAN
  BY Zenon
<1>1. TypeOK
  BY <1>0, EntriesAssumption DEF TypeOK, Content, Raw, Installed, Job, IdleJob, PC, Command, Labelled
<1>2. OneInstaller /\ ThreadInv /\ MountInv /\ SetupInv
  BY DEF OneInstaller, ThreadInv, MountInv, SetupInv, Alive, FileCommand, BeforeCopy
<1> QED BY <1>1, <1>2 DEF IInv

(* Updates of the dictionary and of a disk stay within their types. *)
LEMMA JobUpdates ==
  ASSUME NEW j \in Job
  PROVE  /\ \A p \in 0..100 : [j EXCEPT !.pct = p] \in Job
         /\ [j EXCEPT !.error = TRUE] \in Job
         /\ [j EXCEPT !.done = TRUE] \in Job
         /\ [j EXCEPT !.running = FALSE] \in Job
  BY DEF Job

LEMMA NewJobs ==
  /\ IdleJob \in Job
  /\ [running |-> TRUE, pct |-> 0, done |-> FALSE, error |-> FALSE] \in Job
  BY DEF Job, IdleJob

LEMMA ContentUpdates ==
  ASSUME NEW c \in Content
  PROVE  /\ [c EXCEPT !.table = "none"] \in Content
         /\ [c EXCEPT !.table = "gpt", !.root = "raw"] \in Content
         /\ [c EXCEPT !.esp = "vfat"] \in Content
         /\ [c EXCEPT !.esp = "grub"] \in Content
         /\ \A r \in {"ext4", "system", "config", "complete"} :
              [c EXCEPT !.root = r] \in Content
         /\ Raw("store") \in Content
  BY DEF Content, Raw

LEMMA WrittenTypes ==
  ASSUME disk \in [Disk -> Content]
  PROVE  /\ WrittenEsp \in [Disk -> Content]
         /\ \A r \in {"system", "config", "complete"} :
              WrittenRoot(r) \in [Disk -> Content]
  BY ContentUpdates DEF WrittenEsp, WrittenRoot

LEMMA UnmountTypes ==
  ASSUME target \in Seq(Disk)
  PROVE  /\ (IF target = <<>> THEN <<>> ELSE Tail(target)) \in Seq(Disk)
         /\ \A d \in Disk : <<d>> \o target \in Seq(Disk)
  OBVIOUS

(* A command, run to its end or failing, keeps the types. *)
LEMMA RunsTypes ==
  ASSUME TypeOK, NEW t \in Thread, NEW command, NEW next \in PC, NEW pct \in 0..100,
         NEW after \in [Disk -> Content], Runs(t, command, next, pct, after),
         target' \in Seq(Disk), copied' \in [Thread -> 0..Entries]
  PROVE  TypeOK'
<1>1. job \in Job
  BY DEF TypeOK
<1>2. job' \in Job
  BY <1>1, JobUpdates DEF Runs, Advance, Abort
<1>3. disk' \in [Disk -> Content]
  BY DEF Runs, TypeOK
<1>4. pc' \in [Thread -> PC]
  BY DEF Runs, Advance, Abort, TypeOK, PC, Command
<1> QED
  BY <1>2, <1>3, <1>4 DEF Runs, TypeOK, persistVars, bootVars

(* A step of the thread that leaves the disks alone. *)
LEMMA QuietStepTypes ==
  ASSUME TypeOK, NEW t \in Thread,
         job' \in Job, pc' \in [Thread -> PC], target' \in Seq(Disk),
         chosen' \in [Thread -> Disk \cup {NoDisk}],
         copied' \in [Thread -> 0..Entries],
         UNCHANGED <<disk, persistVars, bootVars, latest>>
  PROVE  TypeOK'
  BY DEF TypeOK, persistVars, bootVars

(* Every action keeps the types. *)
LEMMA TypesKept ==
  ASSUME TypeOK, ThreadInv, [Next]_vars
  PROVE  TypeOK'
<1> USE DiskAssumption, EntriesAssumption
<1>1. ASSUME NEW t \in Thread, NEW d \in Disk, InstallStart(t, d) PROVE TypeOK'
  <2>1. job' \in Job
    BY <1>1, NewJobs DEF InstallStart
  <2>2. pc' \in [Thread -> PC]
    BY <1>1 DEF InstallStart, TypeOK, PC, Command
  <2> QED
    BY <1>1, <2>1, <2>2 DEF InstallStart, TypeOK, persistVars, bootVars
<1>2. ASSUME NEW t \in Thread, InstallThread(t) PROVE TypeOK'
  <2> DEFINE d == chosen[t]
  <2>0. /\ disk \in [Disk -> Content] /\ job \in Job /\ target \in Seq(Disk)
        /\ pc \in [Thread -> PC] /\ copied \in [Thread -> 0..Entries]
        /\ chosen \in [Thread -> Disk \cup {NoDisk}]
    BY DEF TypeOK
  <2>p. \A p \in {4, 20, 100} : [job EXCEPT !.pct = p] \in Job
    <3>1. \A p \in {4, 20, 100} : p \in 0..100
      OBVIOUS
    <3> QED
      BY <2>0, <3>1, JobUpdates
  <2>1. CASE Wipefs(t)
    <3> DEFINE after == [disk EXCEPT ![d].table = "none"]
    <3>1. after \in [Disk -> Content]
      BY <2>0, ContentUpdates
    <3>2. "sfdisk" \in PC /\ 4 \in 0..100
      BY DEF PC, Command
    <3>3. target' \in Seq(Disk) /\ copied' \in [Thread -> 0..Entries]
      BY <2>0, <2>1 DEF Wipefs
    <3> HIDE DEF after
    <3>4. Runs(t, "wipefs", "sfdisk", 4, after)
      BY <2>1 DEF Wipefs, after
    <3> QED
      BY <3>1, <3>2, <3>3, <3>4, RunsTypes
  <2>2. CASE Sfdisk(t)
    <3> DEFINE after == [disk EXCEPT ![d] = [@ EXCEPT !.table = "gpt", !.root = "raw"]]
    <3>1. after \in [Disk -> Content]
      BY <2>0, ContentUpdates
    <3>2. "mkfs.vfat" \in PC /\ 12 \in 0..100
      BY DEF PC, Command
    <3>3. target' \in Seq(Disk) /\ copied' \in [Thread -> 0..Entries]
      BY <2>0, <2>2 DEF Sfdisk
    <3> HIDE DEF after
    <3>4. Runs(t, "sfdisk", "mkfs.vfat", 12, after)
      BY <2>2 DEF Sfdisk, after
    <3> QED
      BY <3>1, <3>2, <3>3, <3>4, RunsTypes
  <2>3. CASE MkfsVfat(t)
    <3> DEFINE after == [disk EXCEPT ![d].esp = "vfat"]
    <3>1. after \in [Disk -> Content]
      BY <2>0, ContentUpdates
    <3>2. "mkfs.ext4" \in PC /\ 12 \in 0..100
      BY DEF PC, Command
    <3>3. target' \in Seq(Disk) /\ copied' \in [Thread -> 0..Entries]
      BY <2>0, <2>3 DEF MkfsVfat
    <3> HIDE DEF after
    <3>4. Runs(t, "mkfs.vfat", "mkfs.ext4", 12, after)
      BY <2>3 DEF MkfsVfat, after
    <3> QED
      BY <3>1, <3>2, <3>3, <3>4, RunsTypes
  <2>4. CASE MkfsExt4(t)
    <3> DEFINE after == [disk EXCEPT ![d].root = "ext4"]
    <3>1. after \in [Disk -> Content]
      BY <2>0, ContentUpdates
    <3>2. "mount" \in PC /\ 18 \in 0..100
      BY DEF PC, Command
    <3>3. target' \in Seq(Disk) /\ copied' \in [Thread -> 0..Entries]
      BY <2>0, <2>4 DEF MkfsExt4
    <3> HIDE DEF after
    <3>4. Runs(t, "mkfs.ext4", "mount", 18, after)
      BY <2>4 DEF MkfsExt4, after
    <3> QED
      BY <3>1, <3>2, <3>3, <3>4, RunsTypes
  <2>5. CASE GrubInstall(t)
    <3> DEFINE after == WrittenEsp
    <3>1. after \in [Disk -> Content]
      BY <2>0, WrittenTypes
    <3>2. "grub.cfg" \in PC /\ 92 \in 0..100
      BY DEF PC, Command
    <3>3. target' \in Seq(Disk) /\ copied' \in [Thread -> 0..Entries]
      BY <2>0, <2>5 DEF GrubInstall
    <3> HIDE DEF after
    <3>4. Runs(t, "grub-install", "grub.cfg", 92, after)
      BY <2>5 DEF GrubInstall, after
    <3> QED
      BY <3>1, <3>2, <3>3, <3>4, RunsTypes
  <2>6. CASE WriteGrubCfg(t)
    <3> DEFINE after == WrittenRoot("config")
    <3>1. after \in [Disk -> Content]
      BY <2>0, WrittenTypes
    <3>2. "fstab" \in PC /\ 96 \in 0..100
      BY DEF PC, Command
    <3>3. target' \in Seq(Disk) /\ copied' \in [Thread -> 0..Entries]
      BY <2>0, <2>6 DEF WriteGrubCfg
    <3> HIDE DEF after
    <3>4. Runs(t, "grub.cfg", "fstab", 96, after)
      BY <2>6 DEF WriteGrubCfg, after
    <3> QED
      BY <3>1, <3>2, <3>3, <3>4, RunsTypes
  <2>7. CASE WriteFstab(t)
    <3> DEFINE after == WrittenRoot("complete")
    <3>1. after \in [Disk -> Content]
      BY <2>0, WrittenTypes
    <3>2. "umount" \in PC /\ 96 \in 0..100
      BY DEF PC, Command
    <3>3. target' \in Seq(Disk) /\ copied' \in [Thread -> 0..Entries]
      BY <2>0, <2>7 DEF WriteFstab
    <3> HIDE DEF after
    <3>4. Runs(t, "fstab", "umount", 96, after)
      BY <2>7 DEF WriteFstab, after
    <3> QED
      BY <3>1, <3>2, <3>3, <3>4, RunsTypes
  <2>8. CASE CopyEntry(t)
    <3> DEFINE n == copied[t] + 1
               after == WrittenRoot("system")
               pct == 20 + (60 * n) \div Entries
    <3>1. pc[t] = "cp"
      BY <2>8 DEF CopyEntry, Runs
    <3>2. n \in 1..Entries
      BY <2>0, <3>1 DEF ThreadInv
    <3>3. target' \in Seq(Disk) /\ copied' \in [Thread -> 0..Entries]
      BY <2>0, <2>8, <3>2 DEF CopyEntry
    <3>4. after \in [Disk -> Content]
      BY <2>0, WrittenTypes
    <3>5. "cp" \in PC /\ "grub-install" \in PC /\ 84 \in 0..100
      BY DEF PC, Command
    <3> HIDE DEF after
    <3>6. CASE n < Entries
      <4>1. n \in Nat
        BY <3>2
      <4>2. pct \in 0..100
        BY <3>6, <4>1, CopyPercentage
      <4> HIDE DEF pct
      <4>3. Runs(t, "cp", "cp", pct, disk)
        BY <2>8, <3>6 DEF CopyEntry, pct
      <4> QED
        BY <2>0, <3>3, <3>5, <4>2, <4>3, RunsTypes
    <3>7. CASE ~(n < Entries)
      <4>1. Runs(t, "cp", "grub-install", 84, after)
        BY <2>8, <3>7 DEF CopyEntry, after
      <4> QED
        BY <3>3, <3>4, <3>5, <4>1, RunsTypes
    <3> QED
      BY <3>6, <3>7
  <2>9. CASE Begin(t)
    <3>1. job' \in Job
      BY <2>0, <2>p, <2>9, JobUpdates DEF Begin, Advance
    <3>2. pc' \in [Thread -> PC]
      BY <2>0, <2>9 DEF Begin, Advance, PC, Command
    <3>3. target' \in Seq(Disk)
      BY <2>0, <2>9, UnmountTypes DEF Begin, Advance
    <3>4. /\ chosen' \in [Thread -> Disk \cup {NoDisk}]
          /\ copied' \in [Thread -> 0..Entries]
      BY <2>0, <2>9 DEF Begin, Advance
    <3>5. UNCHANGED <<disk, persistVars, bootVars, latest>>
      BY <2>9 DEF Begin, Advance
    <3> QED
      BY <3>1, <3>2, <3>3, <3>4, <3>5, QuietStepTypes
  <2>10. CASE WipefsBusy(t)
    <3>1. job' \in Job
      BY <2>0, <2>10, JobUpdates DEF WipefsBusy, Abort
    <3>2. pc' \in [Thread -> PC]
      BY <2>0, <2>10 DEF WipefsBusy, Abort, PC, Command
    <3>3. target' \in Seq(Disk)
      BY <2>0, <2>10, UnmountTypes DEF WipefsBusy, Abort
    <3>4. /\ chosen' \in [Thread -> Disk \cup {NoDisk}]
          /\ copied' \in [Thread -> 0..Entries]
      BY <2>0, <2>10 DEF WipefsBusy, Abort
    <3>5. UNCHANGED <<disk, persistVars, bootVars, latest>>
      BY <2>10 DEF WipefsBusy, Abort
    <3> QED
      BY <3>1, <3>2, <3>3, <3>4, <3>5, QuietStepTypes
  <2>11. CASE UmountDone(t)
    <3>1. job' \in Job
      BY <2>0, <2>p, <2>11, JobUpdates DEF UmountDone, Umount
    <3>2. pc' \in [Thread -> PC]
      BY <2>0, <2>11 DEF UmountDone, Umount, PC, Command
    <3>3. target' \in Seq(Disk)
      BY <2>0, <2>11, UnmountTypes DEF UmountDone, Umount
    <3>4. /\ chosen' \in [Thread -> Disk \cup {NoDisk}]
          /\ copied' \in [Thread -> 0..Entries]
      BY <2>0, <2>11 DEF UmountDone, Umount
    <3>5. UNCHANGED <<disk, persistVars, bootVars, latest>>
      BY <2>11 DEF UmountDone, Umount
    <3> QED
      BY <3>1, <3>2, <3>3, <3>4, <3>5, QuietStepTypes
  <2>12. CASE Report(t)
    <3>1. job' \in Job
      BY <2>0, <2>12, JobUpdates DEF Report
    <3>2. pc' \in [Thread -> PC]
      BY <2>0, <2>12 DEF Report, PC, Command
    <3>3. target' \in Seq(Disk)
      BY <2>0, <2>12, UnmountTypes DEF Report
    <3>4. /\ chosen' \in [Thread -> Disk \cup {NoDisk}]
          /\ copied' \in [Thread -> 0..Entries]
      BY <2>0, <2>12 DEF Report
    <3>5. UNCHANGED <<disk, persistVars, bootVars, latest>>
      BY <2>12 DEF Report
    <3> QED
      BY <3>1, <3>2, <3>3, <3>4, <3>5, QuietStepTypes
  <2>13. CASE Cleanup(t)
    <3>1. job' \in Job
      BY <2>0, <2>13, JobUpdates DEF Cleanup, Umount
    <3>2. pc' \in [Thread -> PC]
      BY <2>0, <2>13 DEF Cleanup, Umount, PC, Command
    <3>3. target' \in Seq(Disk)
      BY <2>0, <2>13, UnmountTypes DEF Cleanup, Umount
    <3>4. /\ chosen' \in [Thread -> Disk \cup {NoDisk}]
          /\ copied' \in [Thread -> 0..Entries]
      BY <2>0, <2>13 DEF Cleanup, Umount
    <3>5. UNCHANGED <<disk, persistVars, bootVars, latest>>
      BY <2>13 DEF Cleanup, Umount
    <3> QED
      BY <3>1, <3>2, <3>3, <3>4, <3>5, QuietStepTypes
  <2>14. CASE Release(t)
    <3>1. job' \in Job
      BY <2>0, <2>14, JobUpdates DEF Release
    <3>2. pc' \in [Thread -> PC]
      BY <2>0, <2>14 DEF Release, PC, Command
    <3>3. target' \in Seq(Disk)
      BY <2>0, <2>14, UnmountTypes DEF Release
    <3>4. /\ chosen' \in [Thread -> Disk \cup {NoDisk}]
          /\ copied' \in [Thread -> 0..Entries]
      BY <2>0, <2>14 DEF Release
    <3>5. UNCHANGED <<disk, persistVars, bootVars, latest>>
      BY <2>14 DEF Release
    <3> QED
      BY <3>1, <3>2, <3>3, <3>4, <3>5, QuietStepTypes
  <2>15. CASE Mount(t)
    <3>1. job' \in Job
      BY <2>0, <2>p, <2>15, JobUpdates DEF Mount, Advance, Abort
    <3>2. pc' \in [Thread -> PC]
      BY <2>0, <2>15 DEF Mount, Advance, Abort, PC, Command
    <3>3. target' \in Seq(Disk)
      <4>1. d \in Disk
        BY <2>15 DEF Mount, ThreadInv, Alive, TypeOK
      <4> QED
        BY <2>0, <2>15, <4>1, UnmountTypes DEF Mount
    <3>4. /\ chosen' \in [Thread -> Disk \cup {NoDisk}]
          /\ copied' \in [Thread -> 0..Entries]
      BY <2>0, <2>15 DEF Mount, Advance, Abort
    <3>5. UNCHANGED <<disk, persistVars, bootVars, latest>>
      BY <2>15 DEF Mount, Advance, Abort
    <3> QED
      BY <3>1, <3>2, <3>3, <3>4, <3>5, QuietStepTypes
  <2> QED
    BY <1>2, <2>1, <2>2, <2>3, <2>4, <2>5, <2>6, <2>7, <2>8, <2>9, <2>10, <2>11, <2>12, <2>13, <2>14, <2>15
    DEF InstallThread
<1>3. CASE PersistLook
  <2>1. racing' \in BOOLEAN
    BY <1>3, Zenon DEF PersistLook, Installing
  <2> QED
    BY <1>3, <2>1 DEF PersistLook, installVars, Blank, TypeOK, threadVars, bootVars
<1>4. CASE PersistFormat
  <2>1. disk' \in [Disk -> Content]
    BY <1>4, ContentUpdates DEF PersistFormat, TypeOK
  <2> QED
    BY <1>4, <2>1 DEF PersistFormat, installVars, TypeOK, threadVars, bootVars
<1>5. ASSUME ServiceReset, target' \in Seq(Disk), overlay' \in Disk \cup {NoDisk},
             machine' \in {"live", "installed", "stranded"},
             toast' \in {toast, "none"}
      PROVE  TypeOK'
  <2>1. job' \in Job
    BY <1>5, NewJobs DEF ServiceReset
  <2>2. pc' \in [Thread -> PC]
    BY <1>5 DEF ServiceReset, PC
  <2>3. /\ chosen' \in [Thread -> Disk \cup {NoDisk}]
        /\ copied' \in [Thread -> 0..Entries]
        /\ setup' \in Disk \cup {NoDisk}
    BY <1>5 DEF ServiceReset
  <2>4. toast' \in {"none", "already", "no blank disk", "ready", "format failed"}
    BY <1>5 DEF TypeOK
  <2> QED
    BY <1>5, <2>1, <2>2, <2>3, <2>4 DEF ServiceReset, TypeOK
<1>6. CASE ServiceRestart
  BY <1>5, <1>6 DEF ServiceRestart, TypeOK, bootVars
<1>7. CASE Reboot
  <2>1. /\ ServiceReset /\ target' \in Seq(Disk) /\ toast' \in {toast, "none"}
        /\ overlay' \in Disk \cup {NoDisk}
        /\ machine' \in {"live", "installed", "stranded"}
    BY <1>7 DEF Reboot, Labelled
  <2> QED
    BY <1>5, <2>1
<1>8. CASE UNCHANGED vars
  BY <1>8 DEF vars, TypeOK, threadVars, persistVars, bootVars
<1> QED
  BY <1>1, <1>2, <1>3, <1>4, <1>6, <1>7, <1>8 DEF Next

-----------------------------------------------------------------------------
(* What a step of an installer thread does to the threads: it is the only  *)
(* one, and it holds the flag until it is gone.                            *)
LEMMA ThreadMoves ==
  ASSUME IInv, NEW t \in Thread, InstallThread(t)
  PROVE  /\ Alive(t) /\ chosen[t] \in Disk
         /\ \A u \in Thread \ {t} : /\ pc[u] = "none" /\ pc'[u] = "none"
                                    /\ copied'[u] = copied[u]
         /\ pc'[t] # "none" => job'.running /\ chosen' = chosen
         /\ UNCHANGED <<persistVars, bootVars, latest>>
<1>1. Alive(t)
  BY DEF InstallThread, Alive, Runs, Begin, Wipefs, WipefsBusy, Sfdisk, MkfsVfat,
         MkfsExt4, Mount, CopyEntry, GrubInstall, WriteGrubCfg, WriteFstab,
         UmountDone, Umount, Report, Cleanup, Release
<1>2. job.running /\ chosen[t] \in Disk /\ \A u \in Thread \ {t} : pc[u] = "none"
  BY <1>1 DEF IInv, ThreadInv, OneInstaller, Alive
<1>3. \A u \in Thread \ {t} : pc'[u] = pc[u] /\ copied'[u] = copied[u]
  BY DEF IInv, TypeOK, InstallThread, Runs, Advance, Abort, Begin, Wipefs, WipefsBusy,
         Sfdisk, MkfsVfat, MkfsExt4, Mount, CopyEntry, GrubInstall, WriteGrubCfg,
         WriteFstab, UmountDone, Umount, Report, Cleanup, Release
<1>4. CASE ~Release(t)
  <2>1. UNCHANGED <<chosen, persistVars, bootVars, latest>>
    BY <1>4 DEF InstallThread, Runs, Begin, Wipefs, WipefsBusy, Sfdisk, MkfsVfat,
         MkfsExt4, Mount, CopyEntry, GrubInstall, WriteGrubCfg, WriteFstab,
         UmountDone, Umount, Report, Cleanup
  <2>2. \/ job' = job \/ (\E p : job' = [job EXCEPT !.pct = p])
        \/ job' = [job EXCEPT !.error = TRUE] \/ job' = [job EXCEPT !.done = TRUE]
    BY <1>4 DEF InstallThread, Runs, Advance, Abort, Begin, Wipefs, WipefsBusy, Sfdisk,
         MkfsVfat, MkfsExt4, Mount, CopyEntry, GrubInstall, WriteGrubCfg, WriteFstab,
         UmountDone, Umount, Report, Cleanup
  <2>3. job'.running = job.running
    BY <2>2 DEF IInv, TypeOK, Job
  <2> QED
    BY <1>1, <1>2, <1>3, <2>1, <2>3
<1>5. CASE Release(t)
  <2>1. pc'[t] = "none"
    BY <1>5 DEF Release, IInv, TypeOK
  <2>2. UNCHANGED <<persistVars, bootVars, latest>>
    BY <1>5 DEF Release
  <2> QED
    BY <1>1, <1>2, <1>3, <2>1, <2>2
<1> QED
  BY <1>4, <1>5

(* A thread changes no disk but its own. *)
LEMMA ThreadWrites ==
  ASSUME IInv, NEW t \in Thread, InstallThread(t), NEW d \in Disk, d # chosen[t]
  PROVE  disk'[d] = disk[d]
<1> USE DEF IInv, TypeOK
<1>1. CASE Wipefs(t) \/ Sfdisk(t) \/ MkfsVfat(t) \/ MkfsExt4(t)
  BY <1>1 DEF Wipefs, Sfdisk, MkfsVfat, MkfsExt4, Runs
<1>2. CASE CopyEntry(t) \/ GrubInstall(t) \/ WriteGrubCfg(t) \/ WriteFstab(t)
  <2>1. pc[t] \in FileCommand
    BY <1>2 DEF CopyEntry, GrubInstall, WriteGrubCfg, WriteFstab, Runs, FileCommand
  <2>2. d \notin Visible
    BY <2>1 DEF MountInv, Visible
  <2>3. WrittenEsp[d] = disk[d] /\ \A r : WrittenRoot(r)[d] = disk[d]
    BY <2>2 DEF WrittenEsp, WrittenRoot
  <2> QED
    BY <1>2, <2>3 DEF CopyEntry, GrubInstall, WriteGrubCfg, WriteFstab, Runs
<1>3. CASE \/ Begin(t) \/ WipefsBusy(t) \/ Mount(t) \/ UmountDone(t)
           \/ Report(t) \/ Cleanup(t) \/ Release(t)
  BY <1>3 DEF Begin, WipefsBusy, Mount, UmountDone, Umount, Report, Cleanup, Release
<1> QED
  BY <1>1, <1>2, <1>3 DEF InstallThread

LEMMA PushedIsVisible ==
  ASSUME NEW d \in Disk, NEW s \in Seq(Disk)
  PROVE  <<d>> \o s # <<>> /\ Head(<<d>> \o s) = d
  OBVIOUS

(* The disk visible while a thread writes files, and until it unmounts. *)
LEMMA ThreadMounts ==
  ASSUME IInv, NEW t \in Thread, InstallThread(t), pc'[t] \in FileCommand \cup {"umount"}
  PROVE  target' # <<>> /\ Head(target') = chosen'[t]
<1> USE DEF IInv, TypeOK
<1>1. CASE Mount(t)
  <2>1. target' = <<chosen[t]>> \o target /\ chosen' = chosen
    BY <1>1 DEF Mount, Abort, Advance, FileCommand
  <2>2. chosen[t] \in Disk /\ target \in Seq(Disk)
    BY ThreadMoves
  <2> QED
    BY <2>1, <2>2, PushedIsVisible
<1>2. CASE CopyEntry(t) \/ GrubInstall(t) \/ WriteGrubCfg(t) \/ WriteFstab(t)
  <2>1. pc[t] \in FileCommand /\ UNCHANGED <<target, chosen>>
    BY <1>2 DEF CopyEntry, GrubInstall, WriteGrubCfg, WriteFstab, Runs, FileCommand
  <2> QED
    BY <2>1 DEF MountInv
<1>3. CASE \/ Begin(t) \/ Wipefs(t) \/ WipefsBusy(t) \/ Sfdisk(t) \/ MkfsVfat(t)
           \/ MkfsExt4(t) \/ UmountDone(t) \/ Report(t) \/ Cleanup(t) \/ Release(t)
  <2>1. pc'[t] \notin FileCommand \cup {"umount"}
    BY <1>3 DEF Begin, Wipefs, WipefsBusy, Sfdisk, MkfsVfat, MkfsExt4, UmountDone, Umount,
         Report, Cleanup, Release, Runs, Advance, Abort, FileCommand
  <2> QED
    BY <2>1
<1> QED
  BY <1>1, <1>2, <1>3 DEF InstallThread

LEMMA EntriesPositive == 0 < Entries
  BY EntriesAssumption

(* How far the copy has come. *)
LEMMA ThreadCopies ==
  ASSUME IInv, NEW t \in Thread, InstallThread(t)
  PROVE  /\ pc'[t] \in BeforeCopy => copied'[t] = 0
         /\ pc'[t] = "cp" => copied'[t] < Entries
<1> USE EntriesAssumption DEF IInv, TypeOK
<1>1. CASE CopyEntry(t)
  <2>1. pc[t] = "cp" /\ copied' = [copied EXCEPT ![t] = copied[t] + 1]
    BY <1>1 DEF CopyEntry, Runs
  <2>2. pc'[t] \notin BeforeCopy
    BY <1>1 DEF CopyEntry, Runs, Advance, Abort, BeforeCopy
  <2>3. pc'[t] = "cp" => copied[t] + 1 < Entries
    BY <1>1 DEF CopyEntry, Runs, Advance, Abort
  <2> QED
    BY <2>1, <2>2, <2>3
<1>2. CASE Release(t)
  BY <1>2 DEF Release
<1>3. CASE Begin(t) \/ Wipefs(t) \/ WipefsBusy(t) \/ Sfdisk(t) \/ MkfsVfat(t) \/ MkfsExt4(t)
  <2>1. pc[t] \in BeforeCopy /\ UNCHANGED copied /\ pc'[t] # "cp"
    BY <1>3 DEF Begin, Wipefs, WipefsBusy, Sfdisk, MkfsVfat, MkfsExt4, Runs, Advance,
         Abort, BeforeCopy
  <2> QED
    BY <2>1 DEF ThreadInv
<1>4. CASE Mount(t)
  <2>1. pc[t] \in BeforeCopy /\ UNCHANGED copied
    BY <1>4 DEF Mount, BeforeCopy
  <2>2. copied'[t] = 0
    BY <2>1 DEF ThreadInv
  <2>. HIDE DEF IInv, TypeOK
  <2> QED
    BY <2>2, EntriesPositive
<1>5. CASE \/ GrubInstall(t) \/ WriteGrubCfg(t) \/ WriteFstab(t)
           \/ UmountDone(t) \/ Report(t) \/ Cleanup(t)
  <2>1. pc'[t] \notin BeforeCopy \cup {"cp"}
    BY <1>5 DEF GrubInstall, WriteGrubCfg, WriteFstab, UmountDone, Umount, Report, Cleanup,
         Runs, Advance, Abort, BeforeCopy
  <2> QED
    BY <2>1
<1> QED
  BY <1>1, <1>2, <1>3, <1>4, <1>5 DEF InstallThread

-----------------------------------------------------------------------------
(* The invariant is inductive. *)
LEMMA ThreadKeepsInv ==
  ASSUME IInv, NEW t \in Thread, InstallThread(t), TypeOK'
  PROVE  IInv'
<1>1. OneInstaller'
  BY ThreadMoves DEF OneInstaller, Alive
<1>2. ThreadInv'
  <2>1. ASSUME NEW u \in Thread, u # t
        PROVE  pc'[u] = "none" /\ copied'[u] = 0
    BY <2>1, ThreadMoves DEF IInv, ThreadInv, BeforeCopy
  <2>2. Alive(t)' => job'.running /\ chosen'[t] \in Disk
    BY ThreadMoves DEF Alive
  <2> QED
    BY <2>1, <2>2, ThreadCopies DEF ThreadInv, Alive
<1>3. MountInv'
  BY ThreadMoves, ThreadMounts DEF MountInv, FileCommand
<1>4. SetupInv'
  <2>1. UNCHANGED <<setup, racing>> /\ Alive(t)
    BY ThreadMoves DEF persistVars
  <2>2. setup \in Disk \cup {NoDisk}
    BY DEF IInv, TypeOK
  <2>3. ASSUME setup # NoDisk, ~racing
        PROVE  disk'[setup] = disk[setup] /\ ~Installing(setup)'
    <3>1. ~Installing(setup)
      BY <2>3 DEF IInv, SetupInv
    <3>2. disk'[setup] = disk[setup]
      BY <2>1, <2>2, <2>3, <3>1, ThreadWrites DEF Installing
    <3>3. ASSUME NEW u \in Thread, Alive(u)' PROVE chosen'[u] # setup
      BY <2>1, <3>1, <3>3, ThreadMoves DEF Alive, Installing
    <3> QED
      BY <2>1, <3>2, <3>3 DEF Installing
  <2> QED
    BY <2>1, <2>3 DEF IInv, SetupInv
<1> QED
  BY <1>1, <1>2, <1>3, <1>4 DEF IInv

LEMMA Inductive == IInv /\ [Next]_vars => IInv'
<1> SUFFICES ASSUME IInv, [Next]_vars PROVE IInv'
  OBVIOUS
<1>1. TypeOK'
  BY TypesKept DEF IInv
<1>2. ASSUME NEW t \in Thread, NEW d \in Disk, InstallStart(t, d) PROVE IInv'
  <2>1. \A u \in Thread : pc[u] = "none" /\ copied[u] = 0
    BY <1>2 DEF InstallStart, IInv, ThreadInv, Alive, BeforeCopy
  <2>2. /\ pc' = [pc EXCEPT ![t] = "begin"] /\ copied' = copied
        /\ chosen'[t] = d /\ job'.running /\ setup' = NoDisk
        /\ UNCHANGED <<disk, target>>
    BY <1>2 DEF InstallStart, ServerFree, IInv, TypeOK, persistVars
  <2>3. \A u \in Thread : pc'[u] = IF u = t THEN "begin" ELSE "none"
    BY <2>1, <2>2 DEF IInv, TypeOK
  <2>4. OneInstaller' /\ MountInv'
    BY <2>2, <2>3 DEF OneInstaller, MountInv, Alive, FileCommand
  <2>5. ThreadInv'
    BY <2>1, <2>2, <2>3 DEF ThreadInv, Alive, BeforeCopy
  <2>6. SetupInv'
    BY <2>2 DEF SetupInv
  <2> QED
    BY <1>1, <2>4, <2>5, <2>6 DEF IInv
<1>3. ASSUME NEW t \in Thread, InstallThread(t) PROVE IInv'
  BY <1>1, <1>3, ThreadKeepsInv
<1>4. CASE PersistLook
  <2>1. UNCHANGED <<disk, target, job, pc, chosen, copied>>
    BY <1>4 DEF PersistLook, installVars, threadVars
  <2>2. racing' = Installing(setup') /\ ServerFree
    BY <1>4 DEF PersistLook
  <2>3. setup' = NoDisk \/ disk[setup'].table = "none"
    BY <1>4, <2>2 DEF PersistLook, Blank, ServerFree
  <2>4. Installing(setup)' <=> Installing(setup')
    BY <2>1 DEF Installing, Alive
  <2>5. SetupInv'
    BY <2>1, <2>2, <2>3, <2>4 DEF SetupInv
  <2> QED
    BY <1>1, <2>1, <2>5 DEF IInv, OneInstaller, ThreadInv, MountInv, Alive
<1>5. CASE PersistFormat
  <2>1. UNCHANGED <<target, job, pc, chosen, copied>> /\ setup' = NoDisk
    BY <1>5 DEF PersistFormat, installVars, threadVars
  <2> QED
    BY <1>1, <2>1 DEF IInv, OneInstaller, ThreadInv, MountInv, SetupInv, Alive
<1>6. ASSUME ServiceReset PROVE IInv'
  <2>1. /\ pc' = [t \in Thread |-> "none"] /\ copied' = [t \in Thread |-> 0]
        /\ setup' = NoDisk
    BY <1>6 DEF ServiceReset
  <2> QED
    BY <1>1, <2>1 DEF IInv, OneInstaller, ThreadInv, MountInv, SetupInv, Alive, FileCommand
<1>7. CASE ServiceRestart \/ Reboot
  BY <1>6, <1>7 DEF ServiceRestart, Reboot
<1>8. CASE UNCHANGED vars
  BY <1>1, <1>8 DEF vars, threadVars, persistVars, IInv, OneInstaller, ThreadInv,
                    MountInv, SetupInv, Installing, Alive
<1> QED
  BY <1>2, <1>3, <1>4, <1>5, <1>7, <1>8 DEF Next

THEOREM Invariant == Spec => []IInv
  BY Initially, Inductive, PTL DEF Spec

-----------------------------------------------------------------------------
(* Every state of every behaviour has the declared types. *)
THEOREM TypeCorrect == Spec => []TypeOK
<1>1. IInv => TypeOK
  BY DEF IInv
<1> QED
  BY <1>1, Invariant, PTL

(* INSTALL["running"] admits one installer thread at a time. *)
THEOREM MutualExclusion == Spec => []OneInstaller
<1>1. IInv => OneInstaller
  BY DEF IInv
<1> QED
  BY <1>1, Invariant, PTL

(* The files of an install land on the disk the user chose. *)
THEOREM FilesLandWhereChosen == Spec => []FilesGoToChosenDisk
<1>1. IInv => FilesGoToChosenDisk
  BY DEF IInv, MountInv, FilesGoToChosenDisk
<1> QED
  BY <1>1, Invariant, PTL

(* A step that changes a disk is one of the installer or of persist_setup. *)
LEMMA WritesAreSafe ==
  ASSUME IInv, [Next]_vars, NEW d \in Disk, disk'[d] # disk[d]
  PROVE  Installing(d) \/ (setup = d /\ (disk[d].table = "none" \/ racing))
<1>1. ASSUME NEW t \in Thread, InstallThread(t) PROVE Installing(d)
  BY <1>1, ThreadWrites, ThreadMoves DEF Installing
<1>2. CASE PersistFormat
  <2>1. d = setup
    BY <1>2 DEF PersistFormat, IInv, TypeOK
  <2> QED
    BY <2>1, DiskAssumption DEF IInv, SetupInv
<1>3. CASE UNCHANGED disk
  BY <1>3
<1>4. \/ \E t \in Thread : InstallThread(t)
      \/ PersistFormat
      \/ UNCHANGED disk
  BY DEF Next, InstallStart, PersistLook, ServiceRestart, Reboot, ServiceReset, vars
<1> QED
  BY <1>1, <1>2, <1>3, <1>4

(* No disk is written but by an install of it or, while blank, by           *)
(* persist_setup; the exception is the install it did not wait for.         *)
THEOREM DataIsSafe == Spec => OnlyConfirmedOrBlankWritten
<1> DEFINE Safe == \A d \in Disk : disk'[d] # disk[d] =>
                     Installing(d) \/ (setup = d /\ (disk[d].table = "none" \/ racing))
<1>1. IInv /\ [Next]_vars => [Safe]_vars
  BY WritesAreSafe
<1> QED
  BY <1>1, Invariant, PTL DEF Spec, OnlyConfirmedOrBlankWritten

-----------------------------------------------------------------------------
(***************************************************************************)
(* A second invariant, on top of the first: what the disk of an install    *)
(* holds before each command, unless persist_setup has turned it into a    *)
(* store; that no mount but the thread's own covers it; and that no second *)
(* store is made.                                                          *)
(***************************************************************************)
HasEsp(p, c) ==
  /\ p \in {"mkfs.ext4", "mount", "cp", "grub-install"} => c.esp = "vfat"
  /\ p \in {"grub.cfg", "fstab", "umount", "report"} => c.esp = "grub"

HasRoot(p, c) ==
  /\ p \in {"mount", "cp"} => c.root = "ext4"
  /\ p \in {"grub-install", "grub.cfg"} => c.root = "system"
  /\ p = "fstab" => c.root = "config"
  /\ p \in {"umount", "report"} => c.root = "complete"

Partitioned == {"mkfs.vfat", "mkfs.ext4", "mount", "cp", "grub-install", "grub.cfg",
                "fstab", "umount", "report"}

Stage(p, c) ==
  c.table = "store" \/ (p \in Partitioned => c.table = "gpt" /\ HasEsp(p, c) /\ HasRoot(p, c))

Ended     == {"cleanup", "release"}
Unmounted == {"sfdisk", "mkfs.vfat", "mkfs.ext4", "mount", "report"}
Mounted   == {"cp", "grub-install", "grub.cfg", "fstab", "umount"}
Below(s)  == {s[i] : i \in 2..Len(s)}

StageInv ==
  \A t \in Thread : Alive(t) =>
    /\ chosen[t] = latest
    /\ job.done => pc[t] \in Ended
    /\ Stage(pc[t], disk[latest])

StackInv ==
  \A t \in Thread :
    /\ pc[t] \in Unmounted => ~Stacked(latest)
    /\ pc[t] \in Mounted => latest \notin Below(target)

StoreInv == OneStore /\ (setup # NoDisk => Labelled = {})

DoneInv == DoneMeansComplete /\ (job.done => latest \in Disk)

JInv == StageInv /\ StackInv /\ StoreInv /\ DoneInv

-----------------------------------------------------------------------------
(* Disks.                                                                  *)

LEMMA EspUpdates ==
  ASSUME NEW c \in Content, NEW e \in {"raw", "vfat", "grub"}
  PROVE  /\ [c EXCEPT !.esp = e].table = c.table
         /\ [c EXCEPT !.esp = e].esp = e
         /\ [c EXCEPT !.esp = e].root = c.root
  BY DEF Content

LEMMA RootUpdates ==
  ASSUME NEW c \in Content, NEW r \in {"raw", "ext4", "system", "config", "complete"}
  PROVE  /\ [c EXCEPT !.root = r].table = c.table
         /\ [c EXCEPT !.root = r].esp = c.esp
         /\ [c EXCEPT !.root = r].root = r
  BY DEF Content

LEMMA TableUpdates ==
  ASSUME NEW c \in Content
  PROVE  /\ [c EXCEPT !.table = "none"].table = "none"
         /\ [c EXCEPT !.table = "gpt", !.root = "raw"].table = "gpt"
         /\ Raw("store").table = "store"
  BY DEF Content, Raw

LEMMA InstalledIs ==
  ASSUME NEW c \in Content, c.table = "gpt", c.esp = "grub", c.root = "complete"
  PROVE  c = Installed
  BY DEF Content, Installed

(* What a step of the thread does to the content of its own disk. *)
Grows(p, q, c, d) ==
  \/ q \notin Partitioned
  \/ p = "sfdisk" /\ q = "mkfs.vfat" /\ d = [c EXCEPT !.table = "gpt", !.root = "raw"]
  \/ p = "mkfs.vfat" /\ q = "mkfs.ext4" /\ d = [c EXCEPT !.esp = "vfat"]
  \/ p = "mkfs.ext4" /\ q = "mount" /\ d = [c EXCEPT !.root = "ext4"]
  \/ p = "mount" /\ q = "cp" /\ d = c
  \/ p = "cp" /\ q = "cp" /\ d = c
  \/ p = "cp" /\ q = "grub-install" /\ d = [c EXCEPT !.root = "system"]
  \/ p = "grub-install" /\ q = "grub.cfg" /\ d = [c EXCEPT !.esp = "grub"]
  \/ p = "grub.cfg" /\ q = "fstab" /\ d = [c EXCEPT !.root = "config"]
  \/ p = "fstab" /\ q = "umount" /\ d = [c EXCEPT !.root = "complete"]
  \/ p = "umount" /\ q = "report" /\ d = c

LEMMA StagesGrow ==
  ASSUME NEW c \in Content, NEW d, NEW p, NEW q, Stage(p, c), Grows(p, q, c, d)
  PROVE  Stage(q, d)
<1>1. CASE q \notin Partitioned
  BY <1>1 DEF Stage
<1>2. CASE p = "sfdisk" /\ q = "mkfs.vfat" /\ d = [c EXCEPT !.table = "gpt", !.root = "raw"]
  BY <1>2, TableUpdates DEF Stage, HasEsp, HasRoot
<1>3. CASE p = "mkfs.vfat" /\ q = "mkfs.ext4" /\ d = [c EXCEPT !.esp = "vfat"]
  <2>1. d.table = c.table /\ d.esp = "vfat"
    BY <1>3, EspUpdates
  <2> QED
    BY <1>3, <2>1 DEF Stage, HasEsp, HasRoot, Partitioned
<1>4. CASE p = "mkfs.ext4" /\ q = "mount" /\ d = [c EXCEPT !.root = "ext4"]
  <2>1. d.table = c.table /\ d.esp = c.esp /\ d.root = "ext4"
    BY <1>4, RootUpdates
  <2> QED
    BY <1>4, <2>1 DEF Stage, HasEsp, HasRoot, Partitioned
<1>5. CASE p = "mount" /\ q = "cp" /\ d = c
  BY <1>5 DEF Stage, HasEsp, HasRoot, Partitioned
<1>6. CASE p = "cp" /\ q = "cp" /\ d = c
  BY <1>6
<1>7. CASE p = "cp" /\ q = "grub-install" /\ d = [c EXCEPT !.root = "system"]
  <2>1. d.table = c.table /\ d.esp = c.esp /\ d.root = "system"
    BY <1>7, RootUpdates
  <2> QED
    BY <1>7, <2>1 DEF Stage, HasEsp, HasRoot, Partitioned
<1>8. CASE p = "grub-install" /\ q = "grub.cfg" /\ d = [c EXCEPT !.esp = "grub"]
  <2>1. d.table = c.table /\ d.esp = "grub" /\ d.root = c.root
    BY <1>8, EspUpdates
  <2> QED
    BY <1>8, <2>1 DEF Stage, HasEsp, HasRoot, Partitioned
<1>9. CASE p = "grub.cfg" /\ q = "fstab" /\ d = [c EXCEPT !.root = "config"]
  <2>1. d.table = c.table /\ d.esp = c.esp /\ d.root = "config"
    BY <1>9, RootUpdates
  <2> QED
    BY <1>9, <2>1 DEF Stage, HasEsp, HasRoot, Partitioned
<1>10. CASE p = "fstab" /\ q = "umount" /\ d = [c EXCEPT !.root = "complete"]
  <2>1. d.table = c.table /\ d.esp = c.esp /\ d.root = "complete"
    BY <1>10, RootUpdates
  <2> QED
    BY <1>10, <2>1 DEF Stage, HasEsp, HasRoot, Partitioned
<1>11. CASE p = "umount" /\ q = "report" /\ d = c
  BY <1>11 DEF Stage, HasEsp, HasRoot, Partitioned
<1> QED
  BY <1>1, <1>2, <1>3, <1>4, <1>5, <1>6, <1>7, <1>8, <1>9, <1>10, <1>11 DEF Grows

(* The thread works for the disk of the last accepted install. *)
LEMMA ThreadIsLatest ==
  ASSUME IInv, StageInv, NEW t \in Thread, InstallThread(t)
  PROVE  /\ chosen[t] = latest /\ latest' = latest /\ latest \in Disk
         /\ disk[latest] \in Content /\ Stage(pc[t], disk[latest])
         /\ job.done => pc[t] \in Ended
<1>1. Alive(t) /\ chosen[t] \in Disk /\ latest' = latest
  BY ThreadMoves
<1> QED
  BY <1>1 DEF StageInv, IInv, TypeOK

LEMMA VisibleIsWritten ==
  ASSUME disk \in [Disk -> Content], NEW d \in Disk, target # <<>>, Head(target) = d
  PROVE  /\ WrittenEsp[d] = [disk[d] EXCEPT !.esp = "grub"]
         /\ \A r : WrittenRoot(r)[d] = [disk[d] EXCEPT !.root = r]
  BY DEF WrittenEsp, WrittenRoot, Visible

(* A command that runs to its end does its work; one that fails ends the run. *)
LEMMA RunsOrEnds ==
  ASSUME pc \in [Thread -> PC], NEW t \in Thread, NEW command, NEW next, NEW pct, NEW after,
         Runs(t, command, next, pct, after)
  PROVE  /\ pc[t] = command
         /\ pc'[t] \notin Partitioned \/ (pc'[t] = next /\ disk' = after)
  BY DEF Runs, Advance, Abort, Partitioned

LEMMA ThreadGrows ==
  ASSUME IInv, StageInv, NEW t \in Thread, InstallThread(t)
  PROVE  Grows(pc[t], pc'[t], disk[latest], disk'[latest])
<1> DEFINE d == chosen[t]
           c == disk[d]
<1>0. /\ d = latest /\ d \in Disk /\ disk \in [Disk -> Content] /\ pc \in [Thread -> PC]
  BY ThreadIsLatest DEF IInv, TypeOK
<1>1. CASE Begin(t) \/ Wipefs(t) \/ WipefsBusy(t) \/ Report(t) \/ Cleanup(t) \/ Release(t)
  <2>1. pc'[t] \notin Partitioned
    BY <1>0, <1>1 DEF Begin, Wipefs, WipefsBusy, Report, Cleanup, Release, Umount, Runs,
                      Advance, Abort, Partitioned
  <2> QED
    BY <2>1 DEF Grows
<1>2. CASE Sfdisk(t)
  <2> DEFINE after == [disk EXCEPT ![d] = [@ EXCEPT !.table = "gpt", !.root = "raw"]]
  <2>1. after[d] = [c EXCEPT !.table = "gpt", !.root = "raw"]
    BY <1>0
  <2> HIDE DEF after
  <2>2. Runs(t, "sfdisk", "mkfs.vfat", 12, after)
    BY <1>2 DEF Sfdisk, after
  <2>3. /\ pc[t] = "sfdisk"
        /\ pc'[t] \notin Partitioned \/ (pc'[t] = "mkfs.vfat" /\ disk' = after)
    BY <1>0, <2>2, RunsOrEnds
  <2> QED
    BY <1>0, <2>1, <2>3 DEF Grows
<1>3. CASE MkfsVfat(t)
  <2> DEFINE after == [disk EXCEPT ![d].esp = "vfat"]
  <2>1. after[d] = [c EXCEPT !.esp = "vfat"]
    BY <1>0
  <2> HIDE DEF after
  <2>2. Runs(t, "mkfs.vfat", "mkfs.ext4", 12, after)
    BY <1>3 DEF MkfsVfat, after
  <2>3. /\ pc[t] = "mkfs.vfat"
        /\ pc'[t] \notin Partitioned \/ (pc'[t] = "mkfs.ext4" /\ disk' = after)
    BY <1>0, <2>2, RunsOrEnds
  <2> QED
    BY <1>0, <2>1, <2>3 DEF Grows
<1>4. CASE MkfsExt4(t)
  <2> DEFINE after == [disk EXCEPT ![d].root = "ext4"]
  <2>1. after[d] = [c EXCEPT !.root = "ext4"]
    BY <1>0
  <2> HIDE DEF after
  <2>2. Runs(t, "mkfs.ext4", "mount", 18, after)
    BY <1>4 DEF MkfsExt4, after
  <2>3. /\ pc[t] = "mkfs.ext4"
        /\ pc'[t] \notin Partitioned \/ (pc'[t] = "mount" /\ disk' = after)
    BY <1>0, <2>2, RunsOrEnds
  <2> QED
    BY <1>0, <2>1, <2>3 DEF Grows
<1>5. CASE Mount(t)
  <2>1. pc[t] = "mount" /\ disk' = disk /\ (pc'[t] = "cp" \/ pc'[t] = "cleanup")
    BY <1>0, <1>5 DEF Mount, Advance, Abort
  <2> QED
    BY <1>0, <2>1 DEF Grows, Partitioned
<1>6. CASE CopyEntry(t) \/ GrubInstall(t) \/ WriteGrubCfg(t) \/ WriteFstab(t)
  <2>1. pc[t] \in FileCommand
    BY <1>6 DEF CopyEntry, GrubInstall, WriteGrubCfg, WriteFstab, Runs, FileCommand
  <2>2. target # <<>> /\ Head(target) = d
    BY <1>0, <2>1 DEF IInv, MountInv
  <2>3. /\ WrittenEsp[d] = [c EXCEPT !.esp = "grub"]
        /\ \A r : WrittenRoot(r)[d] = [c EXCEPT !.root = r]
    BY <1>0, <2>2, VisibleIsWritten
  <2>4. CASE CopyEntry(t)
    <3> DEFINE n == copied[t] + 1
               pct == 20 + (60 * n) \div Entries
    <3>1. \/ Runs(t, "cp", "cp", pct, disk)
          \/ Runs(t, "cp", "grub-install", 84, WrittenRoot("system"))
      BY <2>4 DEF CopyEntry
    <3> HIDE DEF pct
    <3>2. /\ pc[t] = "cp"
          /\ \/ pc'[t] \notin Partitioned
             \/ pc'[t] = "cp" /\ disk' = disk
             \/ pc'[t] = "grub-install" /\ disk' = WrittenRoot("system")
      BY <1>0, <3>1, RunsOrEnds
    <3> QED
      BY <1>0, <2>3, <3>2 DEF Grows
  <2>5. CASE GrubInstall(t)
    <3>1. Runs(t, "grub-install", "grub.cfg", 92, WrittenEsp)
      BY <2>5 DEF GrubInstall
    <3>2. /\ pc[t] = "grub-install"
          /\ pc'[t] \notin Partitioned \/ (pc'[t] = "grub.cfg" /\ disk' = WrittenEsp)
      BY <1>0, <3>1, RunsOrEnds
    <3> QED
      BY <1>0, <2>3, <3>2 DEF Grows
  <2>6. CASE WriteGrubCfg(t)
    <3>1. Runs(t, "grub.cfg", "fstab", 96, WrittenRoot("config"))
      BY <2>6 DEF WriteGrubCfg
    <3>2. /\ pc[t] = "grub.cfg"
          /\ pc'[t] \notin Partitioned \/ (pc'[t] = "fstab" /\ disk' = WrittenRoot("config"))
      BY <1>0, <3>1, RunsOrEnds
    <3> QED
      BY <1>0, <2>3, <3>2 DEF Grows
  <2>7. CASE WriteFstab(t)
    <3>1. Runs(t, "fstab", "umount", 96, WrittenRoot("complete"))
      BY <2>7 DEF WriteFstab
    <3>2. /\ pc[t] = "fstab"
          /\ pc'[t] \notin Partitioned \/ (pc'[t] = "umount" /\ disk' = WrittenRoot("complete"))
      BY <1>0, <3>1, RunsOrEnds
    <3> QED
      BY <1>0, <2>3, <3>2 DEF Grows
  <2> QED
    BY <1>6, <2>4, <2>5, <2>6, <2>7
<1>7. CASE UmountDone(t)
  <2>1. pc[t] = "umount" /\ pc'[t] = "report" /\ disk' = disk
    BY <1>0, <1>7 DEF UmountDone, Umount
  <2> QED
    BY <1>0, <2>1 DEF Grows
<1> QED
  BY <1>1, <1>2, <1>3, <1>4, <1>5, <1>6, <1>7 DEF InstallThread

-----------------------------------------------------------------------------
(* Mounts. *)
LEMMA Stacks ==
  ASSUME NEW s \in Seq(Disk), NEW d \in Disk
  PROVE  /\ (\A i \in DOMAIN s : s[i] # d) => d \notin Below(<<d>> \o s)
         /\ d \notin Below(s) =>
              \A i \in DOMAIN (IF s = <<>> THEN <<>> ELSE Tail(s)) :
                (IF s = <<>> THEN <<>> ELSE Tail(s))[i] # d
         /\ (\A i \in DOMAIN s : s[i] # d) =>
              \A i \in DOMAIN (IF s = <<>> THEN <<>> ELSE Tail(s)) :
                (IF s = <<>> THEN <<>> ELSE Tail(s))[i] # d
  BY DEF Below

(* The mounts a step of the thread leaves on its disk. *)
LEMMA ThreadStacks ==
  ASSUME IInv, StageInv, StackInv, NEW t \in Thread, InstallThread(t)
  PROVE  /\ pc'[t] \in Unmounted => ~Stacked(latest)'
         /\ pc'[t] \in Mounted => latest' \notin Below(target')
<1>0. /\ chosen[t] = latest /\ latest' = latest /\ latest \in Disk
      /\ pc \in [Thread -> PC] /\ target \in Seq(Disk)
  BY ThreadIsLatest DEF IInv, TypeOK
<1>1. CASE Begin(t) \/ WipefsBusy(t) \/ Report(t) \/ Cleanup(t) \/ Release(t)
  <2>1. pc'[t] \notin Unmounted \cup Mounted
    BY <1>0, <1>1 DEF Begin, WipefsBusy, Report, Cleanup, Release, Umount, Advance, Abort,
                      Unmounted, Mounted
  <2> QED
    BY <2>1
<1>2. CASE Wipefs(t)
  <2>1. pc'[t] \notin Mounted /\ target' = target /\ ~Stacked(latest)
    BY <1>0, <1>2 DEF Wipefs, Runs, Advance, Abort, InUse, Mounted
  <2> QED
    BY <1>0, <2>1 DEF Stacked
<1>3. CASE Sfdisk(t) \/ MkfsVfat(t) \/ MkfsExt4(t)
  <2>1. pc[t] \in Unmounted /\ pc'[t] \notin Mounted /\ target' = target
    BY <1>0, <1>3 DEF Sfdisk, MkfsVfat, MkfsExt4, Runs, Advance, Abort, Unmounted, Mounted
  <2> QED
    BY <1>0, <2>1 DEF StackInv, Stacked
<1>4. CASE Mount(t)
  <2>1. /\ pc[t] \in Unmounted /\ pc'[t] \notin Unmounted
        /\ pc'[t] \in Mounted => target' = <<latest>> \o target
    BY <1>0, <1>4 DEF Mount, Advance, Abort, Unmounted, Mounted
  <2>2. latest \notin Below(<<latest>> \o target)
    BY <1>0, <2>1, Stacks DEF StackInv, Stacked
  <2> QED
    BY <1>0, <2>1, <2>2
<1>5. CASE CopyEntry(t) \/ GrubInstall(t) \/ WriteGrubCfg(t) \/ WriteFstab(t)
  <2>1. pc[t] \in Mounted /\ pc'[t] \notin Unmounted /\ target' = target
    BY <1>0, <1>5 DEF CopyEntry, GrubInstall, WriteGrubCfg, WriteFstab, Runs, Advance, Abort,
                      Unmounted, Mounted
  <2> QED
    BY <1>0, <2>1 DEF StackInv
<1>6. CASE UmountDone(t)
  <2>1. /\ pc[t] \in Mounted /\ pc'[t] \notin Mounted
        /\ target' = IF target = <<>> THEN <<>> ELSE Tail(target)
    BY <1>0, <1>6 DEF UmountDone, Umount, Mounted
  <2>2. latest \notin Below(target)
    BY <2>1 DEF StackInv
  <2>3. ~Stacked(latest)'
    BY <1>0, <2>1, <2>2, Stacks DEF Stacked
  <2> QED
    BY <2>1, <2>3
<1> QED
  BY <1>1, <1>2, <1>3, <1>4, <1>5, <1>6 DEF InstallThread

(* Once the outcome is reported, the thread only unmounts and leaves. *)
LEMMA ThreadReports ==
  ASSUME IInv, StageInv, NEW t \in Thread, InstallThread(t), job'.done
  PROVE  \/ Report(t)
         \/ job.done /\ disk' = disk /\ (Cleanup(t) \/ Release(t))
<1>0. job \in Job
  BY DEF IInv, TypeOK
<1>1. CASE Report(t)
  BY <1>1
<1>2. CASE Cleanup(t) \/ Release(t)
  <2>1. disk' = disk /\ (job' = job \/ job' = [job EXCEPT !.running = FALSE])
    BY <1>2 DEF Cleanup, Release, Umount
  <2>2. job'.done = job.done
    BY <1>0, <2>1 DEF Job
  <2> QED
    BY <1>2, <2>1, <2>2
<1>3. CASE ~Report(t) /\ ~Cleanup(t) /\ ~Release(t)
  <2>1. pc[t] \notin Ended
    BY <1>3 DEF InstallThread, Runs, Begin, Wipefs, WipefsBusy, Sfdisk, MkfsVfat,
         MkfsExt4, Mount, CopyEntry, GrubInstall, WriteGrubCfg, WriteFstab, UmountDone, Umount,
         Ended
  <2>2. (\E p : job' = [job EXCEPT !.pct = p]) \/ job' = [job EXCEPT !.error = TRUE]
    BY <1>3 DEF InstallThread, Runs, Advance, Abort, Begin, Wipefs, WipefsBusy, Sfdisk,
         MkfsVfat, MkfsExt4, Mount, CopyEntry, GrubInstall, WriteGrubCfg, WriteFstab,
         UmountDone
  <2>3. job'.done = job.done
    BY <1>0, <2>2 DEF Job
  <2> QED
    BY <2>1, <2>3, ThreadIsLatest
<1> QED
  BY <1>1, <1>2, <1>3

(* No command of the installer makes a store. *)
LEMMA NoNewStore ==
  ASSUME IInv, NEW t \in Thread, InstallThread(t), NEW e \in Disk, disk'[e].table = "store"
  PROVE  disk[e].table = "store"
<1> DEFINE d == chosen[t]
           c == disk[d]
<1>0. /\ d \in Disk /\ disk \in [Disk -> Content] /\ c \in Content
  BY ThreadMoves DEF IInv, TypeOK
<1>1. CASE e # d
  BY <1>1, ThreadWrites
<1>2. CASE e = d
  <2>1. CASE Wipefs(t)
    <3> DEFINE after == [disk EXCEPT ![d].table = "none"]
    <3>1. after[d] = [c EXCEPT !.table = "none"]
      BY <1>0
    <3>2. after[d].table = "store" => c.table = "store"
      BY <1>0, <3>1, TableUpdates
    <3> HIDE DEF after
    <3>3. Runs(t, "wipefs", "sfdisk", 4, after)
      BY <2>1 DEF Wipefs, after
    <3>4. disk' = disk \/ disk' = after
      BY <3>3 DEF Runs
    <3> QED
      BY <1>2, <3>2, <3>4
  <2>2. CASE Sfdisk(t)
    <3> DEFINE after == [disk EXCEPT ![d] = [@ EXCEPT !.table = "gpt", !.root = "raw"]]
    <3>1. after[d] = [c EXCEPT !.table = "gpt", !.root = "raw"]
      BY <1>0
    <3>2. after[d].table = "store" => c.table = "store"
      BY <1>0, <3>1, TableUpdates
    <3> HIDE DEF after
    <3>3. Runs(t, "sfdisk", "mkfs.vfat", 12, after)
      BY <2>2 DEF Sfdisk, after
    <3>4. disk' = disk \/ disk' = after
      BY <3>3 DEF Runs
    <3> QED
      BY <1>2, <3>2, <3>4
  <2>3. CASE MkfsVfat(t)
    <3> DEFINE after == [disk EXCEPT ![d].esp = "vfat"]
    <3>1. after[d] = [c EXCEPT !.esp = "vfat"]
      BY <1>0
    <3>2. after[d].table = "store" => c.table = "store"
      BY <1>0, <3>1, EspUpdates
    <3> HIDE DEF after
    <3>3. Runs(t, "mkfs.vfat", "mkfs.ext4", 12, after)
      BY <2>3 DEF MkfsVfat, after
    <3>4. disk' = disk \/ disk' = after
      BY <3>3 DEF Runs
    <3> QED
      BY <1>2, <3>2, <3>4
  <2>4. CASE MkfsExt4(t)
    <3> DEFINE after == [disk EXCEPT ![d].root = "ext4"]
    <3>1. after[d] = [c EXCEPT !.root = "ext4"]
      BY <1>0
    <3>2. after[d].table = "store" => c.table = "store"
      BY <1>0, <3>1, RootUpdates
    <3> HIDE DEF after
    <3>3. Runs(t, "mkfs.ext4", "mount", 18, after)
      BY <2>4 DEF MkfsExt4, after
    <3>4. disk' = disk \/ disk' = after
      BY <3>3 DEF Runs
    <3> QED
      BY <1>2, <3>2, <3>4
  <2>5. CASE CopyEntry(t) \/ GrubInstall(t) \/ WriteGrubCfg(t) \/ WriteFstab(t)
    <3>1. pc[t] \in FileCommand
      BY <2>5 DEF CopyEntry, GrubInstall, WriteGrubCfg, WriteFstab, Runs, FileCommand
    <3>2. target # <<>> /\ Head(target) = d
      BY <3>1 DEF IInv, MountInv
    <3>3. /\ WrittenEsp[d] = [c EXCEPT !.esp = "grub"]
          /\ \A r : WrittenRoot(r)[d] = [c EXCEPT !.root = r]
      BY <1>0, <3>2, VisibleIsWritten
    <3> HIDE DEF c, d
    <3>4. /\ WrittenEsp[d].table = c.table
          /\ \A r \in {"system", "config", "complete"} : WrittenRoot(r)[d].table = c.table
      <4>1. [c EXCEPT !.esp = "grub"].table = c.table
        BY <1>0, EspUpdates
      <4>2. \A r \in {"system", "config", "complete"} : [c EXCEPT !.root = r].table = c.table
        BY <1>0, RootUpdates
      <4> QED
        BY <3>3, <4>1, <4>2
    <3> USE DEF c, d
    <3>5. \/ disk' = disk \/ disk' = WrittenEsp
          \/ \E r \in {"system", "config", "complete"} : disk' = WrittenRoot(r)
      BY <2>5 DEF CopyEntry, GrubInstall, WriteGrubCfg, WriteFstab, Runs
    <3> QED
      BY <1>2, <3>4, <3>5
  <2>6. CASE \/ Begin(t) \/ WipefsBusy(t) \/ Mount(t) \/ UmountDone(t)
             \/ Report(t) \/ Cleanup(t) \/ Release(t)
    <3>1. disk' = disk
      BY <2>6 DEF Begin, WipefsBusy, Mount, UmountDone, Umount, Report, Cleanup, Release
    <3> QED
      BY <3>1
  <2> QED
    BY <2>1, <2>2, <2>3, <2>4, <2>5, <2>6 DEF InstallThread
<1> QED
  BY <1>1, <1>2

-----------------------------------------------------------------------------
(* The second invariant is inductive, given the first. *)
LEMMA InitiallyJ == Init => JInv
  BY DEF Init, JInv, StageInv, StackInv, StoreInv, OneStore, DoneInv, DoneMeansComplete,
         Alive, IdleJob, Unmounted, Mounted

LEMMA ThreadKeepsJ ==
  ASSUME IInv, IInv', JInv, NEW t \in Thread, InstallThread(t)
  PROVE  JInv'
<1>0. /\ StageInv /\ StackInv /\ StoreInv /\ DoneInv
      /\ chosen[t] = latest /\ latest' = latest /\ latest \in Disk /\ setup' = setup
      /\ disk[latest] \in Content /\ Stage(pc[t], disk[latest])
      /\ pc \in [Thread -> PC] /\ target \in Seq(Disk)
  BY ThreadIsLatest, ThreadMoves DEF JInv, IInv, TypeOK, persistVars
<1>1. \A u \in Thread : u # t => pc'[u] = "none"
  BY ThreadMoves
<1>2. StageInv'
  <2>1. pc'[t] # "none" => chosen'[t] = latest'
    BY <1>0, ThreadMoves
  <2>2. job'.done => pc'[t] \in Ended \cup {"none"}
    <3> SUFFICES ASSUME job'.done PROVE pc'[t] \in Ended \cup {"none"}
      OBVIOUS
    <3>1. Report(t) \/ Cleanup(t) \/ Release(t)
      BY <1>0, ThreadReports
    <3> QED
      BY <1>0, <3>1 DEF Report, Cleanup, Release, Umount, Ended
  <2>3. Stage(pc'[t], disk'[latest'])
    <3>1. Grows(pc[t], pc'[t], disk[latest], disk'[latest])
      BY <1>0, ThreadGrows
    <3> QED
      BY <1>0, <3>1, StagesGrow
  <2> QED
    BY <1>1, <2>1, <2>2, <2>3 DEF StageInv, Alive
<1>3. StackInv'
  <2>1. "none" \notin Unmounted \cup Mounted
    BY DEF Unmounted, Mounted
  <2> QED
    BY <1>0, <1>1, <2>1, ThreadStacks DEF StackInv
<1>4. StoreInv'
  <2>1. Labelled' \subseteq Labelled
    BY NoNewStore DEF Labelled
  <2> QED
    BY <1>0, <2>1 DEF StoreInv, OneStore
<1>5. DoneInv'
  <2> SUFFICES ASSUME job'.done
               PROVE  \/ disk'[latest].table = "store"
                      \/ disk'[latest] = Installed /\ ~Stacked(latest)'
    BY <1>0 DEF DoneInv, DoneMeansComplete
  <2>1. CASE Report(t)
    <3>1. pc[t] = "report" /\ disk' = disk /\ target' = target
      BY <2>1 DEF Report
    <3>2. ~Stacked(latest)
      BY <1>0, <3>1 DEF StackInv, Unmounted
    <3>3. \/ disk[latest].table = "store"
          \/ /\ disk[latest].table = "gpt" /\ disk[latest].esp = "grub"
             /\ disk[latest].root = "complete"
      BY <1>0, <3>1 DEF Stage, Partitioned, HasEsp, HasRoot
    <3> QED
      BY <1>0, <3>1, <3>2, <3>3, InstalledIs DEF Stacked
  <2>2. CASE job.done /\ disk' = disk /\ (Cleanup(t) \/ Release(t))
    <3>1. disk[latest].table = "store" \/ (disk[latest] = Installed /\ ~Stacked(latest))
      BY <1>0, <2>2 DEF DoneInv, DoneMeansComplete
    <3>2. target' = target \/ target' = IF target = <<>> THEN <<>> ELSE Tail(target)
      BY <2>2 DEF Cleanup, Release, Umount
    <3>3. ~Stacked(latest) => ~Stacked(latest)'
      BY <1>0, <3>2, Stacks DEF Stacked
    <3> QED
      BY <1>0, <2>2, <3>1, <3>3
  <2> QED
    BY <1>0, <2>1, <2>2, ThreadReports
<1> QED
  BY <1>2, <1>3, <1>4, <1>5 DEF JInv

LEMMA InductiveJ == IInv /\ IInv' /\ JInv /\ [Next]_vars => JInv'
<1> SUFFICES ASSUME IInv, IInv', JInv, [Next]_vars PROVE JInv'
  OBVIOUS
<1> USE DiskAssumption
<1>0. /\ StageInv /\ StackInv /\ StoreInv /\ DoneInv
      /\ disk \in [Disk -> Content] /\ pc \in [Thread -> PC]
      /\ chosen \in [Thread -> Disk \cup {NoDisk}] /\ setup \in Disk \cup {NoDisk}
  BY DEF JInv, IInv, TypeOK
<1>1. ASSUME NEW t \in Thread, NEW d \in Disk, InstallStart(t, d) PROVE JInv'
  <2>1. \A u \in Thread : pc[u] = "none"
    BY <1>1 DEF InstallStart, IInv, ThreadInv, Alive
  <2>2. /\ pc' = [pc EXCEPT ![t] = "begin"] /\ chosen' = [chosen EXCEPT ![t] = d]
        /\ latest' = d /\ ~job'.done /\ disk' = disk /\ setup' = setup
    BY <1>1 DEF InstallStart, persistVars
  <2>3. \A u \in Thread : pc'[u] = IF u = t THEN "begin" ELSE "none"
    BY <1>0, <2>1, <2>2
  <2>4. StageInv'
    BY <1>0, <2>2, <2>3 DEF StageInv, Alive, Stage, Partitioned
  <2>5. StackInv'
    BY <2>3 DEF StackInv, Unmounted, Mounted
  <2>6. StoreInv' /\ DoneInv'
    BY <1>0, <1>1, <2>2 DEF StoreInv, OneStore, Labelled, DoneInv, DoneMeansComplete
  <2> QED
    BY <2>4, <2>5, <2>6 DEF JInv
<1>2. ASSUME NEW t \in Thread, InstallThread(t) PROVE JInv'
  BY <1>2, ThreadKeepsJ
<1>3. CASE PersistLook
  <2>1. UNCHANGED <<disk, target, job, pc, chosen, latest>>
    BY <1>3 DEF PersistLook, installVars, threadVars
  <2>2. setup' # NoDisk => Labelled = {}
    BY <1>3 DEF PersistLook, ServerFree
  <2> QED
    BY <1>0, <2>1, <2>2 DEF JInv, StageInv, StackInv, StoreInv, OneStore, Labelled,
                            DoneInv, DoneMeansComplete, Alive, Stacked
<1>4. CASE PersistFormat
  <2>1. UNCHANGED <<target, job, pc, chosen, latest>> /\ setup' = NoDisk /\ setup \in Disk
    BY <1>0, <1>4 DEF PersistFormat, installVars, threadVars
  <2>2. disk' = disk \/ disk' = [disk EXCEPT ![setup] = Raw("store")]
    BY <1>4 DEF PersistFormat
  <2>3. \A d \in Disk : disk'[d] = disk[d] \/ (d = setup /\ disk'[d].table = "store")
    BY <1>0, <2>2, TableUpdates DEF Raw
  <2>4. StageInv'
    <3>1. ASSUME NEW t \in Thread, Alive(t) PROVE latest \in Disk
      BY <1>0, <3>1 DEF StageInv, IInv, ThreadInv, TypeOK
    <3> QED
      BY <1>0, <2>1, <2>3, <3>1 DEF StageInv, Alive, Stage
  <2>5. StackInv'
    BY <1>0, <2>1 DEF StackInv, Stacked
  <2>6. StoreInv'
    BY <1>0, <1>4, <2>1, <2>3 DEF StoreInv, OneStore, Labelled, PersistFormat
  <2>7. DoneInv'
    BY <1>0, <2>1, <2>3, <2>2 DEF DoneInv, DoneMeansComplete, Stacked
  <2> QED
    BY <2>4, <2>5, <2>6, <2>7 DEF JInv
<1>5. ASSUME ServiceReset PROVE JInv'
  <2>1. /\ pc' = [t \in Thread |-> "none"] /\ ~job'.done /\ disk' = disk /\ setup' = NoDisk
    BY <1>5 DEF ServiceReset, IdleJob
  <2> QED
    BY <1>0, <2>1 DEF JInv, StageInv, StackInv, StoreInv, OneStore, Labelled,
                      DoneInv, DoneMeansComplete, Alive, Unmounted, Mounted
<1>6. CASE ServiceRestart \/ Reboot
  BY <1>5, <1>6 DEF ServiceRestart, Reboot
<1>7. CASE UNCHANGED vars
  BY <1>0, <1>7 DEF vars, threadVars, persistVars, JInv, StageInv, StackInv, StoreInv,
                    OneStore, Labelled, DoneInv, DoneMeansComplete, Alive, Stacked
<1> QED
  BY <1>1, <1>2, <1>3, <1>4, <1>6, <1>7 DEF Next

THEOREM InvariantJ == Spec => []JInv
<1>1. Spec => []IInv
  BY Invariant
<1> QED
  BY <1>1, InitiallyJ, InductiveJ, PTL DEF Spec

(* "Installation complete" is said of a disk that holds the whole system and  *)
(* is unmounted, or that persist_setup has formatted since.                   *)
THEOREM CompleteWhenDone == Spec => []DoneMeansComplete
<1>1. JInv => DoneMeansComplete
  BY DEF JInv, DoneInv
<1> QED
  BY <1>1, InvariantJ, PTL

(* There is at most one disk labelled AURORA_DATA. *)
THEOREM AtMostOneStore == Spec => []OneStore
<1>1. JInv => OneStore
  BY DEF JInv, StoreInv
<1> QED
  BY <1>1, InvariantJ, PTL

-----------------------------------------------------------------------------
(***************************************************************************)
(* The contract with the windows that poll: what the dictionary says of    *)
(* the outcome while a thread is there, and the abstract step each action  *)
(* takes.                                                                  *)
(***************************************************************************)
OutcomeInv ==
  \A t \in Thread : Alive(t) =>
    IF pc[t] \in Ended THEN job.done \/ job.error ELSE ~job.done /\ ~job.error

LEMMA JobFields ==
  ASSUME NEW j \in Job
  PROVE  /\ \A p : /\ [j EXCEPT !.pct = p].running = j.running
                   /\ [j EXCEPT !.pct = p].done = j.done
                   /\ [j EXCEPT !.pct = p].error = j.error
         /\ [j EXCEPT !.error = TRUE].running = j.running
         /\ [j EXCEPT !.error = TRUE].done = j.done
         /\ [j EXCEPT !.error = TRUE].error = TRUE
         /\ [j EXCEPT !.done = TRUE].running = j.running
         /\ [j EXCEPT !.done = TRUE].done = TRUE
         /\ [j EXCEPT !.done = TRUE].error = j.error
         /\ [j EXCEPT !.running = FALSE].running = FALSE
         /\ [j EXCEPT !.running = FALSE].done = j.done
         /\ [j EXCEPT !.running = FALSE].error = j.error
  BY DEF Job

(* What a step of the thread does to the dictionary. *)
Publishes(p, q, j, k) ==
  /\ k.running = j.running /\ k.done = j.done /\ k.error = j.error
  /\ (p \in Ended <=> q \in Ended) /\ q # "none"
Fails(p, q, j, k) ==
  /\ k.running = j.running /\ k.done = j.done /\ k.error = TRUE
  /\ p \notin Ended /\ q \in Ended
Succeeds(p, q, j, k) ==
  /\ k.running = j.running /\ k.done = TRUE /\ k.error = j.error
  /\ p \notin Ended /\ q \in Ended
LetsGo(p, q, j, k) ==
  /\ k.running = FALSE /\ k.done = j.done /\ k.error = j.error
  /\ p \in Ended /\ q = "none"

LEMMA RunsTells ==
  ASSUME job \in Job, pc \in [Thread -> PC], NEW t \in Thread, NEW command, NEW next, NEW pct,
         NEW after, Runs(t, command, next, pct, after),
         command \notin Ended, next \notin Ended \cup {"none"}
  PROVE  Publishes(pc[t], pc'[t], job, job') \/ Fails(pc[t], pc'[t], job, job')
<1>1. CASE Advance(t, next, pct)
  BY <1>1, JobFields DEF Runs, Advance, Publishes
<1>2. CASE Abort(t)
  BY <1>2, JobFields DEF Runs, Abort, Fails, Ended
<1> QED
  BY <1>1, <1>2 DEF Runs

LEMMA ThreadTells ==
  ASSUME IInv, NEW t \in Thread, InstallThread(t)
  PROVE  \/ Publishes(pc[t], pc'[t], job, job') \/ Fails(pc[t], pc'[t], job, job')
         \/ Succeeds(pc[t], pc'[t], job, job') \/ LetsGo(pc[t], pc'[t], job, job')
<1>0. job \in Job /\ pc \in [Thread -> PC]
  BY DEF IInv, TypeOK
<1>1. CASE \/ Wipefs(t) \/ Sfdisk(t) \/ MkfsVfat(t) \/ MkfsExt4(t) \/ CopyEntry(t)
           \/ GrubInstall(t) \/ WriteGrubCfg(t) \/ WriteFstab(t)
  <2>1. \E command \in Command, next \in Command \cup {"umount"} :
          \E pct, after : Runs(t, command, next, pct, after)
    <3>1. CASE Wipefs(t)
      BY <3>1 DEF Wipefs, Command
    <3>2. CASE Sfdisk(t)
      BY <3>2 DEF Sfdisk, Command
    <3>3. CASE MkfsVfat(t)
      BY <3>3 DEF MkfsVfat, Command
    <3>4. CASE MkfsExt4(t)
      BY <3>4 DEF MkfsExt4, Command
    <3>5. CASE CopyEntry(t)
      BY <3>5 DEF CopyEntry, Command
    <3>6. CASE GrubInstall(t)
      BY <3>6 DEF GrubInstall, Command
    <3>7. CASE WriteGrubCfg(t)
      BY <3>7 DEF WriteGrubCfg, Command
    <3>8. CASE WriteFstab(t)
      BY <3>8 DEF WriteFstab, Command
    <3> QED
      BY <1>1, <3>1, <3>2, <3>3, <3>4, <3>5, <3>6, <3>7, <3>8
  <2>2. PICK command \in Command, next \in Command \cup {"umount"} :
          \E pct, after : Runs(t, command, next, pct, after)
    BY <2>1
  <2>3. command \notin Ended /\ next \notin Ended \cup {"none"}
    BY DEF Command, Ended
  <2> QED
    BY <1>0, <2>2, <2>3, RunsTells
<1>2. CASE Begin(t) \/ (Mount(t) /\ pc'[t] = "cp")
  <2>1. /\ pc[t] \notin Ended /\ pc'[t] \notin Ended \cup {"none"}
        /\ \E p : job' = [job EXCEPT !.pct = p]
    BY <1>0, <1>2 DEF Begin, Mount, Advance, Abort, Ended
  <2> QED
    BY <1>0, <2>1, JobFields DEF Publishes
<1>3. CASE WipefsBusy(t) \/ (Mount(t) /\ pc'[t] # "cp")
  <2>1. pc[t] \notin Ended /\ pc'[t] \in Ended /\ job' = [job EXCEPT !.error = TRUE]
    BY <1>0, <1>3 DEF WipefsBusy, Mount, Advance, Abort, Ended
  <2> QED
    BY <1>0, <2>1, JobFields DEF Fails
<1>4. CASE UmountDone(t)
  <2>1. /\ pc[t] \notin Ended /\ pc'[t] \notin Ended \cup {"none"}
        /\ job' = [job EXCEPT !.pct = 100]
    BY <1>0, <1>4 DEF UmountDone, Umount, Ended
  <2> QED
    BY <1>0, <2>1, JobFields DEF Publishes
<1>5. CASE Report(t)
  <2>1. pc[t] \notin Ended /\ pc'[t] \in Ended /\ job' = [job EXCEPT !.done = TRUE]
    BY <1>0, <1>5 DEF Report, Ended
  <2> QED
    BY <1>0, <2>1, JobFields DEF Succeeds
<1>6. CASE Cleanup(t)
  BY <1>0, <1>6 DEF Cleanup, Umount, Publishes, Ended
<1>7. CASE Release(t)
  <2>1. pc[t] \in Ended /\ pc'[t] = "none" /\ job' = [job EXCEPT !.running = FALSE]
    BY <1>0, <1>7 DEF Release, Ended
  <2> QED
    BY <1>0, <2>1, JobFields DEF LetsGo
<1> QED
  BY <1>1, <1>2, <1>3, <1>4, <1>5, <1>6, <1>7 DEF InstallThread

LEMMA OutcomeStarts == Init => OutcomeInv
  BY DEF Init, OutcomeInv, Alive

LEMMA OutcomeKept == IInv /\ OutcomeInv /\ [Next]_vars => OutcomeInv'
<1> SUFFICES ASSUME IInv, OutcomeInv, [Next]_vars PROVE OutcomeInv'
  OBVIOUS
<1>0. pc \in [Thread -> PC]
  BY DEF IInv, TypeOK
<1>1. ASSUME NEW t \in Thread, NEW d \in Disk, InstallStart(t, d) PROVE OutcomeInv'
  <2>1. \A u \in Thread : pc[u] = "none"
    BY <1>1 DEF InstallStart, IInv, ThreadInv, Alive
  <2>2. pc' = [pc EXCEPT ![t] = "begin"] /\ ~job'.done /\ ~job'.error
    BY <1>1 DEF InstallStart
  <2>3. \A u \in Thread : pc'[u] = IF u = t THEN "begin" ELSE "none"
    BY <1>0, <2>1, <2>2
  <2> QED
    BY <2>2, <2>3 DEF OutcomeInv, Alive, Ended
<1>2. ASSUME NEW t \in Thread, InstallThread(t) PROVE OutcomeInv'
  <2>1. Alive(t) /\ \A u \in Thread : u # t => pc'[u] = "none"
    BY <1>2, ThreadMoves
  <2>2. IF pc[t] \in Ended THEN job.done \/ job.error ELSE ~job.done /\ ~job.error
    BY <2>1 DEF OutcomeInv
  <2>3. pc'[t] # "none" =>
          IF pc'[t] \in Ended THEN job'.done \/ job'.error ELSE ~job'.done /\ ~job'.error
    BY <1>2, <2>2, ThreadTells DEF Publishes, Fails, Succeeds, LetsGo
  <2> QED
    BY <2>1, <2>3 DEF OutcomeInv, Alive
<1>3. CASE PersistLook \/ PersistFormat
  BY <1>3 DEF PersistLook, PersistFormat, installVars, threadVars, OutcomeInv, Alive
<1>4. CASE ServiceRestart \/ Reboot
  <2>1. pc' = [t \in Thread |-> "none"]
    BY <1>4 DEF ServiceRestart, Reboot, ServiceReset
  <2> QED
    BY <2>1 DEF OutcomeInv, Alive
<1>5. CASE UNCHANGED vars
  BY <1>5 DEF vars, threadVars, OutcomeInv, Alive
<1> QED
  BY <1>1, <1>2, <1>3, <1>4, <1>5 DEF Next

LEMMA ContractStarts == Init => InstallContract!Init
  BY DEF Init, IdleJob, InstallContract!Init

LEMMA ContractStep ==
  IInv /\ OutcomeInv /\ [Next]_vars => [InstallContract!Next]_(InstallContract!vars)
<1> SUFFICES ASSUME IInv, OutcomeInv, [Next]_vars
             PROVE  \/ InstallContract!Next
                    \/ UNCHANGED <<job.running, job.done, job.error, latest>>
  BY DEF InstallContract!vars
<1>1. ASSUME NEW t \in Thread, NEW d \in Disk, InstallStart(t, d) PROVE InstallContract!Next
  <2>1. InstallContract!Start(d)
    BY <1>1 DEF InstallStart, InstallContract!Start
  <2> QED
    BY <2>1 DEF InstallContract!Next
<1>2. ASSUME NEW t \in Thread, InstallThread(t)
      PROVE  \/ InstallContract!Next
             \/ UNCHANGED <<job.running, job.done, job.error, latest>>
  <2>1. Alive(t) /\ job.running /\ latest' = latest
    BY <1>2, ThreadMoves DEF IInv, ThreadInv
  <2>2. IF pc[t] \in Ended THEN job.done \/ job.error ELSE ~job.done /\ ~job.error
    BY <2>1 DEF OutcomeInv
  <2>3. job.done \in BOOLEAN /\ job.error \in BOOLEAN
    BY DEF IInv, TypeOK, Job
  <2>4. CASE Publishes(pc[t], pc'[t], job, job')
    BY <2>1, <2>4 DEF Publishes
  <2>5. CASE Fails(pc[t], pc'[t], job, job')
    <3>1. InstallContract!Report(FALSE)
      BY <2>1, <2>2, <2>3, <2>5 DEF Fails, InstallContract!Report
    <3> QED
      BY <3>1 DEF InstallContract!Next
  <2>6. CASE Succeeds(pc[t], pc'[t], job, job')
    <3>1. InstallContract!Report(TRUE)
      BY <2>1, <2>2, <2>3, <2>6 DEF Succeeds, InstallContract!Report
    <3> QED
      BY <3>1 DEF InstallContract!Next
  <2>7. CASE LetsGo(pc[t], pc'[t], job, job')
    <3>1. InstallContract!Release
      BY <2>1, <2>2, <2>7 DEF LetsGo, InstallContract!Release
    <3> QED
      BY <3>1 DEF InstallContract!Next
  <2> QED
    BY <1>2, <2>4, <2>5, <2>6, <2>7, ThreadTells
<1>3. CASE PersistLook \/ PersistFormat
  BY <1>3 DEF PersistLook, PersistFormat, installVars
<1>4. CASE ServiceRestart \/ Reboot
  <2>1. InstallContract!Restart
    BY <1>4 DEF ServiceRestart, Reboot, ServiceReset, IdleJob, InstallContract!Restart
  <2> QED
    BY <2>1 DEF InstallContract!Next
<1>5. CASE UNCHANGED vars
  BY <1>5 DEF vars
<1> QED
  BY <1>1, <1>2, <1>3, <1>4, <1>5 DEF Next

(* Every install that starts reports exactly one outcome while it holds the  *)
(* flag, and lets go of the flag afterwards: the safety part of              *)
(* KeepsInstallContract.                                                     *)
THEOREM ContractIsKept ==
  Spec => InstallContract!Init /\ [][InstallContract!Next]_(InstallContract!vars)
<1>1. Spec => []IInv
  BY Invariant
<1>2. Spec => []OutcomeInv
  BY <1>1, OutcomeStarts, OutcomeKept, PTL DEF Spec
<1> QED
  BY <1>1, <1>2, ContractStarts, ContractStep, PTL DEF Spec

-----------------------------------------------------------------------------
(***************************************************************************)
(* The flag and its thread.  That an install ends is a liveness property;  *)
(* what is proved here is all of it but that the thread is scheduled: the  *)
(* flag stands for a live thread, and each command of that thread leaves   *)
(* it fewer to run.                                                        *)
(***************************************************************************)
LEMMA CommandNumbers ==
  /\ CommandsLeft("none") = 0 /\ CommandsLeft("release") = 1 /\ CommandsLeft("cleanup") = 2
  /\ CommandsLeft("report") = 3 /\ CommandsLeft("umount") = 4 /\ CommandsLeft("fstab") = 5
  /\ CommandsLeft("grub.cfg") = 6 /\ CommandsLeft("grub-install") = 7
  /\ CommandsLeft("cp") = 7 /\ CommandsLeft("mount") = 8 /\ CommandsLeft("mkfs.ext4") = 9
  /\ CommandsLeft("mkfs.vfat") = 10 /\ CommandsLeft("sfdisk") = 11
  /\ CommandsLeft("wipefs") = 12 /\ CommandsLeft("begin") = 13
  BY DEF CommandsLeft

\* The order of the commands, the copying apart.
LEMMA CommandOrder ==
  ASSUME IInv, NEW t \in Thread, InstallThread(t), ~CopyEntry(t)
  PROVE  /\ CommandsLeft(pc'[t]) < CommandsLeft(pc[t])
         /\ CommandsLeft(pc'[t]) \in Nat /\ CommandsLeft(pc[t]) \in Nat
         /\ pc'[t] \in Copying => pc[t] \in Copying /\ copied'[t] = copied[t]
<1> USE CommandNumbers DEF IInv
<1>1. CASE Begin(t)
  <2>1. pc[t] = "begin" /\ pc'[t] = "wipefs" /\ copied' = copied
    BY <1>1 DEF Begin, Advance, TypeOK
  <2> QED
    BY <2>1 DEF Copying
<1>2. CASE Wipefs(t) \/ WipefsBusy(t)
  <2>1. pc[t] = "wipefs" /\ pc'[t] \in {"sfdisk", "cleanup"} /\ copied' = copied
    BY <1>2 DEF Wipefs, WipefsBusy, Runs, Advance, Abort, TypeOK
  <2> QED
    BY <2>1 DEF Copying
<1>3. CASE Sfdisk(t)
  <2>1. pc[t] = "sfdisk" /\ pc'[t] \in {"mkfs.vfat", "cleanup"} /\ copied' = copied
    BY <1>3 DEF Sfdisk, Runs, Advance, Abort, TypeOK
  <2> QED
    BY <2>1 DEF Copying
<1>4. CASE MkfsVfat(t)
  <2>1. pc[t] = "mkfs.vfat" /\ pc'[t] \in {"mkfs.ext4", "cleanup"} /\ copied' = copied
    BY <1>4 DEF MkfsVfat, Runs, Advance, Abort, TypeOK
  <2> QED
    BY <2>1 DEF Copying
<1>5. CASE MkfsExt4(t)
  <2>1. pc[t] = "mkfs.ext4" /\ pc'[t] \in {"mount", "cleanup"} /\ copied' = copied
    BY <1>5 DEF MkfsExt4, Runs, Advance, Abort, TypeOK
  <2> QED
    BY <2>1 DEF Copying
<1>6. CASE Mount(t)
  <2>1. pc[t] = "mount" /\ pc'[t] \in {"cp", "cleanup"} /\ copied' = copied
    BY <1>6 DEF Mount, Advance, Abort, TypeOK
  <2> QED
    BY <2>1 DEF Copying
<1>7. CASE GrubInstall(t)
  <2>1. pc[t] = "grub-install" /\ pc'[t] \in {"grub.cfg", "cleanup"}
    BY <1>7 DEF GrubInstall, Runs, Advance, Abort, TypeOK
  <2> QED
    BY <2>1 DEF Copying
<1>8. CASE WriteGrubCfg(t)
  <2>1. pc[t] = "grub.cfg" /\ pc'[t] \in {"fstab", "cleanup"}
    BY <1>8 DEF WriteGrubCfg, Runs, Advance, Abort, TypeOK
  <2> QED
    BY <2>1 DEF Copying
<1>9. CASE WriteFstab(t)
  <2>1. pc[t] = "fstab" /\ pc'[t] \in {"umount", "cleanup"}
    BY <1>9 DEF WriteFstab, Runs, Advance, Abort, TypeOK
  <2> QED
    BY <2>1 DEF Copying
<1>10. CASE UmountDone(t) \/ Report(t) \/ Cleanup(t)
  <2>1. <<pc[t], pc'[t]>> \in {<<"umount", "report">>, <<"report", "cleanup">>,
                               <<"cleanup", "release">>}
    BY <1>10 DEF UmountDone, Umount, Report, Cleanup, TypeOK
  <2> QED
    BY <2>1 DEF Copying
<1>11. CASE Release(t)
  <2>1. pc[t] = "release" /\ pc'[t] = "none"
    BY <1>11 DEF Release, TypeOK
  <2> QED
    BY <2>1 DEF Copying
<1> QED
  BY <1>1, <1>2, <1>3, <1>4, <1>5, <1>6, <1>7, <1>8, <1>9, <1>10, <1>11 DEF InstallThread

LEMMA ThreadGetsOn ==
  ASSUME IInv, NEW t \in Thread, InstallThread(t)
  PROVE  StepsLeft(t)' < StepsLeft(t)
<1>1. copied[t] \in 0..Entries /\ Entries \in Nat
  BY EntriesAssumption DEF IInv, TypeOK
<1>2. CASE ~CopyEntry(t)
  <2>1. /\ CommandsLeft(pc'[t]) < CommandsLeft(pc[t])
        /\ CommandsLeft(pc'[t]) \in Nat /\ CommandsLeft(pc[t]) \in Nat
    BY <1>2, CommandOrder
  <2>2. EntriesLeft(t)' <= EntriesLeft(t) /\ EntriesLeft(t)' \in Nat /\ EntriesLeft(t) \in Nat
    <3>1. CASE pc'[t] \in Copying
      <4>1. pc[t] \in Copying /\ copied'[t] = copied[t]
        BY <1>2, <3>1, CommandOrder
      <4> QED
        BY <1>1, <3>1, <4>1 DEF EntriesLeft
    <3>2. CASE pc'[t] \notin Copying
      BY <1>1, <3>2 DEF EntriesLeft
    <3> QED
      BY <3>1, <3>2
  <2>3. /\ StepsLeft(t)' = CommandsLeft(pc'[t]) + EntriesLeft(t)'
        /\ StepsLeft(t) = CommandsLeft(pc[t]) + EntriesLeft(t)
    BY DEF StepsLeft
  <2> QED
    BY <2>1, <2>2, <2>3
<1>3. CASE CopyEntry(t)
  <2>1. pc[t] = "cp" /\ copied'[t] = copied[t] + 1
    BY <1>3 DEF CopyEntry, Runs, IInv, TypeOK
  <2>2. copied[t] < Entries
    BY <2>1 DEF IInv, ThreadInv
  <2>3. pc'[t] \in {"cp", "grub-install", "cleanup"}
    BY <1>3 DEF CopyEntry, Runs, Advance, Abort, IInv, TypeOK
  <2>4. StepsLeft(t) = 7 + (Entries - copied[t])
    BY <2>1, CommandNumbers DEF StepsLeft, EntriesLeft, Copying
  <2>5. StepsLeft(t)' \in {7 + (Entries - (copied[t] + 1)), 7 + 0, 2 + 0}
    <3>1. CASE pc'[t] = "cp"
      BY <2>1, <3>1, CommandNumbers DEF StepsLeft, EntriesLeft, Copying
    <3>2. CASE pc'[t] = "grub-install"
      BY <3>2, CommandNumbers DEF StepsLeft, EntriesLeft, Copying
    <3>3. CASE pc'[t] = "cleanup"
      BY <3>3, CommandNumbers DEF StepsLeft, EntriesLeft, Copying
    <3> QED
      BY <2>3, <3>1, <3>2, <3>3
  <2> QED
    BY <1>1, <2>2, <2>4, <2>5
<1> QED
  BY <1>2, <1>3

\* What a step that is none of this thread's does to it.
LEMMA ThreadLeftAlone ==
  ASSUME IInv, [Next]_vars, NEW t \in Thread, Alive(t), ~InstallThread(t)
  PROVE  StepsLeft(t)' = StepsLeft(t) \/ pc'[t] = "none"
<1>1. pc'[t] = pc[t] /\ copied'[t] = copied[t] => StepsLeft(t)' = StepsLeft(t)
  BY DEF StepsLeft, EntriesLeft
<1>2. ASSUME NEW u \in Thread, NEW d \in Disk, InstallStart(u, d) PROVE FALSE
  BY <1>2 DEF InstallStart, IInv, ThreadInv
<1>3. ASSUME NEW u \in Thread, InstallThread(u) PROVE pc'[t] = "none"
  BY <1>3, ThreadMoves
<1>4. CASE PersistLook \/ PersistFormat \/ UNCHANGED vars
  BY <1>1, <1>4 DEF PersistLook, PersistFormat, installVars, threadVars, vars
<1>5. CASE ServiceRestart \/ Reboot
  BY <1>5 DEF ServiceRestart, Reboot, ServiceReset
<1> QED
  BY <1>2, <1>3, <1>4, <1>5 DEF Next

LEMMA FlagKept == IInv /\ FlagHasItsThread /\ [Next]_vars => FlagHasItsThread'
<1> SUFFICES ASSUME IInv, FlagHasItsThread, [Next]_vars PROVE FlagHasItsThread'
  OBVIOUS
<1>1. \A t \in Thread : Alive(t)' => job'.running
  BY Inductive DEF IInv, ThreadInv
<1>2. ASSUME job'.running PROVE \E t \in Thread : Alive(t)'
  <2>1. ASSUME NEW t \in Thread, NEW d \in Disk, InstallStart(t, d) PROVE Alive(t)'
    BY <2>1 DEF InstallStart, Alive, IInv, TypeOK
  <2>2. ASSUME NEW t \in Thread, InstallThread(t) PROVE Alive(t)'
    <3>1. CASE Release(t)
      <4>1. job'.running = FALSE
        BY <3>1 DEF Release, IInv, TypeOK, Job
      <4> QED
        BY <1>2, <4>1
    <3>2. CASE ~Release(t)
      BY <2>2, <3>2 DEF InstallThread, Alive, IInv, TypeOK, Runs, Advance, Abort, Begin, Wipefs,
           WipefsBusy, Sfdisk, MkfsVfat, MkfsExt4, Mount, CopyEntry, GrubInstall, WriteGrubCfg,
           WriteFstab, UmountDone, Umount, Report, Cleanup
    <3> QED
      BY <3>1, <3>2
  <2>3. CASE PersistLook \/ PersistFormat \/ UNCHANGED vars
    BY <1>2, <2>3 DEF PersistLook, PersistFormat, installVars, threadVars, vars, Alive,
                      FlagHasItsThread
  <2>4. CASE ServiceRestart \/ Reboot
    BY <1>2, <2>4 DEF ServiceRestart, Reboot, ServiceReset, IdleJob
  <2> QED
    BY <2>1, <2>2, <2>3, <2>4 DEF Next
<1> QED
  BY <1>1, <1>2 DEF FlagHasItsThread

(* The flag is never left behind without a thread that will clear it.        *)
THEOREM NoFlagIsLeft == Spec => []FlagHasItsThread
<1>1. Init => FlagHasItsThread
  BY DEF Init, IdleJob, FlagHasItsThread, Alive
<1>2. Spec => []IInv
  BY Invariant
<1> QED
  BY <1>1, <1>2, FlagKept, PTL DEF Spec

(* An install is over after as many steps as it has commands and entries,    *)
(* whatever fails: each step of its thread leaves it fewer.                  *)
THEOREM InstallsGetOn == Spec => InstallsAdvance
<1>1. IInv /\ [Next]_vars =>
        [\A t \in Thread : Alive(t) =>
           IF InstallThread(t) THEN StepsLeft(t)' < StepsLeft(t)
                               ELSE StepsLeft(t)' = StepsLeft(t) \/ pc'[t] = "none"]_vars
  BY ThreadGetsOn, ThreadLeftAlone
<1> QED
  BY <1>1, Invariant, PTL DEF Spec, InstallsAdvance

-----------------------------------------------------------------------------
(***************************************************************************)
(* The whole: Installer.  What is proved of the screens before the         *)
(* contract of the service (InstallerUI_proofs) holds before the service   *)
(* itself, once a step of its thread is seen to be a step of the contract. *)
(***************************************************************************)
P == INSTANCE InstallerUI_proofs
  WITH running <- job.running, done <- job.done, error <- job.error

(* The screens by their own name and by that of the module with their proofs. *)
LEMMA SameScreens ==
  /\ UI!Init => P!Init
  /\ UI!Next => P!Next
  /\ UNCHANGED UI!vars => UNCHANGED P!vars
<1> USE DEF UI!serviceVars, P!serviceVars, UI!listVars, P!listVars, UI!buttonVars, P!buttonVars,
            UI!Answered, P!Answered, UI!Reads, P!Reads, UI!Refused, P!Refused, UI!Cut, P!Cut,
            UI!Job!Start, P!Job!Start, UI!Job!Report, P!Job!Report, UI!Job!Release, P!Job!Release,
            UI!Job!Restart, P!Job!Restart, UI!Job!Init, P!Job!Init,
            UI!ShellMode, P!ShellMode, UI!GateToggled, P!GateToggled, UI!Listed, P!Listed,
            UI!RefreshList, P!RefreshList, UI!RefreshDisks, P!RefreshDisks,
            UI!FreshScreen, P!FreshScreen
<1>1. UI!Init => P!Init
  BY DEF UI!Init, P!Init
<1>2. UNCHANGED UI!vars => UNCHANGED P!vars
  BY DEF UI!vars, P!vars
<1>3. UI!Next => P!Next
  BY DEF UI!Next, P!Next, UI!ServiceDies, P!ServiceDies, UI!ServiceStarts, P!ServiceStarts,
         UI!JobReports, P!JobReports, UI!JobReleases, P!JobReleases,
         UI!RefreshClicked, P!RefreshClicked, UI!Rescan, P!Rescan, UI!GateClicked, P!GateClicked,
         UI!DiskToggled, P!DiskToggled, UI!GoClicked, P!GoClicked,
         UI!InstallRefused, P!InstallRefused, UI!InstallUnderWay, P!InstallUnderWay,
         UI!RestartClicked, P!RestartClicked, UI!Poll, P!Poll, UI!PollError, P!PollError,
         UI!PollDone, P!PollDone, UI!PollStage, P!PollStage, UI!PollUnanswered, P!PollUnanswered,
         UI!Reopen, P!Reopen, UI!TryDaybreak, P!TryDaybreak
<1> QED
  BY <1>1, <1>2, <1>3

-----------------------------------------------------------------------------
(* Every step of the whole is a step of the service or leaves it alone. *)
LEMMA ServiceStep == [SysNext]_sysVars => [Next]_vars
<1> SUFFICES ASSUME [SysNext]_sysVars PROVE [Next]_vars
  OBVIOUS
<1>1. ASSUME NEW t \in Thread, Install(t) \/ Works(t) PROVE Next
  BY <1>1 DEF Install, Works, Next
<1>2. CASE Persist
  BY <1>2 DEF Persist, Next
<1>3. CASE Dies \/ PowerCycle
  BY <1>3 DEF Dies, PowerCycle, Next
<1>4. CASE Starts \/ Click \/ Rescan \/ Poll
  BY <1>4 DEF Starts, Click, Rescan, Poll, ShellFree
<1>5. CASE UNCHANGED sysVars
  BY <1>5 DEF sysVars
<1> QED
  BY <1>1, <1>2, <1>3, <1>4, <1>5 DEF SysNext, Session

ServiceInv == IInv /\ JInv /\ OutcomeInv

THEOREM ServiceInside == SysSpec => Init /\ [][Next]_vars
  BY ServiceStep, PTL DEF SysSpec, SysInit

LEMMA ServiceKept == ServiceInv /\ [SysNext]_sysVars => ServiceInv'
  BY ServiceStep, Inductive, InductiveJ, OutcomeKept DEF ServiceInv

(***************************************************************************)
(* What ties the screens to the disks: a thread works for a service that   *)
(* is there, and an install that went well has left a complete disk.       *)
(***************************************************************************)
Complete == /\ latest \in Disk
            /\ \/ disk[latest].table = "store"
               \/ disk[latest] = Installed /\ ~Stacked(latest)

LinkInv ==
  /\ \A t \in Thread : Alive(t) => up
  /\ outcome = "ok" => Complete

SysInv == ServiceInv /\ P!IInv /\ LinkInv

LEMMA SysInitially == SysInit => SysInv
<1> SUFFICES ASSUME SysInit PROVE SysInv
  OBVIOUS
<1>1. ServiceInv
  BY Initially, InitiallyJ, OutcomeStarts DEF SysInit, ServiceInv
<1>2. P!IInv
  BY SameScreens, P!Initially DEF SysInit
<1>3. LinkInv
  BY DEF SysInit, Init, UI!Init, LinkInv, Alive
<1> QED
  BY <1>1, <1>2, <1>3 DEF SysInv

-----------------------------------------------------------------------------
(* The screens see the contract: what a step of the thread is to them. *)
LEMMA WorksSeen ==
  ASSUME SysInv, NEW t \in Thread, Works(t)
  PROVE  UI!Next \/ UNCHANGED UI!vars
<1>0. IInv /\ InstallThread(t)
  BY DEF SysInv, ServiceInv, Works
<1>1. Alive(t) /\ job.running /\ up /\ latest' = latest
  BY <1>0, ThreadMoves DEF IInv, ThreadInv, SysInv, LinkInv
<1>2. IF pc[t] \in Ended THEN job.done \/ job.error ELSE ~job.done /\ ~job.error
  BY <1>1 DEF SysInv, ServiceInv, OutcomeInv
<1>3. job.done \in BOOLEAN /\ job.error \in BOOLEAN /\ job.running \in BOOLEAN
  BY <1>0 DEF IInv, TypeOK, Job
<1>4. /\ UNCHANGED <<up, restarts, installs, screen, tried, listed, sel, waiting, rescan, gate,
                     go, status, polling, finished, restarted>>
      /\ outcome' = IF job'.done /\ ~job.done THEN "ok"
                    ELSE IF job'.error /\ ~job.error THEN "failed" ELSE outcome
  BY DEF Works, screenVars
<1> USE DEF UI!listVars, UI!buttonVars
<1>5. CASE Publishes(pc[t], pc'[t], job, job')
  <2>1. UNCHANGED <<job.running, job.done, job.error>> /\ outcome' = outcome
    BY <1>3, <1>4, <1>5 DEF Publishes
  <2> QED
    BY <1>1, <1>4, <2>1 DEF UI!vars, UI!serviceVars
<1>6. CASE Fails(pc[t], pc'[t], job, job')
  <2>1. UI!Job!Report(FALSE) /\ outcome' = "failed"
    BY <1>1, <1>2, <1>3, <1>4, <1>6 DEF Fails, UI!Job!Report
  <2>2. UI!JobReports
    BY <1>1, <1>4, <2>1 DEF UI!JobReports
  <2> QED
    BY <2>2 DEF UI!Next
<1>7. CASE Succeeds(pc[t], pc'[t], job, job')
  <2>1. UI!Job!Report(TRUE) /\ outcome' = "ok"
    BY <1>1, <1>2, <1>3, <1>4, <1>7 DEF Succeeds, UI!Job!Report
  <2>2. UI!JobReports
    BY <1>1, <1>4, <2>1 DEF UI!JobReports
  <2> QED
    BY <2>2 DEF UI!Next
<1>8. CASE LetsGo(pc[t], pc'[t], job, job')
  <2>1. UI!Job!Release /\ outcome' = outcome
    BY <1>1, <1>2, <1>3, <1>4, <1>8 DEF LetsGo, UI!Job!Release
  <2>2. UI!JobReleases
    BY <1>1, <1>4, <2>1 DEF UI!JobReleases
  <2> QED
    BY <2>2 DEF UI!Next
<1> QED
  BY <1>0, <1>5, <1>6, <1>7, <1>8, ThreadTells

LEMMA ScreenStep ==
  ASSUME SysInv, [SysNext]_sysVars
  PROVE  UI!Next \/ PowerCycle \/ UNCHANGED UI!vars
<1>1. ASSUME NEW t \in Thread, Install(t) PROVE UI!Next
  BY <1>1 DEF Install, UI!Next
<1>2. ASSUME NEW t \in Thread, Works(t) PROVE UI!Next \/ UNCHANGED UI!vars
  BY <1>2, WorksSeen
<1>3. CASE Persist
  <2>1. UNCHANGED <<job, latest, uiVars>>
    BY <1>3 DEF Persist, PersistLook, PersistFormat, installVars
  <2> QED
    BY <2>1 DEF uiVars, screenVars, UI!vars, UI!serviceVars, UI!listVars, UI!buttonVars
<1>4. CASE Dies
  BY <1>4 DEF Dies, UI!Next
<1>5. CASE Starts \/ Click \/ Rescan \/ Poll
  BY <1>5 DEF Starts, Click, Rescan, Poll, UI!Next
<1>6. CASE UNCHANGED sysVars
  <2>1. UNCHANGED <<job, latest, uiVars>>
    BY <1>6 DEF sysVars, vars
  <2> QED
    BY <2>1 DEF uiVars, screenVars, UI!vars, UI!serviceVars, UI!listVars, UI!buttonVars
<1> QED
  BY <1>1, <1>2, <1>3, <1>4, <1>5, <1>6 DEF SysNext, Session

LEMMA ScreensKept ==
  ASSUME SysInv, [SysNext]_sysVars
  PROVE  P!IInv'
<1>1. CASE PowerCycle
  <2>1. job'.running = FALSE /\ job'.done = FALSE /\ job'.error = FALSE /\ latest' = latest
    BY <1>1 DEF PowerCycle, Reboot, ServiceReset, IdleJob
  <2>2. latest \in Disk \cup {NoDisk}
    BY DEF SysInv, ServiceInv, IInv, TypeOK
  <2>4. P!ServiceInv'
    BY <1>1, <2>1, <2>2 DEF PowerCycle, FreshShell, P!ServiceInv, P!Outcome, P!Job!TypeOK
  <2>5. screen' \in {"first", "window"}
    BY <1>1 DEF PowerCycle, FreshShell, UI!ShellMode
  <2>6. listed' \in SUBSET Disk /\ sel' \in listed' \cup {NoDisk}
    BY <1>1 DEF PowerCycle, FreshShell
  <2>7. gate' \in [active : BOOLEAN, sensitive : BOOLEAN] /\ go' = FALSE
    BY <1>1 DEF PowerCycle, FreshShell
  <2>8. waiting' \in BOOLEAN /\ rescan' \in BOOLEAN
    BY <1>1 DEF PowerCycle, FreshShell
  <2>9. P!ScreenInv'
    BY <1>1, <2>5, <2>6, <2>7, <2>8 DEF PowerCycle, FreshShell, P!ScreenInv
  <2> QED
    BY <1>1, <2>4, <2>9 DEF PowerCycle, FreshShell, P!IInv
<1>2. CASE UI!Next \/ UNCHANGED UI!vars
  <2>1. [P!Next]_(P!vars)
    BY <1>2, SameScreens
  <2> QED
    BY <2>1, P!Consecution DEF SysInv
<1> QED
  BY <1>1, <1>2, ScreenStep

-----------------------------------------------------------------------------
(* A click that begins an install is answered by a service that is there. *)
LEMMA InstallBegins ==
  ASSUME NEW t \in Thread, Install(t)
  PROVE  up' = TRUE /\ outcome' = "running"
<1>1. ~job.running /\ job'.running
  BY DEF Install, InstallStart
<1>2. ~UI!Reads /\ ~UI!Refused /\ ~UI!Cut
  BY <1>1 DEF UI!Reads, UI!Refused, UI!Cut, UI!serviceVars, UI!Job!Restart
<1> QED
  BY <1>2 DEF Install, UI!GoClicked, UI!InstallRefused, UI!InstallUnderWay, UI!Answered

(* While the outcome is known, the thread only unmounts and lets go. *)
LEMMA OkThreadEnds ==
  ASSUME SysInv, outcome = "ok", NEW t \in Thread, InstallThread(t)
  PROVE  Cleanup(t) \/ Release(t)
<1>0. IInv
  BY DEF SysInv, ServiceInv
<1>1. Alive(t) /\ job.running
  BY <1>0, ThreadMoves DEF IInv, ThreadInv
<1>2. job.done \/ job.error
  BY <1>1 DEF SysInv, P!IInv, P!ServiceInv
<1>3. pc[t] \in Ended
  BY <1>1, <1>2 DEF SysInv, ServiceInv, OutcomeInv
<1> QED
  BY <1>3 DEF InstallThread, Ended, Runs, Begin, Wipefs, WipefsBusy, Sfdisk, MkfsVfat, MkfsExt4,
              Mount, CopyEntry, GrubInstall, WriteGrubCfg, WriteFstab, UmountDone, Umount, Report

(* An install that went well is not undone. *)
LEMMA OkIsComplete ==
  ASSUME SysInv, ServiceInv', [SysNext]_sysVars, outcome' = "ok"
  PROVE  Complete'
<1>0. /\ IInv /\ JInv /\ IInv' /\ JInv' /\ [Next]_vars
      /\ disk \in [Disk -> Content] /\ target \in Seq(Disk)
  BY ServiceStep DEF SysInv, ServiceInv, IInv, TypeOK
<1>1. job'.done => Complete'
  BY <1>0 DEF JInv, DoneInv, DoneMeansComplete, Complete
<1>2. outcome = "ok" \/ job'.done
  <2>1. CASE UI!Next
    BY <2>1, SameScreens, P!OkIsReported
  <2>2. CASE PowerCycle
    BY <2>2 DEF PowerCycle, FreshShell
  <2>3. CASE UNCHANGED UI!vars
    BY <2>3 DEF UI!vars
  <2> QED
    BY <2>1, <2>2, <2>3, ScreenStep
<1>3. ASSUME outcome = "ok", ~job'.done PROVE Complete'
  <2>0. Complete
    BY <1>3 DEF SysInv, LinkInv
  <2>1. CASE UNCHANGED <<disk, target, latest>>
    BY <2>0, <2>1 DEF Complete, Stacked
  <2>2. ASSUME UNCHANGED <<disk, latest>>, target' = <<>> PROVE Complete'
    BY <2>0, <2>2 DEF Complete, Stacked
  <2>3. CASE PersistFormat
    <3>1. UNCHANGED <<target, latest>> /\ setup \in Disk
      BY <1>0, <2>3 DEF PersistFormat, installVars, IInv, TypeOK
    <3>2. disk' = disk \/ disk' = [disk EXCEPT ![setup] = Raw("store")]
      BY <2>3 DEF PersistFormat
    <3>3. \A d \in Disk : disk'[d] = disk[d] \/ disk'[d].table = "store"
      BY <1>0, <3>1, <3>2 DEF Raw
    <3> QED
      BY <2>0, <3>1, <3>3 DEF Complete, Stacked
  <2>4. ASSUME NEW t \in Thread, InstallThread(t) PROVE Complete'
    <3>1. Cleanup(t) \/ Release(t)
      BY <1>3, <2>4, OkThreadEnds
    <3>2. UNCHANGED <<disk, latest>>
      BY <3>1 DEF Cleanup, Release, Umount
    <3>3. target' = target \/ target' = IF target = <<>> THEN <<>> ELSE Tail(target)
      BY <3>1 DEF Cleanup, Release, Umount
    <3>4. ~Stacked(latest) => ~Stacked(latest)'
      BY <1>0, <2>0, <3>2, <3>3, Stacks DEF Stacked, Complete
    <3> QED
      BY <2>0, <3>2, <3>4 DEF Complete
  <2>5. ASSUME NEW t \in Thread PROVE ~Install(t)
    BY InstallBegins
  <2>6. CASE Persist \/ Dies \/ PowerCycle
    BY <2>1, <2>2, <2>3, <2>6 DEF Persist, PersistLook, installVars, Dies,
                                ServiceRestart, PowerCycle, Reboot, ServiceReset
  <2>7. CASE Starts \/ Click \/ Rescan \/ Poll \/ UNCHANGED sysVars
    BY <2>1, <2>7 DEF Starts, Click, Rescan, Poll, ShellFree, sysVars, vars
  <2> QED
    BY <2>4, <2>5, <2>6, <2>7 DEF SysNext, Session, Works
<1> QED
  BY <1>1, <1>2, <1>3

LEMMA LinkKept ==
  ASSUME SysInv, ServiceInv', [SysNext]_sysVars
  PROVE  LinkInv'
<1>1. ASSUME NEW u \in Thread, Alive(u)' PROVE up'
  <2>0. Alive(u) => up
    BY DEF SysInv, LinkInv
  <2>1. ASSUME NEW t \in Thread, Install(t) PROVE up'
    BY <2>1, InstallBegins
  <2>2. ASSUME NEW t \in Thread, Works(t) PROVE up'
    <3>1. Alive(t) /\ up' = up
      BY <2>2, ThreadMoves DEF Works, SysInv, ServiceInv
    <3> QED
      BY <3>1 DEF SysInv, LinkInv
  <2>3. CASE Dies \/ PowerCycle
    BY <1>1, <2>3 DEF Dies, ServiceRestart, PowerCycle, Reboot, ServiceReset, Alive
  <2>4. CASE Starts
    BY <2>4 DEF Starts, UI!ServiceStarts
  <2>5. CASE Persist \/ Click \/ Rescan \/ Poll \/ UNCHANGED sysVars
    <3>1. UNCHANGED <<pc, up>>
      BY <2>5 DEF Persist, PersistLook, PersistFormat, installVars, threadVars, uiVars, Click,
                  Rescan, Poll, ShellFree, sysVars, vars
    <3> QED
      BY <1>1, <2>0, <3>1 DEF Alive
  <2> QED
    BY <2>1, <2>2, <2>3, <2>4, <2>5 DEF SysNext, Session
<1>2. outcome' = "ok" => Complete'
  BY OkIsComplete
<1> QED
  BY <1>1, <1>2 DEF LinkInv

LEMMA SysInductive == SysInv /\ [SysNext]_sysVars => SysInv'
<1> SUFFICES ASSUME SysInv, [SysNext]_sysVars PROVE SysInv'
  OBVIOUS
<1>1. ServiceInv'
  BY ServiceKept DEF SysInv
<1>2. P!IInv'
  BY ScreensKept
<1> QED
  BY <1>1, <1>2, LinkKept DEF SysInv

(* The inductive invariant of the whole: the service, the screens, and what  *)
(* ties the one to the other.                                                *)
THEOREM SysInvariant == SysSpec => []SysInv
  BY SysInitially, SysInductive, PTL DEF SysSpec

(* Before the real service the screens do what InstallerUI says they do      *)
(* before its contract: the composition is faithful to both of its parts.    *)
THEOREM ScreensImplemented == SysSpec => ScreensAsSpecified
<1>1. SysInit => UI!Init
  BY DEF SysInit
<1>2. SysInv /\ [SysNext]_sysVars => [UI!Next \/ PowerCycle]_(UI!vars)
  BY ScreenStep
<1> QED
  BY <1>1, <1>2, SysInvariant, PTL DEF SysSpec, ScreensAsSpecified

(* The timers of the screens before the real service, over reboots as well.  *)
THEOREM WaitersStillHaveTimers == SysSpec => []UI!WaitingIsArmed
<1>1. UI!WaitingIsArmed <=> P!WaitingIsArmed
  BY DEF UI!WaitingIsArmed, P!WaitingIsArmed
<1>2. SysInit => P!WaitingIsArmed
  BY SameScreens, P!ArmedStarts DEF SysInit
<1>3. SysInv /\ P!WaitingIsArmed /\ [SysNext]_sysVars => P!WaitingIsArmed'
  <2>1. ASSUME P!WaitingIsArmed, UI!Next \/ UNCHANGED UI!vars PROVE P!WaitingIsArmed'
    <3>1. [P!Next]_(P!vars)
      BY <2>1, SameScreens
    <3> QED
      BY <2>1, <3>1, P!ArmedKept
  <2>2. PowerCycle => P!WaitingIsArmed'
    BY DEF PowerCycle, FreshShell, P!WaitingIsArmed
  <2> QED
    BY <2>1, <2>2, ScreenStep
<1> QED
  BY <1>1, <1>2, <1>3, SysInvariant, PTL DEF SysSpec

(* "Installation complete" on the screen is true of the disk itself.         *)
THEOREM CompleteOnDisk == SysSpec => []RestartMeansComplete
<1>1. SysInv => RestartMeansComplete
  BY DEF SysInv, P!IInv, LinkInv, Complete, RestartMeansComplete
<1> QED
  BY <1>1, SysInvariant, PTL

(* From the click to the platter, every install is of the disk selected, with *)
(* the check button ticked, at the click that began it.                      *)
THEOREM ConsentReachesDisk == SysSpec => EraseNeedsConsent
<1> DEFINE Follows == \A t \in Thread : Alive(t)' =>
              chosen'[t] = IF Alive(t) THEN chosen[t] ELSE sel
           Asked == \A t \in Thread : ~Alive(t) /\ Alive(t)' => gate.active /\ sel \in listed
           Safe == \A d \in Disk : disk'[d] # disk[d] =>
                     Installing(d) \/ (setup = d /\ (disk[d].table = "none" \/ racing))
<1>1. ASSUME SysInv, [SysNext]_sysVars PROVE Follows /\ Asked
  <2>0. pc \in [Thread -> PC] /\ chosen \in [Thread -> Disk \cup {NoDisk}]
    BY <1>1 DEF SysInv, ServiceInv, IInv, TypeOK
  <2>1. ASSUME NEW t \in Thread, Install(t) PROVE Follows /\ Asked
    <3>1. UI!GoClicked /\ ~Alive(t) /\ chosen' = [chosen EXCEPT ![t] = sel]
          /\ pc' = [pc EXCEPT ![t] = "begin"]
      BY <2>1 DEF Install, InstallStart
    <3>2. gate.active /\ sel \in listed
      BY <1>1, <3>1 DEF UI!GoClicked, SysInv, P!IInv, P!ScreenInv
    <3> QED
      BY <2>0, <3>1, <3>2 DEF Alive
  <2>2. ASSUME NEW t \in Thread, Works(t) PROVE Follows /\ Asked
    <3>1. /\ Alive(t) /\ \A u \in Thread \ {t} : pc'[u] = "none"
          /\ pc'[t] # "none" => chosen' = chosen
      BY <1>1, <2>2, ThreadMoves DEF Works, SysInv, ServiceInv
    <3> QED
      BY <3>1 DEF Alive
  <2>3. CASE Dies \/ PowerCycle
    <3>1. pc' = [t \in Thread |-> "none"]
      BY <2>3 DEF Dies, ServiceRestart, PowerCycle, Reboot, ServiceReset
    <3> QED
      BY <3>1 DEF Alive
  <2>4. CASE Persist \/ Starts \/ Click \/ Rescan \/ Poll \/ UNCHANGED sysVars
    <3>1. UNCHANGED <<pc, chosen>>
      BY <2>4 DEF Persist, PersistLook, PersistFormat, installVars, Starts, Click, Rescan, Poll,
                  ShellFree, sysVars, vars, threadVars
    <3> QED
      BY <3>1 DEF Alive
  <2> QED
    BY <1>1, <2>1, <2>2, <2>3, <2>4 DEF SysNext, Session
<1>2. SysInv /\ [SysNext]_sysVars => Safe
  BY ServiceStep, WritesAreSafe DEF SysInv, ServiceInv
<1>3. SysInv /\ [SysNext]_sysVars => [Follows /\ Asked /\ Safe]_sysVars
  BY <1>1, <1>2
<1> QED
  BY <1>3, SysInvariant, PTL DEF SysSpec, EraseNeedsConsent

=============================================================================
