CONSTANTS
  Disk = {sda, sdb}
  NoDisk = NoDisk
  Thread = {t1, t2}
  Entries = 2
SPECIFICATION Spec
INVARIANTS TypeOK OneInstaller FilesGoToChosenDisk DoneMeansComplete OneStore
PROPERTIES OnlyConfirmedOrBlankWritten KeepsInstallContract
