CONSTANTS
  Disk = {sda}
  NoDisk = NoDisk
  Thread = {t1}
  Entries = 1
SPECIFICATION NewMachineSpec
INVARIANT HandOffBoots
