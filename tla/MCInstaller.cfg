CONSTANTS
  Disk = {sda}
  NoDisk = NoDisk
  Thread = {t1}
  Entries = 1
  MaxRestarts = 1
  MaxInstalls = 2
SPECIFICATION SysSpec
INVARIANTS RestartMeansComplete
PROPERTIES EraseNeedsConsent ScreensAsSpecified OutcomeIsShown DiskListArrives
