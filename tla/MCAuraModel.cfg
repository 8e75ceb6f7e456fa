CONSTANTS
  Thread = {t1, t2}
  Blocks = 2
  MaxRestarts = 2
SPECIFICATION Spec
INVARIANTS OneDownload WholeUnlessCut ReadyMeansPresent GreyHasReason
PROPERTIES OutcomeIsShown KeepsDownloadContract
