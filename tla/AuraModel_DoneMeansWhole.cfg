CONSTANTS
  Thread = {t1, t2}
  Blocks = 2
  MaxRestarts = 2
SPECIFICATION Spec
INVARIANT DoneMeansWhole
