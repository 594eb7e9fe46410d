SPECIFICATION Spec
CONSTANTS
  home = home
  HOME = HOME
  empty = empty
  x = x
  y = y
  Names <- MCNames
  Fold <- MCFold
  Hidden <- MCHidden
  Contents <- MCContents
  Torn = Torn
  None = None
  BackupVersions = 1
  MaxMinute = 1
  MaxOps = 4
  MaxCrashes = 1
  MaxFails = 1
SYMMETRY MCSymmetry
INVARIANTS
  MovedKept
  DeletedRetainedUnlessFailed
  BackupHolds
