SPECIFICATION Spec
CONSTANTS
  Values = {default, a, b}
  Default = default
  Bad = bad
  SectorLarger = TRUE
INVARIANT BackupExists
