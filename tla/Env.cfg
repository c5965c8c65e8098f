SPECIFICATION Spec
CONSTANTS
  Values = {default, a, b}
  Default = default
  Bad = bad
  SectorLarger = TRUE
INVARIANTS TypeOK NothingOlder
PROPERTY SaveTakesEffect
