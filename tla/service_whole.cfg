SPECIFICATION Spec
CONSTANTS
  shouted = shouted
  plain = plain
  NoWhy = noWhy
  Fold <- FoldCase
  Bodies = {good, bad}
  ValidBodies = {good}
  Whys = {plain, noWhy}
  MaxID = 6
  MaxReviews = 2
  MaxCauses = 2
  MaxTriggers = 2
  MaxRows = 2
  MaxClock = 2
INVARIANTS
  TypeOK
  BoundToKnown
  StoredAreValid
PROPERTIES
  SavesLoseNothing
  TimestampsTellSaves
