SPECIFICATION Spec
CONSTANTS
  shouted = shouted
  plain = plain
  NoWhy = noWhy
  Fold <- FoldCase
  Bodies = {good}
  ValidBodies = {good}
  Whys = {plain, shouted, other, noWhy}
  MaxID = 7
  MaxReviews = 1
  MaxCauses = 3
  MaxTriggers = 0
  MaxRows = 1
  MaxClock = 1
INVARIANTS
  BoundCausesHaveIDs
