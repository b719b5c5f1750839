SPECIFICATION PageSpec
CONSTANTS
  other = other
  plain = plain
  NoWhy = noWhy
  Fold <- AsItIs
  Bodies = {good}
  ValidBodies = {good}
  Whys = {plain, other, noWhy}
  MaxID = 5
  MaxReviews = 1
  MaxCauses = 2
  MaxTriggers = 1
  MaxRows = 2
  MaxClock = 1
INVARIANTS
  OneMarkOnThePage
