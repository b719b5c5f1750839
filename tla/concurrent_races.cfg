SPECIFICATION Spec
CONSTANTS
  shouted = shouted
  plain = plain
  NoWhy = noWhy
  Fold <- FoldCase
  Bodies = {good}
  ValidBodies = {good}
  Whys = {noWhy}
  Goroutines = {g1, g2}
  Ops = {"form", "bind", "bindTrigger", "rebind"}
  Marks = {TRUE}
  Overlap = TRUE
  MaxID = 6
  MaxReviews = 2
  MaxCauses = 2
  MaxTriggers = 1
  MaxClock = 2
  MaxArrays = 10
SYMMETRY Alike
INVARIANTS
  HeapInv
PROPERTIES
  ReviewsAreIsolated
  StampsAreFresh
  RequestsWindDown
