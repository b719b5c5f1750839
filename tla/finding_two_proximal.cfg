SPECIFICATION Spec
CONSTANTS
  shouted = shouted
  plain = plain
  NoWhy = noWhy
  Fold <- FoldCase
  Bodies = {good}
  ValidBodies = {good}
  Whys = {plain, noWhy}
  Goroutines = {g1, g2}
  Ops = {"bind", "rebind"}
  Marks = {TRUE, FALSE}
  Overlap = TRUE
  MaxID = 6
  MaxReviews = 1
  MaxCauses = 3
  MaxTriggers = 0
  MaxClock = 1
  MaxArrays = 8
SYMMETRY Alike
INVARIANTS
  OneProximalAtATime
