SPECIFICATION SSpec
CONSTANTS
  plain = plain
  other = other
  NoWhy = noWhy
  Fold <- SameText
  Bodies = {good, bad}
  ValidBodies = {good}
  Whys = {plain, other, noWhy}
  Goroutines = {g1}
  Ops = {"form", "bind", "rebind", "bindTrigger", "rebindTrigger"}
  Marks = {TRUE, FALSE}
  Overlap = FALSE
  MaxID = 6
  MaxReviews = 1
  MaxCauses = 3
  MaxTriggers = 2
  MaxClock = 2
  MaxArrays = 5
SYMMETRY Reasons
PROPERTIES
  ImplementsService
