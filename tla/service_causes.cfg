SPECIFICATION Spec
CONSTANTS
  shouted = shouted
  plain = plain
  NoWhy = noWhy
  Fold <- FoldCase
  Bodies = {good, changed}
  ValidBodies = {good, changed}
  Whys = {plain, shouted, noWhy}
  MaxID = 6
  MaxReviews = 1
  MaxCauses = 3
  MaxTriggers = 1
  MaxRows = 1
  MaxClock = 1
INVARIANTS
  AtMostOneProximal
  NoRepeatedReason
  DistinctBoundIDs
PROPERTIES
  RefusedSavesNothing
  MarkOutlivesOtherRequests
  ImplementsBook
