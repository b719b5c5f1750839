SPECIFICATION Spec
CONSTANTS
  Goroutines = {g1, g2}
  MaxRows = 4
  MaxClock = 2
SYMMETRY Alike
INVARIANTS
  TypeOK
  
  CatalogInv
PROPERTIES
  AnswersAreComplete
