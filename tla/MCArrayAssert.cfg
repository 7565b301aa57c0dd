SPECIFICATION Spec
CONSTANTS
  N = 2
  M = 2
  Gens = 1
  Cap = 1
  RandStall = TRUE
INVARIANTS AssertHolds
