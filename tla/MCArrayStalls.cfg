SPECIFICATION Spec
CONSTANTS
  N = 2
  M = 2
  Gens = 1
  Cap = 2
  RandStall = TRUE
INVARIANTS TypeOK ResultCorrect WeightStationary
