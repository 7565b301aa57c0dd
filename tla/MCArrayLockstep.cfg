SPECIFICATION Spec
CONSTANTS
  N = 2
  M = 2
  Gens = 2
  Cap = 1
  RandStall = FALSE
INVARIANTS WholeRun NeverStuck
PROPERTIES KeepsPromise
