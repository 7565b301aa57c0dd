SPECIFICATION Spec
CONSTANTS
  N = 256
  Acts <- ExtremeActs
  Weights <- Extremes
  Biases <- ThreeBytes
  LeftShifts = {0, 15}
  RightShifts = {0, 15}
  Multipliers = {1, 93, 255}
INVARIANTS SumExact OutputExact
CHECK_DEADLOCK FALSE
