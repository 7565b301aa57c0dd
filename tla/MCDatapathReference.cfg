SPECIFICATION Spec
CONSTANTS
  N = 8
  Acts <- Extremes
  Weights <- Extremes
  Biases <- ThreeBytes
  LeftShifts = {6}
  RightShifts = {10}
  Multipliers = {93}
INVARIANTS ReferenceAgrees
CHECK_DEADLOCK FALSE
