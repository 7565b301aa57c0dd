SPECIFICATION Spec
CONSTANTS
  N = 2
  Entries = 8
  W = 1
  Burst = 8
  Depth = 2
  Lengths = {8}
  Steps = 1
  Prompt = FALSE
  Cap = 1
  RandStall = TRUE
INVARIANTS NotJammed
