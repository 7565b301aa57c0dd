SPECIFICATION Spec
CONSTANTS
  N = 2
  Entries = 2
  W = 1
  Burst = 3
  Depth = 2
  Lengths = {2}
  Steps = 3
  Prompt = FALSE
  Cap = 1
  RandStall = FALSE
INVARIANTS DoneAtInterrupt
