SPECIFICATION FairSpec
CONSTANTS
  N = 2
  Entries = 3
  W = 2
  Burst = 2
  Depth = 2
  Lengths = {1, 3}
  Steps = 4
  Prompt = FALSE
  Cap = 1
  RandStall = FALSE
INVARIANTS TypeOK BuffersRight CopiesAgree SidesFixed ResponseWhole
PROPERTIES Answered
