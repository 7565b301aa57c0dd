SPECIFICATION FairSpec
CONSTANTS
  Size = 2
  Writers = {0, 1}
  MaxLen = 2
  Cap = 1
  RandStall = FALSE
INVARIANTS ReadsRouted WritesPaired ResponsesRouted InTurn
PROPERTIES Served
