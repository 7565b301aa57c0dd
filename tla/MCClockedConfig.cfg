SPECIFICATION FairSpec
CONSTANTS
  N = 3
  M = 3
  Group = 3
  Reconfig = TRUE
  Lead = 1
INVARIANTS ColumnsInOrder WeightsAhead EndsWhole ConfigAhead
PROPERTIES Finishes
