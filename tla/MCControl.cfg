SPECIFICATION FairSpec
CONSTANTS
  Entries = 4
  Words = {16777216, 52494595}
  Bases = {0, 1}
  HostRegs = {1, 2, 4, 6}
INVARIANTS OwnInterrupt ReadBack StartedAsConfigured
PROPERTIES Answered
