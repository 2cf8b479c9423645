SPECIFICATION FairSpec
CONSTANTS
  Kinds = {"none", "ata", "atapi"}
  Lbas <- MCLbas
  Counts = {1, 2}
  Timeout = 1
INVARIANTS
  ReadsRight
  WritesRight
PROPERTIES
  OnlyTheTarget
  CallsReturn
CHECK_DEADLOCK FALSE
