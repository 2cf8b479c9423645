SPECIFICATION DriverFairSpec
CONSTANTS
  Kinds = {"ata"}
  Lbas <- MCLbas
  Counts = {1, 2}
  Timeout = 1
PROPERTY TimesOut
CHECK_DEADLOCK FALSE
