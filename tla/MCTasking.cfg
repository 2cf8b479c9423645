SPECIFICATION FairSpec
CONSTANTS
  MAX_TASKS = 4
  Stacks = {s1, s2, s3}
  BootStack = boot
  Names <- MCNames
  KernelName = "kernel_main"
  NoName = ""
  Prefixes <- MCPrefixes
  Durations = {0, 2}
  NULL = null
INVARIANTS
  StacksOwned
  CpuOnOwnStack
  ResumesInPlace
  NeverHung
  UniqueNames
  BoundedWait
PROPERTIES
  SleepersWake
  ZombiesReaped
