SPECIFICATION ShellFairSpec
CONSTANTS
  MAX_TASKS = 3
  Stacks = {s1, s2}
  BootStack = boot
  Names <- MCNames
  KernelName = "kernel_main"
  NoName = ""
  Prefixes <- MCPrefixes
  Durations = {1}
  NULL = null
  ShellName = "kshell"
INVARIANTS
  ActivatedIsAlive
  ShellFreesAll
PROPERTIES
  F12StartsShell
