SPECIFICATION FairSpec
CONSTANTS
  HeapBase = 1
  HeapSize = 8
  Requests = {1, 2, 4}
  Payloads <- MCPayloads
INVARIANTS
  Chain
  Ownership
  FreeMemoryCleared
  DoubleFreeIgnored
  CoalescedUnlessFull
PROPERTIES
  FirstFit
  FailsOnlyWithoutRoom
  CallsReturn
  PromiseSpec
