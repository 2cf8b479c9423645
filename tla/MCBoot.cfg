SPECIFICATION FairKernelSpec
CONSTANTS
  SectorSize = 2
  SegmentSize = 8
  WordSize = 4
  FatMask = 16
  EOC = 12
  kernel_filename = "KERNEL  ELF"
  Installations <- MCInstallations
  TempSize = 16
  MemSize = 16
  ByteSize = 32
  SMAP_ENTRY_max = 4
  LongSize = 1024
  KERNEL_PHYSICAL_BASE = 64
  Megabyte = 64
  PAGE_SIZE = 16
  TableSize = 4
  PTI_COUNT = 4
  Buses = 2
  Slots = 2
  Functions = 2
  MaxDevices = 4
  PartitionLba = 2
INVARIANTS
  KernelInPlace
  HeapUsable
  HandlersReady
  TableIsTheBus
PROPERTIES
  KernelRuns
  IrqsServed
CHECK_DEADLOCK FALSE
