SPECIFICATION FSpec
CONSTANTS
  Name = {1, 2, 3}
  NameLength <- Lengths
  KernelNames = {2, 3}
  FileSizes <- HostSizes
  ENTRY_SIZE = 16
  ENTRIES = 20
  block_size = 4
  SECTOR_SIZE = 2
  start_block = 3
  COUNT_BITS = 2
  LBA_BITS = 4
  Targets = {3}
  MaxDirectives = 3
  MaxBooted = 2
  Dev = 1
  Devices <- DeviceNames
  DeviceSize = 3
  SECTOR_COUNT = 2
  Stream = {f, g}
  Paths <- TwoLevels
  Chunks = {3}
  Offsets <- SeekOffsets
  MaxEntries = 8
  MaxCalls = 3
INVARIANTS
  NodesApart
  BootsTheKernel
  Listed
  ReadExact
  StreamReads
  OneOpener
SYMMETRY Symmetric
CHECK_DEADLOCK FALSE
