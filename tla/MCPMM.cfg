SPECIFICATION Spec
CONSTANTS
  pmm_max_blocks = 10
  PMM_BLOCKS_PER_BYTE = 4
  LowBlocks = 2
  KernelBlocks = 1
  BitmapBase = 2
  Requests = {0, 1, 2, 3, 7, 11}
  DmaStart = 2
  DmaEnd = 8
INVARIANTS TypeOK CounterAgrees ReservedNeverGiven GivesUpOnlyWhenFragmented
PROPERTIES NoDoubleGrant IsFrameAllocator
CHECK_DEADLOCK FALSE
