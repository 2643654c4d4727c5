SPECIFICATION GrantedSpec
CONSTANTS
  pmm_max_blocks = 11
  PMM_BLOCKS_PER_BYTE = 4
  LowBlocks = 1
  KernelBlocks = 1
  BitmapBase = 1
  Requests = {1}
  DmaStart = 2
  DmaEnd = 9
  vmm_max_pages = 6
  TablePages = 3
  HeapSizes = {1, 2}
  DmaSizes = {1, 2}
  ChunkSizes = {1}
  FbFirst = 5
  FbPages = 1
  BitmapPage = 0
  BootBitmaps <- AnyBitmap
INVARIANTS  RegionsDisjoint RegionsBacked
PROPERTIES MarkedMappingsStable
CHECK_DEADLOCK FALSE
