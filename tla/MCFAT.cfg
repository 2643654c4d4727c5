SPECIFICATION Spec
CONSTANTS
  Byte = 4
  HeadRange = 2
  SectorsPerTrack = 3
  Heads = 2
  sectors_per_cluster = 2
  EntriesPerSector = 5
  SECTOR_SIZE = 2
  root_cluster = 2
  Drives <- MCDrives
  Disk <- MCDisk
  NextCluster <- MCNextCluster
  FatValues <- MCFatValues
  Upper <- MCUpper
  FullParts <- MCFullParts
  Buses <- MCBuses
  CdPaths <- MCCdPaths
  CatPaths <- MCCatPaths
  IndexPath <- MCIndexPath
  MaxRequests = 1
INVARIANTS LookupIsRight PathNamesRoot ReadIsExact
PROPERTIES ReadsEnd
