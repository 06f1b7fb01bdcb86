\* Sectors of 2 cells, at most 2 in a command; clusters of 4 cells, chains of up to 3.
CONSTANTS
  SectorSize = 2
  MaxTransfer = 2
  PartitionStart = 1
  MaxLength = 11
  Mark = 200
  SectorsPerCluster = 2
  ReservedSectors = 1
  FatSectors = 4
  Fats = 2
  RootCluster = 2
  EndOfChain = 99
  CopyRange = 16
  ScanEntries = 4
  NameSize = 3
  MaxWrites = 1
  MaxRead = 13
  MaxIndex = 6
  Dirents <- MCDirents
  Disks <- MCDisks
  AtaRequests <- MCAtaRequests
  Names <- MCNames
SPECIFICATION FatSpec
PROPERTY DiskIsFlat
PROPERTY ReadsAreRight
PROPERTY DirectoriesAreRight
