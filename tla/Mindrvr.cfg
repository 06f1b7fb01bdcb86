\* Sectors of two cells, so that commands of one and of two sectors start in the
\* middle, before the end and over the end of a segment of four.
SPECIFICATION Spec

CONSTANTS
  SectorSize = 2
  MaxTransfer = 2
  Segment = 4
  MaxPrd = 2
  Sectors = {0, 1}
  Buffers = {0, 1, 3}
  MbrBuffer = 8
  DiskSize = 6
  MemorySize = 12
  MaxCommands = 2
  Signature <- MCSignature
  DriveKinds <- MCDriveKinds

PROPERTY CommandsTransfer
PROPERTY FailuresAreForGood
PROPERTY CommandsEnd

CHECK_DEADLOCK FALSE
