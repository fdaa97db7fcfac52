SPECIFICATION Spec
CONSTANTS
  Machines <- MCMachines
  MaxDisks = 3
  MaxPartitions = 3
  GptSectors = 2
  MaxDrives = 2
  FatPerSector = 4
  EndOfChain = 99
  MaxPieces = 2
  MaxEntries = 3
  BufferSize = 5
  Paths <- MCPaths
INVARIANTS DrivesAreVolumes 
 
