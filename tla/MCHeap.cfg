SPECIFICATION FairSpec
CONSTANTS
  MemoryMaps <- MCMaps
  Top = 27
  LowEnd = 4
  HeaderUnits = 5
  MinData = 2
  Requests = {5, 17}
INVARIANTS TypeOK ListIntegrity UsedIsHeld NeverPanics Coalesced Conserved
PROPERTIES FailsOnlyWhenFull MallocReturns AllocatorSpec
