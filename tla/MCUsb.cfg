SPECIFICATION Spec
CONSTANTS
  Worlds <- MCWorlds
  RingSize = 5
  MaxTransactions = 6
  MaxTimeouts = 3
INVARIANTS OwnAnswer InOrder
PROPERTIES TrueIsRight ReadsSpec
CHECK_DEADLOCK FALSE
