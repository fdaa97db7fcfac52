SPECIFICATION Spec
CONSTANTS
  Depth = 3
  IdModulus = 3
  MaxCommands = 7
INVARIANTS TypeOK TrueIsOwn NothingLost
PROPERTIES ReadsSpec
CHECK_DEADLOCK FALSE
