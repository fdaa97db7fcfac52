SPECIFICATION FairSpec
CONSTANTS
  Key = {k1, k2}
  Slots = 4
INVARIANTS TypeOK CopyIsOldest
PROPERTIES FifoSpec KeysAreTaken
