SPECIFICATION FairSpec
CONSTANTS
  Columns = {1}
  Rows = {1, 2}
  ClockCell <- MCClockCell
  TextCell <- MCTextCell
INVARIANTS TypeOK OneDraws NoGhosts ShadowIsClean
PROPERTIES LockIsReturned CursorFollows
