SPECIFICATION Spec
CONSTANTS
  Columns = {1, 2}
  Rows = {1, 2}
  ClockCell <- MCClockCell
  TextCell <- MCTextCell
PROPERTIES NoTornRead
