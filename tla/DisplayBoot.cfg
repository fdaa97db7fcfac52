SPECIFICATION Spec
CONSTANTS
  Columns = {1}
  Rows = {1, 2}
  ClockCell <- MCClockCell
  TextCell <- MCTextCell
INVARIANTS BootIsOver
