SPECIFICATION Spec
CONSTANTS
  Radix = 4
  FrameAlign = 16
  StreamSize = 96
  StackTop = 128
  Garbage = {1}
  Fuel = 12
  Session <- MCSession
INVARIANTS Agrees OwnSource 
PROPERTIES Ends
CHECK_DEADLOCK FALSE
