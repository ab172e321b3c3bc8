SPECIFICATION Spec
CONSTANTS
  TCP_WND = 5
  TCP_SND_BUF = 1
  MaxRun = 2
  TCP_RCVLOWAT = 2
  TCP_SNDLOWAT = 1
  ReadModes = {"bytes", "copy", "noread"}
  AckSizes = {1, 3}
  WriteSizes = {1}
  MaxSegments = 3
  MaxWrites = 0
  MayRunOut = {TRUE, FALSE}
  HalfClose = FALSE
INVARIANTS
  TypeOK
  WindowConserved
  InflightBacked
  BuffersAccounted
  DataWithinStream
  RefusedCanDrain
PROPERTIES
  KeepsContract
CHECK_DEADLOCK FALSE
