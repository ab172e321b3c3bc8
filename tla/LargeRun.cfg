SPECIFICATION Spec
CONSTANTS
  TCP_WND = 5
  TCP_SND_BUF = 1
  MaxRun = 4
  TCP_RCVLOWAT = 2
  TCP_SNDLOWAT = 1
  ReadModes = {"bytes"}
  AckSizes = {1, 5}
  WriteSizes = {1}
  MaxSegments = 1
  MaxWrites = 0
  MayRunOut = {FALSE}
  HalfClose = FALSE
INVARIANT RefusedCanDrain
CHECK_DEADLOCK FALSE
