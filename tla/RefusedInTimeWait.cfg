SPECIFICATION Spec
CONSTANTS
  TCP_WND = 3
  TCP_SND_BUF = 1
  MaxRun = 1
  TCP_RCVLOWAT = 1
  TCP_SNDLOWAT = 1
  ReadModes = {"bytes"}
  AckSizes = {1}
  WriteSizes = {1}
  MaxSegments = 1
  MaxWrites = 0
  MayRunOut = {FALSE}
  HalfClose = TRUE
INVARIANT RefusedIsRetried
CHECK_DEADLOCK FALSE
