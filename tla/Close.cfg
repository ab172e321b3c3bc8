SPECIFICATION Spec
CONSTANTS
  TCP_WND = 2
  TCP_SND_BUF = 1
  MaxRun = 1
  TCP_RCVLOWAT = 1
  TCP_SNDLOWAT = 1
  ReadModes = {"bytes", "noread"}
  AckSizes = {1}
  WriteSizes = {1}
  MaxSegments = 2
  MaxWrites = 1
  MayRunOut = {TRUE, FALSE}
  HalfClose = TRUE
INVARIANTS
  PcbNeverDangles
  NotLeftClosing
  TerminatedIsLast
  BacklogSlotReturned
PROPERTIES
  KeepsContract
CHECK_DEADLOCK FALSE
