SPECIFICATION Spec
CONSTANTS
  SEQ = 64
  ISS = 60
  StreamLen = 9
  TCP_SND_BUF = 8
  TCP_SND_QUEUELEN = 3
  TCP_MAXRTX = 1
  mss = 4
  PeerWnd = 8
  FirstWnd = 8
  MaxFail = 0
  MaxEdge = 9
  WriteSizes = {1, 2, 4}
  CWnds = {4, 8}
PROPERTIES SplitFillsWindow
CHECK_DEADLOCK FALSE
