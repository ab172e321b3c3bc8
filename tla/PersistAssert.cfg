SPECIFICATION Spec
CONSTANTS
  SEQ = 32
  ISS = 29
  StreamLen = 5
  TCP_SND_BUF = 4
  TCP_SND_QUEUELEN = 3
  TCP_MAXRTX = 2
  mss = 2
  PeerWnd = 4
  FirstWnd = 4
  MaxFail = 1
  MaxEdge = 9
  WriteSizes = {1, 2, 3, 4, 5}
  CWnds = {2, 4}
INVARIANT PersistHasData
CHECK_DEADLOCK FALSE
