SPECIFICATION FairSpec
CONSTANTS
  SEQ = 64
  ISS = 60
  StreamLen = 10
  TCP_SND_BUF = 8
  TCP_SND_QUEUELEN = 3
  TCP_MAXRTX = 2
  mss = 4
  PeerWnd = 8
  FirstWnd = 8
  MaxFail = 1
  MaxEdge = 10
  WriteSizes = {2}
  CWnds = {4, 8}
INVARIANTS TypeOK QueuesContiguous SndBufAccounted PersistWithoutFlight NoSendStall PeerNotOverrun FinIsLast
PROPERTIES Drains
CHECK_DEADLOCK FALSE
