SPECIFICATION FairSpec
CONSTANTS
  TICKS = 10
  TCP_TMR_INTERVAL = 1
  IP_TMR_INTERVAL = 2
  Pcbs = {p1, p2}
  BACKLOG = 1
  MaxRefs = 2
  MaxConns = 1
  MaxLag = 0
INVARIANTS TypeOK ArgsOwned BacklogCounted TcpTimerKept TimeoutsOnTime
PROPERTIES BacklogFrees
