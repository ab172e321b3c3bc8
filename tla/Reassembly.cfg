SPECIFICATION FairSpec
CONSTANTS
  SEQ = 32
  ISS = 29
  StreamLen = 7
  MaxSeg = 3
  TCP_WND = 6
  TCP_MSS = 2
  mss = 1
  RCV_SCALE = 1
  MaxAckLoss = 1
INVARIANTS TypeOK StreamInOrder OoseqSorted WindowHonest AckPending NoWindowStall
PROPERTIES EdgeHolds ImplementsInOrderReceive WholeStreamDelivered
CHECK_DEADLOCK FALSE
