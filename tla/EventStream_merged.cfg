SPECIFICATION FairSpec
CONSTANTS
  Writers = {w1, w2}
  Streams = {s1}
  Buses = {"memory", "remote", "redis"}
  Grace = 2
  MaxEvents = 2
  MaxDrops = 2
INVARIANTS
  TypeOK
  ClientSeesPrefix
  ReceivedInOrder
PROPERTIES
  EveryEventArrives
  StreamsEnd
CHECK_DEADLOCK FALSE
