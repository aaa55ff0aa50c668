SPECIFICATION Spec
CONSTANTS
  NODES = 1
  FLOWS = 2
  Signals = {"SIGINT"}
  Mbuf = {m1, m2}
  NoMbuf = NoMbuf
  RingCap = 2
  BURST = 2
  NODE_LIMIT = 1
  TX_LIMIT = 1
  QLEN_LIMIT = 3
  WORD = 8
  HostPort = 0
  DefaultPort = 1
  intra_node = "WFQ"
  inter_node = "SP"
  SP_priority <- MCPriority
  WFQ_weight <- MCWeight
  pFabric_size <- MCSize
  Arrivals <- FlowTraffic
  MaxArrivals = 3
INVARIANTS TypeOK BuffersAccounted QlenTracksRing FlowOrder SharesKept
PROPERTIES EveryPacketSent Quits
CHECK_DEADLOCK FALSE
