SPECIFICATION FairSpec
CONSTANTS
  p1 = p1
  p2 = p2
  p3 = p3
  s1 = s1
  w1 = w1
  Capacity = 2
  Pubs <- MCPubs
  Subs <- MCSubs
  Words <- MCWords
  Bounded = FALSE
  Watermark = 0
  MaxSeq = 3
  MaxReceived = 5
  Calls = {"subscribe", "recv"}
INVARIANTS OneWriterPerSlot SomebodyRuns CursorCaughtUp NoTornRead
PROPERTIES ImplementsMultiBroadcast PublishReturns SubscribersCatchUp
