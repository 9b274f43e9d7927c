SPECIFICATION FairSpec
CONSTANTS
  s1 = s1
  s2 = s2
  w1 = w1
  Capacity = 2
  Subs <- MCSubs
  Words <- MCWords
  Bounded = TRUE
  Watermark = 0
  MaxSeq = 4
  MaxReceived = 8
  Calls = {"subscribe", "subscribe_from_oldest", "try_recv"}
INVARIANT UnreadRetained
PROPERTIES ImplementsBroadcast SeenSubscribersGate EverythingPublished
