SPECIFICATION FairSpec
CONSTANTS
  s1 = s1
  w1 = w1
  w2 = w2
  Capacity = 3
  Subs <- MCOneSub
  Words <- MCWords
  Bounded = FALSE
  Watermark = 0
  MaxSeq = 7
  MaxReceived = 8
  Calls = {"subscribe", "subscribe_tracked", "subscribe_from_oldest", "drop", "try_recv", "recv", "drain", "latest"}
INVARIANT NoTornRead
PROPERTIES ImplementsBroadcast EmptyOnlyIfUnreadable LagSkipsOnlyOverwritten SubscribersCatchUp
