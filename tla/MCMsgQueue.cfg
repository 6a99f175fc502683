CONSTANTS
  owner = owner
  server = server
  client = client
  Threads <- MCThreads
  Owner = owner
  Servers <- MCServers
  SoleScanner = TRUE
  MaxMessages = 2
SPECIFICATION FairSpec
INVARIANT MessagesHaveTokens
INVARIANT OwnedOnce
INVARIANT PointersLive
INVARIANT FreedAlone
INVARIANT DeliveredAcrossInOrder
PROPERTY EveryMessageServed
\* The queue may end freed, and a read that waits for ever may never get a message.
CHECK_DEADLOCK FALSE
