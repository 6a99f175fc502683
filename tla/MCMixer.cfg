CONSTANTS
  t1 = t1
  t2 = t2
  b1 = b1
  b2 = b2
  b3 = b3
  Threads <- MCThreads
  Bufs <- MCBufs
  Slots <- MCSlots
  Streams <- MCStreams
  Kinds <- MCKinds
  Device = Device
  None = None
  Chunk = 2
  MaxCalls = 3
  ClosersWait = TRUE
SPECIFICATION FairSpec
INVARIANT NoUseAfterFree
INVARIANT BufOwnedOnce
INVARIANT PlaysInTurn
PROPERTY Gapless
PROPERTY DrainReturns
