CONSTANTS
  t1 = t1
  t2 = t2
  t3 = t3
  Threads <- MCThreads
  MaxCount = 2
  MaxCalls = 3
  NoThread = NoThread
SPECIFICATION FairSpec
INVARIANT MutualExclusion
INVARIANT EventsTellCounters
INVARIANT DestroyedUnused
PROPERTY ReadersGiveWay
PROPERTY EveryCallReturns
\* Threads stop after MaxCalls calls.
CHECK_DEADLOCK FALSE
