CONSTANTS
  t1 = t1
  t2 = t2
  t3 = t3
  Threads <- MCThreads
  Owner = t1
  InitialState = FALSE
  MaxWaiters = 2
  MaxCalls = 4
  NoThread = NoThread
SPECIFICATION FairSpec
INVARIANT TypeOK
INVARIANT NoneSleepsThroughSet
INVARIANT NoUseAfterClose
PROPERTY Implements
PROPERTY SetReleases
\* Threads stop after MaxCalls calls in all, and a wait for an event that nobody sets
\* never ends.
CHECK_DEADLOCK FALSE
