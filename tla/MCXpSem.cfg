CONSTANTS
  t1 = t1
  t2 = t2
  t3 = t3
  Threads <- MCThreads
  Owner = t1
  ValueMax = 2
  InitialValue = 1
  MaxCalls = 3
  NoThread = NoThread
SPECIFICATION Spec
SYMMETRY MCSymmetry
INVARIANT NoLostWakeup
INVARIANT NoUseAfterFree
PROPERTY Implements
\* Threads stop after MaxCalls calls, and a wait nobody posts for never ends.
CHECK_DEADLOCK FALSE
