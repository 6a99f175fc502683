CONSTANTS
  t1 = t1
  t2 = t2
  t3 = t3
  Threads <- MCThreads
  Feeders = {f1, f2}
  Built = {"WIN32", "PORTAUDIO", "SDL", "ALSA"}
  Streams <- MCStreams
  MaxPulls = 2
  MaxCalls = 5
  CallersHold = FALSE
  OpenMayFail = FALSE
  StartMayFail = FALSE
  Closed = Closed
  None = None
SPECIFICATION Spec
CHECK_DEADLOCK FALSE
INVARIANT OpenForLife
