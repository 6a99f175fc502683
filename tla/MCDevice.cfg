CONSTANTS
  t1 = t1
  t2 = t2
  t3 = t3
  Threads <- MCThreads
  Feeders = {f1, f2}
  Built = {"WIN32", "PORTAUDIO", "SDL", "ALSA"}
  Streams <- MCStreams
  MaxPulls = 2
  MaxCalls = 5
  CallersHold = TRUE
  OpenMayFail = TRUE
  StartMayFail = FALSE
  Closed = Closed
  None = None
SPECIFICATION FairSpec
CHECK_DEADLOCK FALSE
INVARIANT DeviceOutlivesFeeder
INVARIANT OpenForLife
PROPERTY PlayReturns
