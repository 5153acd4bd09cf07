SPECIFICATION MCSpec
CONSTANTS
  Callers = {c1, c2, c3}
  Loop = Loop
  None = None
  Cap = 2
  MaxCalls = 4
  Keys <- MCKeys
  BucketSize = 2
  MaxValues = 4
  s1 = s1
  s2 = s2
  s3 = s3
  app = app
  other = other
INVARIANTS
  FrameAlive
  OkMeansRan
  ThreadsSound
  MapSound
PROPERTIES
  CallReturns
  QuitStops
  InitSound
  CallsTruthful
CHECK_DEADLOCK FALSE
