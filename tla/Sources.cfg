SPECIFICATION MCSpec
CONSTANTS
  f1 = f1
  f2 = f2
  None = None
PROPERTIES
  TimersSound
  ArmedFires
  ServesByPriority
  EventServed
