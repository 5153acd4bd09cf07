SPECIFICATION Spec
CONSTANTS
  Callers = {app}
  App = app
  None = None
  MaxTasks = 2
  Uses <- MCUses
INVARIANT
  StopOkMeansStopped
CHECK_DEADLOCK FALSE
