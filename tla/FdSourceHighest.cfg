SPECIFICATION Spec
CONSTANTS
  Fds = {f1, f2}
  Prios = {1, 2}
  Wants = {{"read"}}
  MaxCnt = 2
  None = None
PROPERTIES
  ServesHighest
