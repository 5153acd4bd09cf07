SPECIFICATION Spec
CONSTANTS
  Subs = {}
  Uses <- OnlyStray
CHECK_DEADLOCK FALSE
PROPERTY
  OnlyAskedWiped
