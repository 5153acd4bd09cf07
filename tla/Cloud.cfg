SPECIFICATION MCSpec
CONSTANTS
  Subs = {d1}
  Uses <- CalmAndRough
INVARIANTS
  CloudSound
  RevokesItsOwn
  ConnectSound
PROPERTIES
  ComesOnline
  RestoreForgets
  VerifySettles
CHECK_DEADLOCK FALSE
