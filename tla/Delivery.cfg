SPECIFICATION MCSpec
CONSTANTS
  Producers = {p1, p2}
  None = None
  Cap = 2
  MaxSends = 2
  loop = loop
  app = app
  l1 = l1
  l2 = l2
  m1 = m1
  dev = dev
  s1 = s1
  s2 = s2
INVARIANTS
  NoLostWakeup
  DeliverySound
  StackSound
  ServicesSound
PROPERTIES
  ImplementsFifo
  SendsSettle
  AsyncFreed
  ReadResumes
CHECK_DEADLOCK FALSE
