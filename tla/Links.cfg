SPECIFICATION MCSpec
CONSTANTS
  Peers = {p1, p2}
  Home = p1
  Ids = {1}
  Uris = {"res", "mute", "none"}
  MaxReq = 2
  MaxCnts = {1, 2}
  RespTimeout = 1
  RetransCnt = 2
  Interval = 1
  BufMax = 4
  MaxHandled = 2
  MaxRestart = 1
  ConnIds = {1}
  QCap = 2
  Durs = {1}
  MaxCalls = 3
  MaxLinks = 2
  MaxFaults = 1
INVARIANTS
  EndpointSound
  BleSound
PROPERTIES
  RequestsSettle
  AdvertisingEnds
CHECK_DEADLOCK FALSE
