SPECIFICATION MCSpec
CONSTANTS
  Kvs = {"posix", "oh_lite"}
  Paths = {"d", "p"}
  Default = "d"
  Users = {"u1"}
  MaxSaves = 2
  MaxStoreFaults = 1
  Puuids = 3
  Addrs = 2
  MaxClientNum = 2
  ExpireTime = 2
  SeqWindow = 2
  MapBits = 4
  MaxSess = 3
  MaxMsgs = 3
  MaxReports = 1
  MaxStarts = 1
  MaxLocalFaults = 1
INVARIANTS
  TimeSound
  KeptSound
  LanSound
CHECK_DEADLOCK FALSE
