SPECIFICATION MCSpec
CONSTANTS
  Ips = {1, 2, 3}
  Macs = {1, 2}
  MaxPeers = 2
  SeqMax = 3
  Window = 1
  Infos <- MCInfos
  MaxStarts = 1
  MaxFaults = 1
  MaxJoins = 3
INVARIANTS
  WireSound
  LinkSound
  SpekeSound
  SleSound
  AdvSound
  HotspotSound
  ControlSound
CHECK_DEADLOCK FALSE
