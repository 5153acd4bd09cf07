SPECIFICATION NsSpec
CONSTANTS
  CloudKind = "tcp"
  LanStacks = {"lan1", "lan2"}
  Cloud = "cloud"
  Fds = {1, 2, 3}
  MaxWatch = 2
  MaxErr = 3
INVARIANT OwnSocket
