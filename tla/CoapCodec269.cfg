SPECIFICATION CcSpec
CONSTANTS
  Deltas = {0, 12, 13, 268, 269, 270}
  Lens = {0, 12, 13, 100}
  PayLens = {0, 5, 200}
  Tkls = {0, 8}
  Excluded = {}
  MaxFrame = 524
  MaxOpts = 2
  Hmac = 32
  SeqSpan = 16
  Windows = {1, 3, 7}
INVARIANT CodecRoundTrip
CHECK_DEADLOCK FALSE
