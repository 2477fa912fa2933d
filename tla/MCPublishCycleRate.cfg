SPECIFICATION Spec
CONSTANTS
  c1 = c1
  c2 = c2
  t1 = t1
  Clients = {c1, c2}
  Topics = {t1}
  Requested <- MCRequested
  RateUnits = 2
  MaxRate = 4
  Second = 2
  Stamps = {2, 3, 4}
  MaxMessages = 3
  Name <- MCName
  Size <- MCSize
  heavy_frame_threshold_bytes = 2
  Byte = 4
  SizeOf16 = 1
  SizeOf32 = 3
  SizeOf64 = 2
  kBinaryFrameMagic = 27
  NoRate = NoRate
SYMMETRY MCSymmetry
CHECK_DEADLOCK FALSE
INVARIANTS
  RateLimitHolds
