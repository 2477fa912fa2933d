SPECIFICATION MCSpec
CONSTANTS
  Depths = {0, 1, 9, 15}
  kFallbackDepth = 5
  min_qos_depth = 2
  max_qos_depth = 12
  SizeModulus = 16
  MaxPublishers = 3
  a = a
  b = b
  bad = bad
  Header = Header
  Types = {a, b, Header}
  Malformed = {bad}
  Contents <- MCContents
  Missing = Missing
CHECK_DEADLOCK FALSE
INVARIANTS
  QosIsExact
  DepthIsClampedSum
  ClientsCanDecode
