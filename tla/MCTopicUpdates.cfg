SPECIFICATION FairSpec
CONSTANTS
  c1 = c1
  c2 = c2
  t1 = t1
  t2 = t2
  a = a
  b = b
  Clients = {c1, c2}
  Topics = {t1, t2}
  Types = {a, b}
  Whitelisted = {t1}
  Unparsable = {b}
  MaxChanges = 2
  None = None
CHECK_DEADLOCK FALSE
INVARIANTS
  InStepStays
  SchemaMatchesType
PROPERTY
  ChangesAreTold
