SPECIFICATION PartSpec
CONSTANTS
  d1 = d1
  d2 = d2
  u1 = u1
  u2 = u2
  c1 = c1
  c2 = c2
  k1 = k1
  k2 = k2
  Devices = {d1, d2}
  Users = {u1, u2}
  Codes = {c1, c2}
  Claims = {k1, k2}
  Tasks = {t1, t2, t3}
  None = None
  SizeOf <- MCSize
  CodeCap = 1
  ClaimCap = 2
  ClaimByteCap = 3
  DeviceCap = 2
  UserCap = 1
  MaxCrashes = 1
  Faults = {}
SYMMETRY Symmetric
INVARIANTS RegistryIsWhole UsedOnce ClaimBytesMatch
PROPERTIES DurableSpec
CHECK_DEADLOCK FALSE
