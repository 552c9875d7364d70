SPECIFICATION CasesSpec
CONSTANTS
  k1 = k1
  d1 = d1
  u1 = u1
  Keys = {k1}
  DeviceOf <- MCDevice
  OwnerOf <- MCOwner
  Creators = {"a", "b"}
  MaxTerminals = 2
  MaxConns = 3
  MaxCreates = 1
  MaxFrames = 2
  BufferCap = 1
  SessionCap = 2
  DeviceCap = 2
  UserCap = 2
  FrameKinds = {}
  SlowPeers = TRUE
  Deletions = FALSE
INVARIANTS NothingStrands EveryoneIsTold OutputKeepsOrder
PROPERTIES ReplacementStays
CHECK_DEADLOCK FALSE
