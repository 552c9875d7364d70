SPECIFICATION FairSpec
CONSTANTS
  Parts = {"turn", "prompt", "ends", "owner", "ready", "hooks", "capture"}
PROPERTIES WorkEnds WorkArrives
CHECK_DEADLOCK FALSE
