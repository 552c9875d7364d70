SPECIFICATION CasesSpec
CONSTANTS
  Cases = {"kill", "send", "restart", "capacity", "duplicates", "failures"}
  Sessions <- MCSessions2
  Keys = {k1, k2}
  k1 = k1
  k2 = k2
  Uninstalled = {k2}
  c1 = c1
  c2 = c2
  Projects <- MCProjects
  ProjectOf <- MCOneProject
  NoRuntime = NoRuntime
  GlobalLimit = 2
  ProjectLimit = 2
  BranchlessKeys = {}
  Runtimes = {r1, r2}
  Clients = {c1, c2}
  Commands = {}
  \* What the properties allow for; each case has its own.
  Faults = {"owner"}
  Background = {}
  MaxCommands <- MCNone
  MaxCrashes = 0
SYMMETRY MCSymmetry
VIEW MCView
INVARIANTS LaunchOnce KillReachesRuntime SeenIsSaved CasesWithinLimits
PROPERTIES SurvivorsAreReattached
CHECK_DEADLOCK FALSE
