SPECIFICATION FairCases
CONSTANTS
  Cases = {"given"}
  Sessions <- MCSessions2
  Keys = {k1}
  k1 = k1
  k2 = k2
  Uninstalled = {}
  c1 = c1
  c2 = c2
  Projects <- MCProjects
  ProjectOf <- MCOneProject
  NoRuntime = NoRuntime
  GlobalLimit = 2
  ProjectLimit = 1
  BranchlessKeys = {}
  Runtimes = {r1}
  Clients = {c1}
  Commands = {"spawn", "kill", "timeout"}
  Faults = {"process"}
  Background = {"output"}
  MaxCommands <- MCThree
  MaxCrashes = 0
VIEW MCView
INVARIANTS LaunchesWithinLimits
PROPERTIES NeverRequeued LaunchesProgress
CHECK_DEADLOCK FALSE
