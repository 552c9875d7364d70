SPECIFICATION CasesSpec
CONSTANTS
  Cases = {"given"}
  Sessions <- MCOneSession
  Keys = {k1}
  k1 = k1
  k2 = k2
  Uninstalled = {}
  c1 = c1
  c2 = c2
  Projects <- MCProjects
  ProjectOf <- MCOneProject
  BranchlessKeys = {}
  Runtimes = {r1}
  NoRuntime = NoRuntime
  Clients = {c1}
  Commands = {"spawn", "send"}
  GlobalLimit = 2
  ProjectLimit = 1
  Faults = {}
  Background = {}
  MaxCommands <- MCTwo
  MaxCrashes = 0
INVARIANT SendingKillsNothing
CHECK_DEADLOCK FALSE
