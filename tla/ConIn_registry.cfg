SPECIFICATION Spec
CONSTANTS
  d1 = d1
  d2 = d2
  d3 = d3
  tog = tog
  n1 = n1
  n2 = n2
  caps = caps
  NoHandle = NoHandle
  NoLock = NoLock
  ToggleNotify = tog
  Dev = {d1, d2, d3}
  HasTextIn = {d1, d2, d3}
  HasEx = {d1, d2}
  Flaky = {d2}
  NotifyIds = {tog, n1}
  Covered <- MCSelfOnly
  Locks = {NoLock}
  CallerStates <- MCNoStates
  AllocUnit = 1
  MayRunOut = TRUE
  ConnectOnDemand = FALSE
  MaxKeys = 0
INVARIANTS
  RegistryInv
  NoOverrun
  RegisteredEverywhere
PROPERTIES
  UnregisterIsComplete
  FailedCallLeavesNoTrace
