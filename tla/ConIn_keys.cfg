SPECIFICATION Spec
CONSTANTS
  d1 = d1
  d2 = d2
  d3 = d3
  tog = tog
  n1 = n1
  n2 = n2
  caps = caps
  NoHandle = NoHandle
  NoLock = NoLock
  ToggleNotify = tog
  Dev = {d1, d2}
  HasTextIn = {d1, d2}
  HasEx = {d1, d2}
  Flaky = {}
  NotifyIds = {tog}
  Covered <- MCSelfOnly
  Locks = {NoLock, caps}
  CallerStates <- MCValid
  AllocUnit = 2
  MayRunOut = FALSE
  ConnectOnDemand = TRUE
  MaxKeys = 2
INVARIANT ToggleInSync
PROPERTIES
  KeysInOrder
  FullKeysAreKept
VIEW StateView
