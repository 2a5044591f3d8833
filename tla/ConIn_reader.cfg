SPECIFICATION ReaderSpec
CONSTANTS
  d1 = d1
  d2 = d2
  d3 = d3
  tog = tog
  n1 = n1
  n2 = n2
  caps = caps
  NoHandle = NoHandle
  NoLock = NoLock
  ToggleNotify = tog
  Dev = {d1, d2}
  HasTextIn = {d1, d2}
  HasEx = {d1}
  Flaky = {}
  NotifyIds = {tog}
  Covered <- MCSelfOnly
  Locks = {NoLock}
  CallerStates <- MCExposed
  AllocUnit = 2
  MayRunOut = FALSE
  ConnectOnDemand = TRUE
  MaxKeys = 2
PROPERTY EveryKeyIsRead
