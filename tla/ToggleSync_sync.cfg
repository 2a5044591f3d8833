SPECIFICATION FairSpec
CONSTANTS
  Dev = {d1, d2, d3}
  Locks = {none, caps}
  NoLock = none
  MaxPresses = 3
INVARIANTS
  SyncedUnlessTorn
PROPERTIES
  AgreeInTheEnd
