SPECIFICATION Spec
CONSTANTS
  Dev = {d1, d2}
  Locks = {none, caps}
  NoLock = none
  MaxPresses = 1
INVARIANT QuietMeansInSync
