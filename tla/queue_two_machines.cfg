SPECIFICATION Spec
CONSTANTS
  Machine = {m1,m2}
  Slot = {s1}
  Crawler = {c1,c2}
  Release = {r1}
  Item = {}
  RequiresRelease = {}
  Unloaded = {}
  BatchSize = 2
  MaxRequests = 2
  MaxStops = 0
  MaxOverruns = 1
  MaxFaults = 1
  NULL = NULL
INVARIANT NothingOwedIsLost
INVARIANT OneWorkerPerRow
PROPERTY SupersededWritesNothing
CHECK_DEADLOCK FALSE
SYMMETRY Symmetry
