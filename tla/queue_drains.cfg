SPECIFICATION FairSpec
CONSTANTS
  Machine = {m1,m2}
  Slot = {s1}
  Crawler = {c1,c2}
  Release = {r1}
  Item = {i1}
  RequiresRelease = {c2}
  Unloaded = {c2}
  BatchSize = 1
  MaxRequests = 2
  MaxStops = 1
  MaxOverruns = 0
  MaxFaults = 1
  NULL = NULL
PROPERTY QueueDrains
CHECK_DEADLOCK FALSE
