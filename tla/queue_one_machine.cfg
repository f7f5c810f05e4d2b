SPECIFICATION Spec
CONSTANTS
  Machine = {m1}
  Slot = {s1,s2}
  Crawler = {c1}
  Release = {r1}
  Item = {i1}
  RequiresRelease = {}
  Unloaded = {}
  BatchSize = 2
  MaxRequests = 3
  MaxStops = 1
  MaxOverruns = 1
  MaxFaults = 0
  NULL = NULL
INVARIANT OnlyFaultsStrandRows
INVARIANT NoListingOutlivesConversion
INVARIANT Inv
PROPERTY RequestsLeaveClaimedRows
CHECK_DEADLOCK FALSE
