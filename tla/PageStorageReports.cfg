SPECIFICATION OriginSpec
CONSTANTS
  a = a
  b = b
  Empty = Empty
  Garbled = Garbled
  NoSeed = NoSeed
  NoSite = NoSite
  New = New
  Idle = Idle
  Sites <- TwoSites
  MaxProcs = 2
  MaxWrites = 2
  MaxRequests = 4
  MaxFaults = 0
  Names = {people}
  Keys = {1, 2}
  NoKey = none
  Quota = 2
  MaxVersion = 2
  MaxOps = 0
SYMMETRY Symmetry
\* An idle browser waits for its user.
CHECK_DEADLOCK FALSE
INVARIANT
  ReportsKeepOthers
