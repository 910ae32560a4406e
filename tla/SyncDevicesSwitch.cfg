SPECIFICATION Spec
CONSTANTS
  phone = phone
  laptop = laptop
  b1 = b1
  b2 = b2
  v1 = v1
  v2 = v2
  here = here
  there = there
  Torn = Torn
  Devices <- TwoDevices
  Bookmarks <- TwoBookmarks
  Visits <- TwoVisits
  VisitedAt <- V2Later
  MaxHistory = 1
  Servers <- TwoServers
  Default <- DefaultServer
  Attempts = 2
  MaxTime = 1
  MaxOps = 4
  MaxFaults = 0
SYMMETRY Symmetry
\* Idle devices wait for their users.
CHECK_DEADLOCK FALSE
INVARIANT NoBlindOverwrite
