SPECIFICATION Spec
CONSTANTS
  phone = phone
  laptop = laptop
  b1 = b1
  b2 = b2
  v1 = v1
  v2 = v2
  here = here
  there = there
  Torn = Torn
  Devices <- TwoDevices
  Bookmarks <- OneBookmark
  Visits <- TwoVisits
  VisitedAt <- V2Later
  MaxHistory = 1
  Servers <- OneServer
  Default <- DefaultServer
  Attempts = 2
  MaxTime = 0
  MaxOps = 4
  MaxFaults = 2
SYMMETRY Symmetry
\* Idle devices wait for their users.
CHECK_DEADLOCK FALSE
INVARIANTS
  NoBlindOverwrite
  StoredSurvives
