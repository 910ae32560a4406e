SPECIFICATION Spec
CONSTANTS
  t1 = t1
  t2 = t2
  t3 = t3
  o1 = o1
  o2 = o2
  v1 = v1
  v2 = v2
  Absent = Absent
  NoSession = NoSession
  NoTab = NoTab
  NoWake = NoWake
  Tabs <- ThreeTabs
  Origins <- TwoOrigins
  Values <- TwoValues
  MaxDelay = 1
  MaxTime = 2
  MaxOps = 3
  MaxMessages = 4
SYMMETRY Symmetry
\* A process waits for messages.
CHECK_DEADLOCK FALSE
INVARIANTS
  PagesKnowStore
  ReportsAreComplete
  NothingIsLeftWaiting
