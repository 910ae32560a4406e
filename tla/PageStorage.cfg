SPECIFICATION OriginSpec
CONSTANTS
  a = a
  b = b
  Empty = Empty
  Garbled = Garbled
  NoSeed = NoSeed
  NoSite = NoSite
  New = New
  Idle = Idle
  Sites <- TwoSites
  MaxProcs = 2
  MaxWrites = 3
  MaxRequests = 4
  MaxFaults = 2
  Names = {people}
  Keys = {1, 2}
  NoKey = none
  Quota = 2
  MaxVersion = 2
  MaxOps = 7
SYMMETRY Symmetry
\* An idle browser waits for its user.
CHECK_DEADLOCK FALSE
INVARIANTS
  OneProcessKeepsAll
  OwnWritesStay
  RecordsAreWhole
  SavedWasOffered
\* A claim that fails; one at a time, as TLC stops at the first it finds violated.
\* INVARIANT CompleteComesLast
