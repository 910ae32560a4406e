SPECIFICATION Spec
CONSTANTS
  news = news
  metrics = metrics
  shop = shop
  tracker = tracker
  nowhere = nowhere
  N = N
  S = S
  T = T
  F = F
  Hosts <- MCHosts
  NoHost = nowhere
  SiteOf <- MCSiteOf
  Urls <- MCUrls
  Listed <- MCListed
  Workers = {1}
  Ages = {0, 1}
  MaxRedirects = 2
  MaxTime = 1
  MaxRequests = 2
  Open <- MCOpen
  Main = main
  None = none
\* The bounds end every behaviour.
CHECK_DEADLOCK FALSE
INVARIANT SameCallOnEveryHop
