SPECIFICATION Spec
CONSTANTS
  s1 = s1
  s2 = s2
  u1 = u1
  u2 = u2
  u3 = u3
  About = About
  Failed = Failed
  NoSite = NoSite
  NoUrl = NoUrl
  Sites <- OneSite
  Urls <- OneUrl
  SiteOf <- OneSiteOf
  MaxTabs = 2
  MaxEvents = 6
  MaxCrashes = 1
\* An idle browser waits for input.
CHECK_DEADLOCK FALSE
\* One claim at a time: TLC stops at the first it finds violated.
INVARIANT ReplyMatchesNavigation
\* INVARIANT NewerNavigationWins
