SPECIFICATION Spec
CONSTANTS
  s1 = s1
  s2 = s2
  u1 = u1
  u2 = u2
  u3 = u3
  About = About
  Failed = Failed
  NoSite = NoSite
  NoUrl = NoUrl
  Sites <- TwoSites
  Urls <- TwoUrls
  SiteOf <- TwoSiteOf
  MaxTabs = 2
  MaxEvents = 3
  MaxCrashes = 1
\* An idle browser waits for input.
CHECK_DEADLOCK FALSE
PROPERTIES
  UiComesBack
  NavigationEnds
