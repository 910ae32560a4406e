SPECIFICATION Spec
CONSTANTS
  s1 = s1
  s2 = s2
  u1 = u1
  u2 = u2
  u3 = u3
  About = About
  Failed = Failed
  NoSite = NoSite
  NoUrl = NoUrl
  Sites <- TwoSites
  Urls <- TwoUrls
  SiteOf <- TwoSiteOf
  MaxTabs = 3
  MaxEvents = 4
  MaxCrashes = 1
\* An idle browser waits for input.
CHECK_DEADLOCK FALSE
INVARIANTS
  TabsAreSound
  ReferencedSitesPooled
  NoVainWait
  BlockingReplyIsOwn
  PendingReplyIsOwn
PROPERTIES
  ActiveTabSurvivesClose
