SPECIFICATION Spec
CONSTANTS
  DefaultFontSize = 20
  SpaceAt = 5
  BoxLineHeight = 20
  PosterlessWidth = 300
  BarHeight = 32
  ButtonWidth = 32
  TimeWidth = 70
  RingWidth = 2
  Colors = {"red", "blue"}
  Canvases <- MCCanvases
  TabCounts = {1, 3}
  Trees = {0, 15, 16}
  Talls = {10, 110}
  Logs = {0, 14}
  Memory = {1, 2, 3, 4}
  Nothing = Nothing
  TextNode = TextNode
  MaxCalls = 6
\* What is worked out is done, and the bound on calls ends what is of a document.
CHECK_DEADLOCK FALSE
INVARIANT MatchingIsSearch
INVARIANT HeaviestWins
INVARIANT FlowKeepsApart
INVARIANT ItemsKeepApart
INVARIANT PositionsAgree
INVARIANT BarsTellTruth
INVARIANT DocumentIsSound
INVARIANT QueriesAgree
INVARIANT IdsNameTheirNode
