SPECIFICATION Spec
CONSTANTS
  DefaultFontSize = 20
  SpaceAt = 5
  BoxLineHeight = 20
  PosterlessWidth = 300
  BarHeight = 32
  ButtonWidth = 32
  TimeWidth = 70
  RingWidth = 2
  Colors = {"red", "blue"}
  Canvases <- MCCanvases
  TabCounts = {1, 3}
  Trees = {0, 15, 16}
  Talls = {10, 110}
  Logs = {0, 14}
  Memory = {1, 2, 3, 4}
  Nothing = Nothing
  TextNode = TextNode
  MaxCalls = 6
CHECK_DEADLOCK FALSE
\* One claim at a time: TLC stops at the first it finds violated.
INVARIANT SeenIsHit
\* INVARIANT ContentsMoveAlong
\* INVARIANT SessionsEnd
