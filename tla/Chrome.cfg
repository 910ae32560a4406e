SPECIFICATION InterfaceSpec
CONSTANTS
  home = home
  p = p
  q = q
  Remote = {p, q}
  Local = {home}
  Home = home
  TextOf <- MCTextOf
  Height <- MCHeight
  Spots <- MCSpots
  Panel = 1
  Duration = 1
  MaxText = 2
  MaxTabs = 2
  MaxEvents = 4
  Sources = {"page", "sound"}
  Sizes = {0, 1, 3}
  Bucket = 2
  Debounce = 2
  Delays = {0, 2}
  MaxNow = 3
  a = a
  b = b
  r1 = r1
  r2 = r2
  s = s
  form = form
  NoNode = NoNode
  NoForm = NoForm
  Nodes <- MCNodes
  Order <- MCOrder
  Kind <- MCKind
  Form <- MCForm
  MaxLen = 2
  MaxInputs = 4
  MaxDeeds = 2
\* The browser waits for its user, and a process that panicked is gone.
CHECK_DEADLOCK FALSE
INVARIANTS
  AddressBarOK
  LeftoversAreLate
  HistoryRoundTrip
  PlaybackAgrees
  FocusAgrees
  FieldsAreSound
  NothingIsForgotten
  ClicksLandWhereShown
