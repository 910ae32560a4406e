SPECIFICATION GatedSpec
CONSTANTS
  alice = alice
  mallory = mallory
  red = red
  blue = blue
  Cut = Cut
  NoFile = NoFile
  Torn = Torn
  Secrets <- TwoSecrets
  Data <- TwoData
  Retention = 2
  OperatorWaits = TRUE
  MaxVersion = 4
  MaxDeaths = 1
  MaxRestores = 1
  Addresses = {home, cafe}
  Accounts = {account}
  MaxPerWindow = 2
  Window = 2
  MaxFailures = 2
  Lockout = 3
  MaxTime = 4
  MaxRequests = 6
INVARIANTS
  LiveIsWhole
  SupersededIsKept
  AttemptsAreBounded
PROPERTIES
  ImplementsRegister
