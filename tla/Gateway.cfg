SPECIFICATION Spec
CONSTANTS
  first = first
  second = second
  user = user
  admin = admin
  guest = guest
  Blank = Blank
  None = None
  Call = {first, second}
  Token = {user, admin, guest}
  Admin = {admin}
  ApiKeys = {user, admin, Blank}
  Asks <- AnyAndRead
  Rpm = 2
  MaxRetries = 1
  MaxWindows = 1
INVARIANTS
  TypeOK
  ErrorMeansNoEffect
  EffectHeardOnce
  LimiterKnowsOnlyCallers
  UnreadableRepeatedInVain
PROPERTIES
  CallsEnd
CHECK_DEADLOCK FALSE
