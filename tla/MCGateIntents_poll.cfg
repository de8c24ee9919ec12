SPECIFICATION PollingSpec
CONSTANTS
  Intents = {j1}
  Requests = {r1}
  Bindings = {b1}
  Hashes = {h1}
  Jtis = {x1}
  Grants = {}
  FreeLimit = 1
  PackSize = 1
  GrantLife = 1
  Lifetime = 1
  Grace = 1
  MonthLength = 2
  MaxTime = 2
  NoRequest = NoRequest
  NoBinding = NoBinding
  NoHash = NoHash
  NoJti = NoJti
  NoIntent = NoIntent
PROPERTY PaidIsAuthorized
