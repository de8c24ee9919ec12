SPECIFICATION FairClientSpec
CONSTANTS
  Intents = {j1}
  Requests = {r1, r2}
  Bindings = {b1, b2}
  Hashes = {h1}
  Jtis = {x1}
  Grants = {g1}
  FreeLimit = 0
  PackSize = 1
  GrantLife = 1
  Lifetime = 1
  Grace = 0
  MonthLength = 3
  MaxTime = 2
  ReceiptLife = 2
  NoRequest = NoRequest
  NoBinding = NoBinding
  NoHash = NoHash
  NoJti = NoJti
  NoIntent = NoIntent
INVARIANTS
  ProviderAskedOnce
  QuoteIsBinding
  ReceiptsServeOneRequest

  
