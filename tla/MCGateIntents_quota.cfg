SPECIFICATION Spec
CONSTANTS
  Intents = {j1, j2}
  Requests = {r1, r2}
  Bindings = {b1}
  Hashes = {h1, h2}
  Jtis = {x1, x2}
  Grants = {g1}
  FreeLimit = 1
  PackSize = 1
  GrantLife = 1
  Lifetime = 1
  Grace = 0
  MonthLength = 1
  MaxTime = 1
  NoRequest = NoRequest
  NoBinding = NoBinding
  NoHash = NoHash
  NoJti = NoJti
  NoIntent = NoIntent
SYMMETRY Symmetry
INVARIANTS
  OneIntentPerPayment
  NothingIsOverdrawn
  FreeFirst
  ReceiptIsStable
PROPERTIES
  VendsLikeTheMachine
