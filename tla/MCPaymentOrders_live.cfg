SPECIFICATION FairSpec
CONSTANTS
  Keys = {k1}
  Requests = {r1, r2}
  Purchases = {catch, whisper}
  Whispers = {whisper}
  Protocols = {}
  Invoices = {i1, i2}
  Resources = {x1, x2}
  NoKey = NoKey
  NoRequest = NoRequest
  NoPurchase = NoPurchase
  NoInvoice = NoInvoice
  NoResource = NoResource
  NoProtocol = NoProtocol
PROPERTIES
  PaidIsDispensed
