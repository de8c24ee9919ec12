SPECIFICATION Spec
CONSTANTS
  Keys = {k1}
  Requests = {r1, r2, r3}
  Purchases = {whisper}
  Whispers = {whisper}
  Protocols = {payment, l402}
  Invoices = {i1, i2}
  Resources = {x1, x2}
  NoKey = NoKey
  NoRequest = NoRequest
  NoPurchase = NoPurchase
  NoInvoice = NoInvoice
  NoResource = NoResource
  NoProtocol = NoProtocol
SYMMETRY Symmetry
INVARIANTS
  TypeOK
  SettledBeforePaid
  OneResourcePerOrder
  DeliveryIsStable
  QuotedInvoiceIsAttached
  PollAfterDispenseDelivers
  LedgersAgree
  OneCallerPerOrder
PROPERTIES
  VendsLikeTheMachine
