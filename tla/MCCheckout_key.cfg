SPECIFICATION Spec
CONSTANTS
  Products = {"catch", "whisper"}
  Plans = {spark, long}
  Attempts = {a1, a2}
  Flows = {f1, f2}
  None = None
  MaxSession = 3
INVARIANTS
  DeliveredLinkOpens
